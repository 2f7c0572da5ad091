----------------------------- MODULE FilesProofs -----------------------------
(* Safety of the archive of sent files and of recursive removal, for any   *)
(* trees, versions, commands and bounds.                                   *)
EXTENDS SentMirror, FiniteSetTheorems, SequenceTheorems, TLAPS

(***************************************************************************)
(* A name that no archived version has: of the numbers up to how many are  *)
(* taken, one is free, and so there is a least one.                        *)
(***************************************************************************)
LEMMA LeastFree ==
    ASSUME NEW taken, IsFiniteSet(taken),
           NEW free, free = {n \in 0 .. Cardinality(taken) : n \notin taken}
    PROVE  \E n \in free : \A m \in free : n <= m
<1>1. Cardinality(taken) \in Nat
  BY FS_CardinalityType
<1>2. free # {}
  <2> SUFFICES ASSUME free = {} PROVE FALSE
    OBVIOUS
  <2>1. 0 .. Cardinality(taken) \in SUBSET taken
    OBVIOUS
  <2>2. Cardinality(0 .. Cardinality(taken)) = Cardinality(taken) + 1
    BY <1>1, FS_Interval
  <2>3. Cardinality(0 .. Cardinality(taken)) <= Cardinality(taken)
    BY <2>1, FS_Subset
  <2> QED BY <1>1, <2>2, <2>3
<1>3. free \subseteq Nat
  BY <1>1
<1>4. PICK n \in free : \A m \in free : ~(<<m, n>> \in OpToRel(<, Nat))
  BY <1>2, <1>3, NatLessThanWellFounded, WFMin
<1>5. \A m \in free : ~(m < n)
  BY <1>3, <1>4 DEF OpToRel
<1> QED BY <1>3, <1>5

LEMMA FreeNameIsFree ==
    ASSUME IsFiniteSet(archive), NEW p, NEW s
    PROVE  free_name(p, s).path = p /\ \A a \in archive : a.name # free_name(p, s)
<1> DEFINE same == {b \in archive : b.name.path = p /\ b.name.stamp = s}
           taken == {a.name.n : a \in same}
           free == {n \in 0 .. Cardinality(taken) : n \notin taken}
           least == CHOOSE n \in free : \A m \in free : n <= m
<1>1. IsFiniteSet(same)
  BY FS_Subset
<1>2. IsFiniteSet(taken)
  <2> DEFINE f == [a \in same |-> a.name.n]
  <2>1. f \in Surjection(same, taken)
    BY DEF Surjection
  <2> HIDE DEF f, same, taken
  <2> QED BY <1>1, <2>1, FS_Surjection
<1>3. least \notin taken
  <2> HIDE DEF taken
  <2>1. \E n \in free : \A m \in free : n <= m
    BY <1>2, LeastFree
  <2>2. least \in free
    <3> HIDE DEF free
    <3> QED BY <2>1
  <2> QED BY <2>2
<1>4. free_name(p, s) = [path |-> p, stamp |-> s, n |-> least]
  BY DEF free_name
<1> HIDE DEF least
<1>5. ASSUME NEW a \in archive, a.name = free_name(p, s) PROVE FALSE
  <2>1. a \in same /\ a.name.n = least
    BY <1>4, <1>5
  <2> QED BY <1>3, <2>1
<1> QED BY <1>4, <1>5

(***************************************************************************)
(* The archive is written without a lock: what follows holds when nothing  *)
(* else writes it meanwhile, one sender at a time and no backup into it.   *)
(***************************************************************************)
OneWriter ==
    /\ \A x, y \in Senders : x = y
    /\ \A w \in Walks : w.kind = "backup" => w.source # "mirror"

(***************************************************************************)
(* The sender's steps: a free name stays free until the rename, the file   *)
(* is written where no whole version is, and recorded when it is there.    *)
(***************************************************************************)
SendOK(s) ==
    /\ DOMAIN s = {"at", "path", "version", "install", "name"}
    /\ s.path \in SendPaths /\ s.version \in Versions
    /\ s.at = "rename" => s.name.path = s.path /\ \A a \in archive : a.name # s.name
    /\ s.at = "write" => ~IsFile(mirror[s.path])
    /\ s.at = "append" => mirror[s.path] = File(s.version)
ArchiveInv ==
    /\ "mirror" \in DOMAIN kept /\ mirror \in [Paths -> Entries]
    /\ IsFiniteSet(archive)
    /\ status = "walking" => walk \in Walks
    /\ DOMAIN send = Senders /\ \A x \in Senders : send[x] # None => SendOK(send[x])
    /\ \A e \in manifest : e[1] \in SendPaths /\ e[2] \in Versions
    /\ ManifestIsTrue
Keeps == \A p \in SendPaths, v \in Versions : InMirror(p, v) => InMirror(p, v)'

LEMMA FileFacts ==
    ASSUME NEW v \in Versions
    PROVE  /\ File(v) \in Content /\ Cut(v) \in Content /\ IsFile(File(v)) /\ IsFile(Cut(v))
           /\ \A u : File(u) # Cut(v)
<1>1. File(v) \in Content /\ Cut(v) \in Content
  BY DEF File, Cut, Content
<1>2. IsFile(File(v)) /\ IsFile(Cut(v))
  BY <1>1, EntriesAssumption DEF IsFile
<1>3. \A u : File(u).whole # Cut(v).whole
  BY DEF File, Cut
<1> QED BY <1>1, <1>2, <1>3

LEMMA InitArchiveInv == MirrorInit => ArchiveInv
BY WalksAssumption, SendAssumption
   DEF MirrorInit, Init, ArchiveInv, Sources, Tree, mirror, ManifestIsTrue

(* What leaves the mirror and the archive alone.                           *)
LEMMA SameMirror ==
    ASSUME mirror' = mirror, archive' = archive
    PROVE  Keeps
BY DEF Keeps, InMirror

(* A command walking a tree: none writes the mirror.                       *)
LEMMA WalkKeeps ==
    ASSUME ArchiveInv, OneWriter, Next, UNCHANGED mirrorVars
    PROVE  ArchiveInv' /\ Keeps
<1>1. mirror' = mirror /\ "mirror" \in DOMAIN kept'
  <2>1. ASSUME NEW e, status = "walking", walk.kind = "backup", NEW c,
               kept' = [kept EXCEPT ![walk.source][e] = c]
        PROVE  mirror' = mirror /\ "mirror" \in DOMAIN kept'
    BY <2>1 DEF ArchiveInv, OneWriter, mirror
  <2>2. ASSUME kept' = kept PROVE mirror' = mirror /\ "mirror" \in DOMAIN kept'
    BY <2>2 DEF ArchiveInv, mirror
  <2>3. CASE backup_list
    <3>1. CASE kept' = [kept EXCEPT ![walk.source] = mkdirs(@, top.dir)]
      BY <2>3, <3>1 DEF backup_list, Walking, ArchiveInv, OneWriter, mirror
    <3> QED BY <2>2, <2>3, <3>1 DEF backup_list
  <2>4. ASSUME NEW e, backup_file(e) PROVE mirror' = mirror /\ "mirror" \in DOMAIN kept'
    BY <2>1, <2>2, <2>4 DEF backup_file, Handling, Walking
  <2>5. \/ kept' = kept \/ backup_list \/ \E e \in Paths : backup_file(e)
    BY DEF Next, Program, Environment, Begin, Step, ensure_device_path, restore_list, remove_list,
       leave_directory, backup_directory, restore_skip, restore_directory, restore_file, remove_entry,
       UserRemoves, UserPuts, UserChanges, PowerLoss, Killed
  <2> QED BY <2>2, <2>3, <2>4, <2>5
<1>2. status' = "walking" => walk' \in Walks
  <2>1. ASSUME NEW w \in Walks, Begin(w) PROVE walk' \in Walks
    BY <2>1 DEF Begin
  <2>2. CASE Step
    <3>1. walk' = walk /\ status = "walking"
      BY <2>2 DEF Step, ensure_device_path, backup_list, restore_list, remove_list,
         leave_directory, backup_directory, backup_file, restore_skip, restore_directory, restore_file,
         remove_entry, Walking, Handling, Restoring
    <3> QED BY <3>1 DEF ArchiveInv
  <2>3. CASE Environment
    BY <2>3 DEF Environment, UserRemoves, UserPuts, UserChanges, PowerLoss, Killed, Die, job, ArchiveInv
  <2> QED BY <2>1, <2>2, <2>3 DEF Next, Program
<1>3. Keeps
  BY <1>1, SameMirror DEF mirrorVars
<1>4. ManifestIsTrue'
  BY <1>1 DEF ArchiveInv, ManifestIsTrue, InMirror, mirrorVars
<1>5. \A x \in Senders : send'[x] # None => SendOK(send[x])'
  BY <1>1 DEF ArchiveInv, SendOK, mirrorVars
<1> QED BY <1>1, <1>2, <1>3, <1>4, <1>5 DEF ArchiveInv, mirrorVars

(* A step of the one sender.                                               *)
LEMMA SenderKeeps ==
    ASSUME ArchiveInv, OneWriter, NEW x \in Senders, UNCHANGED job,
           "mirror" \in DOMAIN kept', mirror' \in [Paths -> Entries], IsFiniteSet(archive'), Keeps,
           \/ manifest' = manifest
           \/ \E p \in SendPaths, v \in Versions : manifest' = manifest \cup {<<p, v>>} /\ InMirror(p, v)',
           DOMAIN send' = Senders, send'[x] # None => SendOK(send[x])'
    PROVE  ArchiveInv' /\ Keeps
<1>1. \A y \in Senders : send'[y] # None => SendOK(send[y])'
  BY DEF OneWriter
<1>2. \A e \in manifest' : e[1] \in SendPaths /\ e[2] \in Versions
  BY DEF ArchiveInv
<1>3. ManifestIsTrue'
  <2>1. \A e \in manifest : InMirror(e[1], e[2])'
    BY DEF ArchiveInv, ManifestIsTrue, Keeps
  <2> QED BY <2>1 DEF ManifestIsTrue
<1> QED BY <1>1, <1>2, <1>3 DEF ArchiveInv, job

(* The sender goes on to its next step, or stops, and nothing else changes *)
(* in the archive.                                                         *)
LEMMA StopKeeps ==
    ASSUME ArchiveInv, OneWriter, NEW x \in Senders, Stop(x), UNCHANGED <<kept, job, archive, manifest>>
    PROVE  ArchiveInv' /\ Keeps
<1>1. DOMAIN send' = Senders /\ send'[x] = None
  BY DEF Stop, ArchiveInv
<1>2. Keeps
  BY SameMirror DEF mirror
<1> QED BY <1>1, <1>2, SenderKeeps DEF ArchiveInv, mirror

LEMMA GoKeeps ==
    ASSUME ArchiveInv, OneWriter, NEW x \in Senders, send[x] # None,
           NEW place \in {"launch", "compare"}, Go(x, place), UNCHANGED <<kept, job, archive, manifest>>
    PROVE  ArchiveInv' /\ Keeps
<1>1. DOMAIN send' = Senders /\ SendOK(send[x])
  BY DEF Go, ArchiveInv
<1>2. send'[x] = [send[x] EXCEPT !.at = place]
  BY DEF Go, ArchiveInv
<1>3. SendOK(send[x])'
  BY <1>1, <1>2 DEF SendOK
<1>4. Keeps
  BY SameMirror DEF mirror
<1> QED BY <1>1, <1>3, <1>4, SenderKeeps DEF ArchiveInv, mirror

LEMMA OpenKeeps ==
    ASSUME ArchiveInv, OneWriter, NEW x \in Senders, NEW p \in SendPaths, NEW v \in Versions, NEW i \in BOOLEAN,
           open_upload(x, p, v, i)
    PROVE  ArchiveInv' /\ Keeps
<1>1. /\ DOMAIN send' = Senders
      /\ send'[x] = [at |-> "upload", path |-> p, version |-> v, install |-> i, name |-> None]
  BY DEF open_upload, ArchiveInv
<1>2. SendOK(send[x])'
  BY <1>1 DEF SendOK
<1>3. Keeps
  BY SameMirror DEF mirror, open_upload
<1> QED BY <1>1, <1>2, <1>3, SenderKeeps DEF ArchiveInv, mirror, open_upload

LEMMA CompareKeeps ==
    ASSUME ArchiveInv, OneWriter, NEW x \in Senders, compare(x)
    PROVE  ArchiveInv' /\ Keeps
<1> DEFINE s == send[x]
           p == s.path
<1>1. SendOK(s) /\ s # None /\ p \in SendPaths /\ p \in Paths /\ s.version \in Versions
  BY SendAssumption DEF compare, Sends, ArchiveInv, SendOK
<1>2. Parent[p] \in Paths
  BY <1>1, PathsAssumption, SendAssumption
<1>3. \/ blocked(p) /\ kept' = kept
      \/ ~blocked(p) /\ kept' = [kept EXCEPT !["mirror"] = mkdirs(@, Parent[p])]
  BY DEF compare
<1>4. /\ "mirror" \in DOMAIN kept' /\ mirror' \in [Paths -> Entries]
      /\ \A q \in Paths : mirror'[q] = mirror[q] \/ (mirror'[q] = Dir /\ ~IsFile(mirror[q]))
  <2>1. CASE kept' = kept
    <3>1. mirror' = mirror
      BY <2>1 DEF mirror
    <3> QED BY <2>1, <3>1 DEF ArchiveInv
  <2>2. CASE ~blocked(p) /\ kept' = [kept EXCEPT !["mirror"] = mkdirs(@, Parent[p])]
    <3>1. mirror' = mkdirs(mirror, Parent[p]) /\ \A q \in AncestorsAndSelf[Parent[p]] : ~IsFile(mirror[q])
      BY <2>2 DEF ArchiveInv, mirror, mkdirs_raises, blocked
    <3>2. mirror \in [Paths -> Entries] /\ Dir \in Entries
      BY DEF ArchiveInv, Entries
    <3>3. "mirror" \in DOMAIN kept'
      BY <2>2 DEF ArchiveInv
    <3> QED BY <3>1, <3>2, <3>3 DEF mkdirs
  <2> QED BY <1>3, <2>1, <2>2
<1>5. Keeps
  <2> SUFFICES ASSUME NEW q \in SendPaths, NEW v \in Versions, InMirror(q, v) PROVE InMirror(q, v)'
    BY DEF Keeps
  <2>1. mirror[q] = File(v) => mirror'[q] = File(v)
    BY <1>4, FileFacts, SendAssumption
  <2> QED BY <2>1 DEF InMirror, compare
<1>6. DOMAIN send' = Senders
  BY DEF compare, Stop, Go, ArchiveInv
<1>7. ASSUME send'[x] # None PROVE SendOK(send[x])'
  <2>1. CASE Stop(x)
    BY <1>7, <2>1 DEF Stop, ArchiveInv
  <2>2. CASE mirror[p] = None /\ Go(x, "write")
    <3>1. send'[x] = [s EXCEPT !.at = "write"]
      BY <2>2 DEF Go, ArchiveInv
    <3>2. ~IsFile(mirror'[p])
      BY <1>1, <1>4, <2>2 DEF IsFile
    <3> QED BY <1>1, <3>1, <3>2 DEF SendOK
  <2>3. CASE unchanged(x) /\ Go(x, "append")
    <3>1. send'[x] = [s EXCEPT !.at = "append"]
      BY <2>3 DEF Go, ArchiveInv
    <3>2. mirror'[p] = File(s.version)
      BY <1>1, <1>4, <2>3, FileFacts DEF unchanged
    <3> QED BY <1>1, <3>1, <3>2 DEF SendOK
  <2>4. ASSUME NEW t \in Stamps, send' = [send EXCEPT ![x].at = "rename", ![x].name = free_name(p, t)]
        PROVE  SendOK(send[x])'
    <3>1. free_name(p, t).path = p /\ \A a \in archive : a.name # free_name(p, t)
      BY FreeNameIsFree DEF ArchiveInv
    <3> DEFINE name == free_name(p, t)
    <3> HIDE DEF name
    <3>2. send' = [send EXCEPT ![x].at = "rename", ![x].name = name]
      BY <2>4 DEF name
    <3>3. /\ DOMAIN send'[x] = DOMAIN s /\ send'[x].path = s.path /\ send'[x].version = s.version
          /\ send'[x].at = "rename" /\ send'[x].name = name
      BY <1>1, <3>2 DEF ArchiveInv, SendOK
    <3> QED BY <1>1, <3>1, <3>3 DEF SendOK, compare, name
  <2> QED BY <2>1, <2>2, <2>3, <2>4 DEF compare
<1> QED BY <1>4, <1>5, <1>6, <1>7, SenderKeeps DEF ArchiveInv, compare

LEMMA RenameKeeps ==
    ASSUME ArchiveInv, OneWriter, NEW x \in Senders, rename(x)
    PROVE  ArchiveInv' /\ Keeps
<1> DEFINE s == send[x]
           p == s.path
<1>1. SendOK(s) /\ s # None /\ s.at = "rename" /\ p \in SendPaths /\ p \in Paths
  BY SendAssumption DEF rename, Sends, ArchiveInv, SendOK
<1>2. CASE mirror[p] = None /\ Stop(x) /\ UNCHANGED <<kept, archive>>
  BY <1>2, StopKeeps DEF rename
<1>3. CASE /\ archive' = {a \in archive : a.name # s.name} \cup {[name |-> s.name, content |-> mirror[p]]}
           /\ kept' = [kept EXCEPT !["mirror"][p] = None] /\ Go(x, "write")
  <2>1. archive' = archive \cup {[name |-> s.name, content |-> mirror[p]]}
    BY <1>1, <1>3 DEF SendOK
  <2>2. IsFiniteSet(archive')
    BY <2>1, FS_AddElement DEF ArchiveInv
  <2>3. mirror' = [mirror EXCEPT ![p] = None] /\ "mirror" \in DOMAIN kept'
    BY <1>3 DEF ArchiveInv, mirror
  <2>4. mirror' \in [Paths -> Entries]
    BY <2>3 DEF ArchiveInv, Entries
  <2>5. Keeps
    <3> SUFFICES ASSUME NEW q \in SendPaths, NEW v \in Versions, InMirror(q, v) PROVE InMirror(q, v)'
      BY DEF Keeps
    <3>1. CASE q # p
      <4>1. q \in Paths
        BY SendAssumption
      <4>2. mirror'[q] = mirror[q]
        BY <2>3, <3>1, <4>1 DEF ArchiveInv
      <4> QED BY <2>1, <4>2 DEF InMirror
    <3>2. CASE q = p /\ mirror[p] = File(v)
      <4> DEFINE a == [name |-> s.name, content |-> mirror[p]]
      <4>1. a \in archive' /\ a.name.path = p /\ a.content = File(v)
        BY <1>1, <2>1, <3>2 DEF SendOK
      <4> HIDE DEF a
      <4> QED BY <3>2, <4>1 DEF InMirror
    <3>3. CASE q = p /\ mirror[p] # File(v)
      BY <2>1, <3>3 DEF InMirror
    <3> QED BY <3>1, <3>2, <3>3
  <2>6. DOMAIN send' = Senders /\ send'[x] = [s EXCEPT !.at = "write"]
    BY <1>3 DEF Go, ArchiveInv
  <2>7. SendOK(send[x])'
    <3>1. ~IsFile(mirror'[p])
      BY <1>1, <2>3 DEF IsFile, ArchiveInv
    <3> QED BY <1>1, <2>6, <3>1 DEF SendOK
  <2> QED BY <2>2, <2>3, <2>4, <2>5, <2>6, <2>7, SenderKeeps DEF rename
<1> QED BY <1>2, <1>3 DEF rename

LEMMA WriteKeeps ==
    ASSUME ArchiveInv, OneWriter, NEW x \in Senders, write_bytes(x)
    PROVE  ArchiveInv' /\ Keeps
<1> DEFINE s == send[x]
           p == s.path
<1>1. /\ SendOK(s) /\ s # None /\ s.at = "write" /\ p \in Paths /\ s.version \in Versions
      /\ ~IsFile(mirror[p])
  BY SendAssumption DEF write_bytes, Sends, ArchiveInv, SendOK
<1>2. ASSUME NEW c \in Content, kept' = [kept EXCEPT !["mirror"][p] = c]
      PROVE  /\ "mirror" \in DOMAIN kept' /\ mirror' \in [Paths -> Entries] /\ mirror'[p] = c /\ Keeps
  <2>1. mirror' = [mirror EXCEPT ![p] = c] /\ "mirror" \in DOMAIN kept'
    BY <1>2 DEF ArchiveInv, mirror
  <2>2. mirror' \in [Paths -> Entries] /\ mirror'[p] = c
    BY <1>1, <2>1 DEF ArchiveInv, Entries
  <2>3. Keeps
    <3> SUFFICES ASSUME NEW q \in SendPaths, NEW v \in Versions, InMirror(q, v) PROVE InMirror(q, v)'
      BY DEF Keeps
    <3>1. mirror[q] = File(v) => q # p
      BY <1>1, FileFacts
    <3>2. mirror[q] = File(v) => mirror'[q] = File(v)
      BY <2>1, <3>1, SendAssumption DEF ArchiveInv
    <3> QED BY <3>2 DEF InMirror, write_bytes
  <2> QED BY <2>1, <2>2, <2>3
<1>3. CASE kept' = [kept EXCEPT !["mirror"][p] = File(s.version)] /\ Go(x, "append")
  <2>1. /\ "mirror" \in DOMAIN kept' /\ mirror' \in [Paths -> Entries] /\ mirror'[p] = File(s.version) /\ Keeps
    BY <1>1, <1>2, <1>3, FileFacts
  <2>2. DOMAIN send' = Senders /\ send'[x] = [s EXCEPT !.at = "append"]
    BY <1>3 DEF Go, ArchiveInv
  <2>3. SendOK(send[x])'
    BY <1>1, <2>1, <2>2 DEF SendOK
  <2> QED BY <2>1, <2>2, <2>3, SenderKeeps DEF write_bytes, ArchiveInv
<1>4. CASE kept' = [kept EXCEPT !["mirror"][p] = Cut(s.version)] /\ Stop(x)
  <2>1. "mirror" \in DOMAIN kept' /\ mirror' \in [Paths -> Entries] /\ Keeps
    BY <1>1, <1>2, <1>4, FileFacts
  <2>2. DOMAIN send' = Senders /\ send'[x] = None
    BY <1>4 DEF Stop, ArchiveInv
  <2> QED BY <2>1, <2>2, SenderKeeps DEF write_bytes, ArchiveInv
<1> QED BY <1>3, <1>4 DEF write_bytes

LEMMA AppendKeeps ==
    ASSUME ArchiveInv, OneWriter, NEW x \in Senders, append_manifest(x)
    PROVE  ArchiveInv' /\ Keeps
<1> DEFINE s == send[x]
<1>1. /\ SendOK(s) /\ s.path \in SendPaths /\ s.version \in Versions /\ mirror[s.path] = File(s.version)
  BY DEF append_manifest, Sends, ArchiveInv, SendOK
<1>2. Keeps /\ mirror' = mirror
  BY SameMirror DEF append_manifest, mirror
<1>3. ASSUME NEW p \in SendPaths, NEW v \in Versions, mirror[p] = File(v) PROVE InMirror(p, v)'
  BY <1>2, <1>3 DEF InMirror
<1>4. DOMAIN send' = Senders /\ send'[x] = None
  BY DEF append_manifest, Stop, ArchiveInv
<1>5. \E p \in SendPaths, v \in Versions : manifest' = manifest \cup {<<p, v>>} /\ InMirror(p, v)'
  <2>1. manifest' = manifest \cup {<<s.path, s.version>>}
    BY DEF append_manifest
  <2> QED BY <1>1, <1>3, <2>1
<1> QED BY <1>2, <1>4, <1>5, SenderKeeps DEF append_manifest, ArchiveInv

LEMMA StepArchive == ArchiveInv /\ OneWriter /\ [MirrorNext]_allVars => ArchiveInv' /\ Keeps
<1> SUFFICES ASSUME ArchiveInv, OneWriter, [MirrorNext]_allVars PROVE ArchiveInv' /\ Keeps
  OBVIOUS
<1>1. CASE Next /\ UNCHANGED mirrorVars
  BY <1>1, WalkKeeps
<1>2. ASSUME NEW x \in Senders, SendStep(x) PROVE ArchiveInv' /\ Keeps
  <2>1. CASE close_upload(x)
    BY <2>1, StopKeeps, GoKeeps DEF close_upload, Sends
  <2>2. CASE create_process(x)
    BY <2>2, StopKeeps, GoKeeps DEF create_process, Sends
  <2>3. CASE SenderKilled(x)
    BY <2>3, StopKeeps DEF SenderKilled
  <2> QED BY <1>2, <2>1, <2>2, <2>3, OpenKeeps, CompareKeeps, RenameKeeps, WriteKeeps, AppendKeeps DEF SendStep
<1>3. CASE UNCHANGED allVars
  <2>1. Keeps /\ mirror' = mirror
    BY <1>3, SameMirror DEF allVars, treeVars, mirrorVars, mirror
  <2>2. \A x \in Senders : send'[x] # None => SendOK(send[x])'
    BY <1>3, <2>1 DEF allVars, mirrorVars, ArchiveInv, SendOK
  <2> QED BY <1>3, <2>1, <2>2 DEF allVars, treeVars, mirrorVars, job, ArchiveInv, ManifestIsTrue, InMirror
<1> QED BY <1>1, <1>2, <1>3 DEF MirrorNext

(* The archive, the manifest and the file under way agree in every state.  *)
THEOREM ArchiveSafe == OneWriter => (MirrorSpec => []ArchiveInv)
<1> SUFFICES ASSUME OneWriter PROVE MirrorSpec => []ArchiveInv
  OBVIOUS
<1> QED BY InitArchiveInv, StepArchive, PTL DEF MirrorSpec

(* What the manifest says was sent can be read back from the archive.      *)
THEOREM ManifestHolds == OneWriter => (MirrorSpec => []ManifestIsTrue)
<1> SUFFICES ASSUME OneWriter PROVE MirrorSpec => []ManifestIsTrue
  OBVIOUS
<1>1. ArchiveInv => ManifestIsTrue
  BY DEF ArchiveInv
<1> QED BY <1>1, ArchiveSafe, PTL

(* No step overwrites the last copy of a version (_archived_name,          *)
(* and the comparison before every write).                                 *)
THEOREM VersionsAreKept == OneWriter => (MirrorSpec => PriorVersionsAreKept)
<1> SUFFICES ASSUME OneWriter PROVE MirrorSpec => PriorVersionsAreKept
  OBVIOUS
<1>1. ArchiveInv /\ [MirrorNext]_allVars
      => [\A p \in SendPaths, v \in Versions : InMirror(p, v) => InMirror(p, v)']_allVars
  BY StepArchive DEF Keeps
<1> QED BY <1>1, ArchiveSafe, PTL DEF MirrorSpec, PriorVersionsAreKept
-----------------------------------------------------------------------------
(***************************************************************************)
(* The walks.  The device and the trees on the Mac are trees at all times, *)
(* a file that is being sent stays where it is until it is complete, and   *)
(* the directories on the stack lie one in the other below the root of the *)
(* walk.                                                                   *)
(***************************************************************************)
Listing == UNION {[S -> Entries] : S \in SUBSET Paths}
Frame == [dir : Paths, new : BOOLEAN, todo : SUBSET (Paths \ {Root}), seen : Listing]
Sending(s) ==
    /\ DOMAIN s = {"at", "path", "version", "install", "name"}
    /\ s.path \in SendPaths /\ s.version \in Versions
    /\ s.at = "upload" => s.path \in locked
TreesInv ==
    /\ device \in Tree /\ kept \in [Sources -> [Paths -> Entries]]
    /\ locked \subseteq Paths /\ \A p \in locked : IsFile(device[p])
    /\ DOMAIN send = Senders /\ \A x \in Senders : send[x] # None => Sending(send[x])
    /\ \A x, y \in Senders : Sends(x, "upload") /\ Sends(y, "upload") /\ send[x].path = send[y].path => x = y

FrameOK(i) ==
    /\ stack[i].dir \in Below(walk.root)
    /\ walk.kind = "remove" => stack[i].dir # Root
    /\ stack[i].new => i = Len(stack) /\ (stack[i].todo # {} => i = 1 /\ walk.kind = "restore")
    /\ ~stack[i].new => \A e \in stack[i].todo : /\ Parent[e] = stack[i].dir
                                                 /\ walk.kind # "restore" => e \in DOMAIN stack[i].seen
StackInv ==
    /\ stack \in Seq(Frame) /\ (status = "walking" <=> stack # <<>>)
    /\ errors \subseteq Paths /\ changed \subseteq Paths
    /\ status \in {"walking", "done"} => walk \in Walk /\ (walk.kind = "remove" => walk.root # Root)
    /\ stack # <<>> => stack[1].dir = walk.root
    /\ \A i \in 1 .. Len(stack) : FrameOK(i)

(* The part of the tree that is still to be walked.                        *)
Ahead(i, p) == IF stack[i].new THEN p \in Below(stack[i].dir) ELSE \E e \in stack[i].todo : p \in Below(e)
Covered(p) == \E i \in 1 .. Len(stack) : Ahead(i, p)

(* A backup has copied what it has passed, and a listing it works from is  *)
(* right except where somebody changed the device since.                   *)
Wanted(p) ==
    /\ IsFile(device[p])
    /\ ~InRom(p, device[p]) \/ walk.include_rom
    /\ (Inside(p) \ {walk.root}) \cap Cards = {} \/ walk.include_cards
SeenByBackup(i) ==
    ~stack[i].new => \A e \in stack[i].todo :
        /\ device[e] = stack[i].seen[e] \/ e \in changed
        /\ IsFile(stack[i].seen[e]) => \A q \in Below(e) \ {e} : device[q] = None \/ q \in changed
BackupInv ==
    status \in {"walking", "done"} /\ walk.kind = "backup" =>
        /\ \A i \in 1 .. Len(stack) : SeenByBackup(i)
        /\ \A p \in Below(walk.root) : Wanted(p) => tree[p] = device[p] \/ Excused(p) \/ Covered(p)

Due(p) == tree[p] # None /\ \A q \in Inside(p) \ {walk.root} : ~should_skip(q)
SeenByRestore(i) ==
    /\ tree[stack[i].dir] = Dir \/ stack[i].dir \in changed
    /\ \A j \in 1 .. i - 1 : stack[j].dir \in AncestorsAndSelf[stack[i].dir] \ {stack[i].dir}
    /\ ~stack[i].new => \A e \in stack[i].todo \cap DOMAIN stack[i].seen : device[e] = stack[i].seen[e] \/ e \in changed
RestoreInv ==
    status \in {"walking", "done"} /\ walk.kind = "restore" /\ ~walk.dry_run =>
        /\ \A i \in 1 .. Len(stack) : SeenByRestore(i)
        /\ \A p \in Below(walk.root) : Due(p) => device[p] = tree[p] \/ Excused(p) \/ Covered(p)

(* With one writer the trees on the Mac are trees, too.                    *)
KeptInv ==
    /\ kept \in [Sources -> Tree]
    /\ status = "walking" /\ walk.kind = "backup" =>
          \A i \in 1 .. Len(stack) : ~stack[i].new => tree[stack[i].dir] = Dir
    /\ \A x \in Senders : send[x] # None /\ send[x].at \in {"rename", "write"} =>
          /\ mirror[Parent[send[x].path]] = Dir /\ mirror[send[x].path] # Dir
          /\ send[x].at = "rename" => mirror[send[x].path] # None

(***************************************************************************)
(* The shape of the trees.                                                 *)
(***************************************************************************)
LEMMA Closed ==
    ASSUME NEW p \in Paths
    PROVE  /\ p \in AncestorsAndSelf[p] /\ AncestorsAndSelf[p] \subseteq Paths
           /\ \A q \in AncestorsAndSelf[p] \ {Root} : Parent[q] \in AncestorsAndSelf[p]
           /\ \A S \in UpwardClosed : p \in S => AncestorsAndSelf[p] \subseteq S
<1>1. \A q : q \in AncestorsAndSelf[p] <=> q \in Paths /\ \A S \in UpwardClosed : p \in S => q \in S
  BY DEF AncestorsAndSelf
<1>2. ASSUME NEW q \in AncestorsAndSelf[p] \ {Root} PROVE Parent[q] \in AncestorsAndSelf[p]
  <2>1. \A S \in UpwardClosed : p \in S => Parent[q] \in S
    BY <1>1 DEF UpwardClosed
  <2>2. Parent[q] \in Paths
    BY <1>1, PathsAssumption
  <2> QED BY <1>1, <2>1, <2>2
<1> QED BY <1>1, <1>2

LEMMA Above ==
    ASSUME NEW p \in Paths, NEW q \in AncestorsAndSelf[p]
    PROVE  AncestorsAndSelf[q] \subseteq AncestorsAndSelf[p]
<1>1. AncestorsAndSelf[p] \in UpwardClosed
  BY Closed DEF UpwardClosed
<1> QED BY <1>1, Closed

LEMMA AboveRoot == AncestorsAndSelf[Root] = {Root}
<1>1. {Root} \in UpwardClosed
  BY PathsAssumption DEF UpwardClosed
<1> QED BY <1>1, Closed, PathsAssumption

(* The entries of a directory lie below it and below all it lies in.       *)
LEMMA EntryBelow ==
    ASSUME NEW d \in Paths, NEW e \in Paths \ {Root}, Parent[e] = d
    PROVE  /\ e \in Below(d) /\ d \in AncestorsAndSelf[e] /\ d # e /\ e \notin AncestorsAndSelf[d]
           /\ \A r \in Paths : d \in Below(r) => e \in Below(r) /\ e # r
<1>1. d \in AncestorsAndSelf[e]
  BY Closed
<1>2. e \notin AncestorsAndSelf[d]
  BY PathsAssumption
<1>3. d # e
  BY <1>2, Closed
<1>4. \A r \in Paths : d \in Below(r) => e \in Below(r) /\ e # r
  BY <1>1, <1>2, Above DEF Below
<1> QED BY <1>1, <1>2, <1>3, <1>4 DEF Below

LEMMA EntryOnTheWay ==
    ASSUME NEW d \in Paths, NEW p \in Below(d), p # d
    PROVE  \E e \in Paths \ {Root} : Parent[e] = d /\ p \in Below(e) /\ e \in AncestorsAndSelf[p]
<1>1. p \in Paths /\ d \in AncestorsAndSelf[p]
  BY DEF Below
<1>2. PICK e \in AncestorsAndSelf[p] \ {Root} : Parent[e] = d
  <2> SUFFICES ASSUME \A e \in AncestorsAndSelf[p] \ {Root} : Parent[e] # d PROVE FALSE
    OBVIOUS
  <2> DEFINE S == AncestorsAndSelf[p] \ {d}
  <2>1. S \in UpwardClosed
    BY <1>1, Closed DEF UpwardClosed
  <2>2. p \in S
    BY <1>1, Closed
  <2> QED BY <1>1, <2>1, <2>2, Closed
<1> QED BY <1>1, <1>2, Closed DEF Below

LEMMA TreeFacts ==
    ASSUME NEW t \in Tree
    PROVE  /\ DOMAIN t = Paths /\ \A p \in Paths : t[p] \in Entries
           /\ t[Root] = Dir /\ \A p \in Paths \ {Root} : t[p] # None => t[Parent[p]] = Dir
BY DEF Tree

LEMMA IsTree ==
    ASSUME NEW t, t \in [Paths -> Entries], t[Root] = Dir,
           \A p \in Paths \ {Root} : t[p] # None => t[Parent[p]] = Dir
    PROVE  t \in Tree
BY DEF Tree

LEMMA AllDirs ==
    ASSUME NEW t \in Tree, NEW p \in Paths, t[p] # None, NEW q \in AncestorsAndSelf[p], q # p
    PROVE  t[q] = Dir
<1> DEFINE S == {r \in Paths : r = p \/ t[r] = Dir}
<1>1. S \in UpwardClosed
  BY PathsAssumption, TreeFacts, EntriesAssumption DEF UpwardClosed
<1> QED BY <1>1, Closed

(* Nothing lies below a file.                                              *)
LEMMA NothingBelow ==
    ASSUME NEW t \in Tree, NEW p \in Paths, t[p] # Dir, NEW q \in Below(p), q # p
    PROVE  t[q] = None
BY AllDirs DEF Below

(* A directory is made in a tree, with those above it.                     *)
LEMMA MkdirsTree ==
    ASSUME NEW t \in Tree, NEW p \in Paths, ~mkdirs_raises(t, p)
    PROVE  /\ mkdirs(t, p) \in Tree /\ mkdirs(t, p)[p] = Dir
           /\ \A q \in Paths : IsFile(t[q]) \/ t[q] = Dir => mkdirs(t, p)[q] = t[q]
           /\ \A q \in Paths : mkdirs(t, p)[q] # t[q] => q \in AncestorsAndSelf[p]
<1> DEFINE m == mkdirs(t, p)
<1>1. m \in [Paths -> Entries] /\ \A q \in Paths : m[q] = IF q \in AncestorsAndSelf[p] THEN Dir ELSE t[q]
  BY TreeFacts DEF mkdirs, Entries
<1> HIDE DEF m
<1>2. m[Root] = Dir
  BY <1>1, TreeFacts, PathsAssumption
<1>3. \A q \in Paths \ {Root} : m[q] # None => m[Parent[q]] = Dir
  BY <1>1, Closed, TreeFacts, PathsAssumption
<1>4. m \in Tree
  BY <1>1, <1>2, <1>3, IsTree
<1> QED BY <1>1, <1>4, Closed DEF m, mkdirs_raises

(***************************************************************************)
(* One call to the device changes one entry at most and no file that is    *)
(* being sent; one that does not fail has done its work.                   *)
(***************************************************************************)
Touches(p, t) ==
    /\ t \in Tree
    /\ \A q \in Paths : q # p => t[q] = device[q]
    /\ \A q \in locked : t[q] = device[q]

LEMMA BrokenFacts ==
    ASSUME NEW trees, NEW o \in Broken(trees)
    PROVE  o.tree \in trees /\ o.failed
<1>1. \E t \in trees : o = Outcome(t, TRUE, 1)
  BY DEF Broken
<1> QED BY <1>1 DEF Outcome

LEMMA CallFacts ==
    ASSUME NEW allowed \in BOOLEAN, NEW after, NEW o \in call(allowed, after)
    PROVE  /\ o.tree = device \/ (allowed /\ o.tree = after)
           /\ ~o.failed => allowed /\ o.tree = after
<1>1. CASE allowed
  <2>1. o = Outcome(after, FALSE, 0) \/ o \in Broken({device, after})
    BY <1>1 DEF call
  <2>2. CASE o = Outcome(after, FALSE, 0)
    BY <1>1, <2>2 DEF Outcome
  <2>3. CASE o \in Broken({device, after})
    <3> DEFINE trees == {device, after}
    <3>1. o.tree \in trees /\ o.failed
      <4> HIDE DEF trees
      <4> QED BY <2>3, BrokenFacts DEF trees
    <3> QED BY <1>1, <3>1
  <2> QED BY <2>1, <2>2, <2>3
<1>2. CASE ~allowed
  <2>1. o = Outcome(device, TRUE, 0)
    BY <1>2 DEF call
  <2> QED BY <2>1 DEF Outcome
<1> QED BY <1>1, <1>2

LEMMA Untouched ==
    ASSUME device \in Tree, NEW p PROVE Touches(p, device)
BY DEF Touches

LEMMA PutTree ==
    ASSUME NEW t \in Tree, NEW p \in Paths \ {Root}, t[Parent[p]] = Dir, NEW x \in Entries,
           x = Dir \/ \A q \in Paths \ {Root} : Parent[q] = p => t[q] = None
    PROVE  /\ [t EXCEPT ![p] = x] \in Tree
           /\ \A q \in Paths : [t EXCEPT ![p] = x][q] = IF q = p THEN x ELSE t[q]
<1> DEFINE u == [t EXCEPT ![p] = x]
<1>1. u \in [Paths -> Entries] /\ \A q \in Paths : u[q] = IF q = p THEN x ELSE t[q]
  BY TreeFacts
<1>2. Parent[p] # p
  BY EntryBelow, PathsAssumption
<1> HIDE DEF u
<1>3. u[Root] = Dir
  BY <1>1, TreeFacts, PathsAssumption
<1>4. \A q \in Paths \ {Root} : u[q] # None => u[Parent[q]] = Dir
  BY <1>1, <1>2, TreeFacts, PathsAssumption
<1>5. u \in Tree
  BY <1>1, <1>3, <1>4, IsTree
<1> QED BY <1>1, <1>5 DEF u

LEMMA PutTouches ==
    ASSUME TreesInv, NEW p \in Paths \ {Root}, p \notin locked, device[Parent[p]] = Dir, NEW x \in Entries,
           x = Dir \/ \A q \in Paths \ {Root} : Parent[q] = p => device[q] = None
    PROVE  Touches(p, [device EXCEPT ![p] = x]) /\ [device EXCEPT ![p] = x][p] = x
<1> DEFINE t == [device EXCEPT ![p] = x]
<1>1. t \in Tree /\ \A q \in Paths : t[q] = IF q = p THEN x ELSE device[q]
  BY PutTree DEF TreesInv
<1> HIDE DEF t
<1> QED BY <1>1 DEF t, Touches, TreesInv

LEMMA CreateTouches ==
    ASSUME TreesInv, NEW p \in Paths \ {Root}, NEW o \in create_directory(p)
    PROVE  Touches(p, o.tree) /\ (~o.failed => o.tree[p] # None /\ (device[p] \in {None, Dir} => o.tree[p] = Dir))
<1> DEFINE there == device[p] # None
           after == IF there THEN device ELSE [device EXCEPT ![p] = Dir]
           allowed == there \/ device[Parent[p]] = Dir
<1>1. o \in call(allowed, after)
  BY DEF create_directory
<1>2. o.tree = device \/ (allowed /\ o.tree = after)
  BY <1>1, CallFacts
<1>3. ~o.failed => allowed /\ o.tree = after
  BY <1>1, CallFacts
<1>4. ASSUME allowed PROVE Touches(p, after) /\ after[p] # None /\ (device[p] \in {None, Dir} => after[p] = Dir)
  <2>1. CASE there
    BY <2>1, Untouched, EntriesAssumption DEF TreesInv
  <2>2. CASE ~there
    <3>1. p \notin locked
      BY <2>2, EntriesAssumption DEF TreesInv, IsFile
    <3>2. Touches(p, [device EXCEPT ![p] = Dir]) /\ [device EXCEPT ![p] = Dir][p] = Dir
      BY <1>4, <2>2, <3>1, PutTouches, EntriesAssumption DEF Entries, TreesInv
    <3> QED BY <2>2, <3>2, EntriesAssumption
  <2> QED BY <2>1, <2>2
<1> HIDE DEF there, after, allowed
<1> QED BY <1>2, <1>3, <1>4, Untouched DEF TreesInv

LEMMA UploadTouches ==
    ASSUME TreesInv, NEW p \in Paths \ {Root}, NEW c \in Content, NEW o \in upload(p, c)
    PROVE  Touches(p, o.tree) /\ (~o.failed => o.tree[p] = c)
<1> DEFINE allowed == device[Parent[p]] = Dir /\ device[p] # Dir /\ p \notin locked
           after == [device EXCEPT ![p] = c]
           torn == [device EXCEPT ![p] = Cut(c.of)]
<1>1. o \in call(allowed, after) \/ (allowed /\ o \in Broken({torn}))
  BY DEF upload
<1>2. Cut(c.of) \in Content
  BY FileFacts DEF Content
<1>3. ASSUME allowed PROVE Touches(p, after) /\ after[p] = c /\ Touches(p, torn)
  <2>1. \A q \in Paths \ {Root} : Parent[q] = p => device[q] = None
    BY <1>3, TreeFacts DEF TreesInv
  <2>2. c \in Entries /\ Cut(c.of) \in Entries
    BY <1>2 DEF Entries
  <2> QED BY <1>3, <2>1, <2>2, PutTouches DEF TreesInv
<1>4. CASE o \in call(allowed, after)
  <2> HIDE DEF allowed, after
  <2>0. allowed \in BOOLEAN
    BY DEF allowed
  <2>1. o.tree = device \/ (allowed /\ o.tree = after)
    BY <1>4, <2>0, CallFacts
  <2>2. ~o.failed => allowed /\ o.tree = after
    BY <1>4, <2>0, CallFacts
  <2> QED BY <1>3, <2>1, <2>2, Untouched DEF TreesInv
<1>5. CASE allowed /\ o \in Broken({torn})
  <2>1. o.tree = torn /\ o.failed
    <3> DEFINE trees == {torn}
    <3>1. o.tree \in trees /\ o.failed
      <4> HIDE DEF torn
      <4> QED BY <1>5, BrokenFacts
    <3> QED BY <3>1
  <2> QED BY <1>3, <1>5, <2>1
<1> QED BY <1>1, <1>4, <1>5

LEMMA DeleteTouches ==
    ASSUME TreesInv, NEW p \in Paths \ {Root}, NEW o \in delete_file(p)
    PROVE  Touches(p, o.tree) /\ (~o.failed => o.tree[p] = None)
<1> DEFINE allowed == IsFile(device[p]) /\ ~InRom(p, device[p]) /\ p \notin locked
           after == [device EXCEPT ![p] = None]
<1>1. allowed \in BOOLEAN /\ o \in call(allowed, after)
  BY DEF delete_file
<1>2. o.tree = device \/ (allowed /\ o.tree = after)
  BY <1>1, CallFacts
<1>3. ~o.failed => allowed /\ o.tree = after
  BY <1>1, CallFacts
<1>4. ASSUME allowed PROVE Touches(p, after) /\ after[p] = None
  <2>1. \A q \in Paths \ {Root} : Parent[q] = p => device[q] = None
    BY <1>4, TreeFacts, EntriesAssumption DEF TreesInv, IsFile
  <2>2. device[Parent[p]] = Dir
    BY <1>4, TreeFacts DEF TreesInv, IsFile
  <2> QED BY <1>4, <2>1, <2>2, PutTouches DEF TreesInv, Entries
<1> HIDE DEF allowed, after
<1> QED BY <1>2, <1>3, <1>4, Untouched DEF TreesInv

LEMMA RmdirTouches ==
    ASSUME TreesInv, NEW p \in Paths \ {Root}, NEW o \in remove_directory(p)
    PROVE  Touches(p, o.tree) /\ (~o.failed => o.tree[p] = None)
<1> DEFINE allowed == device[p] = Dir /\ Children(device, p) = {}
           after == [device EXCEPT ![p] = None]
<1>1. allowed \in BOOLEAN /\ o \in call(allowed, after)
  BY DEF remove_directory
<1>2. o.tree = device \/ (allowed /\ o.tree = after)
  BY <1>1, CallFacts
<1>3. ~o.failed => allowed /\ o.tree = after
  BY <1>1, CallFacts
<1>4. ASSUME allowed PROVE Touches(p, after) /\ after[p] = None
  <2>1. \A q \in Paths \ {Root} : Parent[q] = p => device[q] = None
    BY <1>4 DEF Children
  <2>2. device[Parent[p]] = Dir /\ p \notin locked
    BY <1>4, TreeFacts, EntriesAssumption DEF TreesInv, IsFile
  <2> QED BY <1>4, <2>1, <2>2, PutTouches DEF TreesInv, Entries
<1> HIDE DEF allowed, after
<1> QED BY <1>2, <1>3, <1>4, Untouched DEF TreesInv

LEMMA FirstIn ==
    ASSUME NEW S \in SUBSET Paths, S # {}
    PROVE  First(S) \in S
<1> DEFINE ranks == {Rank[e] : e \in S}
<1>1. ranks \subseteq Nat /\ ranks # {}
  BY PathsAssumption
<1>2. PICK n \in ranks : \A m \in ranks : ~(<<m, n>> \in OpToRel(<, Nat))
  <2> HIDE DEF ranks
  <2> QED BY <1>1, NatLessThanWellFounded, WFMin
<1>3. \A m \in ranks : ~(m < n)
  BY <1>1, <1>2 DEF OpToRel
<1>4. \E e \in S : \A f \in S : Rank[e] <= Rank[f]
  <2>1. PICK e \in S : Rank[e] = n
    OBVIOUS
  <2>2. \A f \in S : ~(Rank[f] < Rank[e])
    BY <1>3, <2>1
  <2> QED BY <2>2, PathsAssumption
<1> QED BY <1>4 DEF First

(* The frame on top, and the entry being handled.                          *)
LEMMA TopFacts ==
    ASSUME StackInv, status = "walking"
    PROVE  /\ stack \in Seq(Frame) /\ Len(stack) \in Nat \ {0} /\ stack # <<>> /\ stack[1].dir = walk.root
           /\ top = stack[Len(stack)] /\ top \in Frame
           /\ top.dir \in Paths /\ top.todo \subseteq Paths \ {Root} /\ top.new \in BOOLEAN /\ top.seen \in Listing
           /\ FrameOK(Len(stack)) /\ walk \in Walk /\ walk.root \in Paths /\ walk.source \in Sources
           /\ walk.kind \in Kinds
<1>1. stack \in Seq(Frame) /\ stack # <<>> /\ walk \in Walk /\ stack[1].dir = walk.root
  BY DEF StackInv
<1>2. Len(stack) \in Nat \ {0} /\ stack[Len(stack)] \in Frame
  BY <1>1
<1>3. FrameOK(Len(stack))
  BY <1>2 DEF StackInv
<1> QED BY <1>1, <1>2, <1>3 DEF Frame, Walk, top

LEMMA HandlingFacts ==
    ASSUME StackInv, NEW kind, NEW e, Handling(kind, e)
    PROVE  status = "walking" /\ walk.kind = kind /\ ~top.new /\ e \in top.todo /\ e \in Paths \ {Root} /\ Parent[e] = top.dir
<1>1. status = "walking" /\ walk.kind = kind /\ ~top.new /\ top.todo # {} /\ e = First(top.todo)
  BY DEF Handling, Walking
<1>2. e \in top.todo /\ top.todo \subseteq Paths \ {Root} /\ FrameOK(Len(stack)) /\ top = stack[Len(stack)]
  BY <1>1, FirstIn, TopFacts
<1> QED BY <1>1, <1>2 DEF FrameOK

LEMMA RestoringFacts ==
    ASSUME StackInv, NEW e, Restoring(e)
    PROVE  status = "walking" /\ walk.kind = "restore" /\ ~top.new /\ e \in top.todo /\ e \in Paths \ {Root} /\ Parent[e] = top.dir
<1>1. CASE Walking("restore") /\ subdirectories # {}
  <2>1. status = "walking" /\ walk.kind = "restore" /\ ~top.new /\ e = First(subdirectories)
    BY <1>1 DEF Restoring, Walking
  <2>2. top.todo \subseteq Paths \ {Root} /\ FrameOK(Len(stack)) /\ top = stack[Len(stack)]
    BY <2>1, TopFacts
  <2>3. subdirectories \subseteq Paths /\ e \in subdirectories
    BY <1>1, <2>1, <2>2, FirstIn DEF subdirectories
  <2>4. e \in top.todo
    BY <2>3 DEF subdirectories
  <2> QED BY <2>1, <2>2, <2>4 DEF FrameOK
<1>2. CASE ~(Walking("restore") /\ subdirectories # {})
  BY <1>2, HandlingFacts DEF Restoring
<1> QED BY <1>1, <1>2

(***************************************************************************)
(* The trees stay trees.                                                   *)
(***************************************************************************)
LEMMA TouchesKeepsTrees ==
    ASSUME TreesInv, NEW p, Touches(p, device'), kept' \in [Sources -> [Paths -> Entries]], UNCHANGED <<locked, send>>
    PROVE  TreesInv'
<1>1. device' \in Tree /\ \A q \in locked : IsFile(device'[q])
  BY DEF Touches, TreesInv, IsFile
<1>2. \A x \in Senders : send'[x] # None => Sending(send[x])'
  BY DEF TreesInv, Sending
<1>3. \A x, y \in Senders : (Sends(x, "upload") /\ Sends(y, "upload") /\ send[x].path = send[y].path)' => x = y
  BY DEF TreesInv, Sends
<1> QED BY <1>1, <1>2, <1>3 DEF TreesInv

LEMMA SameTrees ==
    ASSUME TreesInv, UNCHANGED <<device, kept, locked, send>>
    PROVE  TreesInv'
BY TouchesKeepsTrees, Untouched DEF TreesInv

LEMMA KeptPut ==
    ASSUME TreesInv, NEW s \in Sources, NEW p \in Paths, NEW c \in Entries, kept' = [kept EXCEPT ![s][p] = c]
    PROVE  /\ kept' \in [Sources -> [Paths -> Entries]]
           /\ kept'[s] = [kept[s] EXCEPT ![p] = c] /\ \A r \in Sources \ {s} : kept'[r] = kept[r]
BY DEF TreesInv

LEMMA KeptMkdirs ==
    ASSUME TreesInv, NEW s \in Sources, NEW p \in Paths, kept' = [kept EXCEPT ![s] = mkdirs(@, p)]
    PROVE  /\ kept' \in [Sources -> [Paths -> Entries]]
           /\ kept'[s] = mkdirs(kept[s], p) /\ \A r \in Sources \ {s} : kept'[r] = kept[r]
<1>1. mkdirs(kept[s], p) \in [Paths -> Entries]
  BY DEF mkdirs, TreesInv, Entries
<1> QED BY <1>1 DEF TreesInv

LEMMA BeginTrees ==
    ASSUME TreesInv, NEW w \in Walk, Begin(w), UNCHANGED <<locked, send>>
    PROVE  TreesInv'
<1>1. CASE UNCHANGED device
  BY <1>1, SameTrees DEF Begin
<1>2. CASE w.kind = "remove" /\ \E o \in delete_file(w.root) : Took(o)
  <2>1. w.root \in Paths \ {Root}
    BY <1>2 DEF Begin, Walk
  <2>2. Touches(w.root, device')
    BY <1>2, <2>1, DeleteTouches DEF Took
  <2> QED BY <2>2, TouchesKeepsTrees DEF Begin, TreesInv
<1> QED BY <1>1, <1>2 DEF Begin

LEMMA StepTrees ==
    ASSUME TreesInv, StackInv, Step, UNCHANGED <<locked, send>>
    PROVE  TreesInv'
<1>1. CASE ensure_device_path
  <2>1. PICK p \in top.todo : \E o \in create_directory(p) : Took(o)
    BY <1>1 DEF ensure_device_path
  <2>2. p \in Paths \ {Root}
    BY <1>1, TopFacts DEF ensure_device_path
  <2>3. Touches(p, device')
    BY <2>1, <2>2, CreateTouches DEF Took
  <2> QED BY <1>1, <2>3, TouchesKeepsTrees DEF ensure_device_path, TreesInv
<1>2. CASE backup_list
  <2>1. top.dir \in Paths /\ walk.source \in Sources
    BY <1>2, TopFacts DEF backup_list, Walking
  <2>2. kept' \in [Sources -> [Paths -> Entries]]
    BY <1>2, <2>1, KeptMkdirs DEF backup_list, TreesInv
  <2> QED BY <1>2, <2>2, TouchesKeepsTrees, Untouched DEF backup_list, TreesInv
<1>3. CASE restore_list \/ remove_list
  BY <1>3, SameTrees DEF restore_list, remove_list
<1>4. CASE leave_directory
  <2>1. CASE UNCHANGED device
    BY <1>4, <2>1, SameTrees DEF leave_directory
  <2>2. CASE walk.kind = "remove" /\ \E o \in remove_directory(top.dir) : Took(o)
    <3>1. top.dir \in Paths \ {Root}
      BY <1>4, <2>2, TopFacts DEF leave_directory, FrameOK
    <3>2. Touches(top.dir, device')
      BY <2>2, <3>1, RmdirTouches DEF Took
    <3> QED BY <1>4, <3>2, TouchesKeepsTrees DEF leave_directory, TreesInv
  <2> QED BY <1>4, <2>1, <2>2 DEF leave_directory
<1>5. ASSUME NEW e \in Paths, backup_directory(e) \/ restore_skip(e) PROVE TreesInv'
  BY <1>5, SameTrees DEF backup_directory, restore_skip
<1>6. ASSUME NEW e \in Paths, backup_file(e) PROVE TreesInv'
  <2>1. walk.source \in Sources /\ e \in top.todo
    BY <1>6, HandlingFacts, TopFacts DEF backup_file
  <2>2. CASE UNCHANGED kept
    BY <1>6, <2>2, SameTrees DEF backup_file
  <2>3. ASSUME NEW c \in Entries, kept' = [kept EXCEPT ![walk.source][e] = c] PROVE TreesInv'
    BY <1>6, <2>1, <2>3, KeptPut, TouchesKeepsTrees, Untouched DEF backup_file, TreesInv
  <2>4. CASE kept' = [kept EXCEPT ![walk.source][e] = device[e]]
    BY <2>3, <2>4, TreeFacts DEF TreesInv
  <2>5. CASE IsFile(top.seen[e]) /\ kept' = [kept EXCEPT ![walk.source][e]
                                            = Cut((IF downloads(e) THEN device[e] ELSE top.seen[e]).of)]
    <3> DEFINE x == IF downloads(e) THEN device[e] ELSE top.seen[e]
    <3>1. top.seen[e] \in Entries
      BY <1>6, HandlingFacts, TopFacts DEF backup_file, FrameOK, Listing
    <3>2. x \in Content
      BY <2>5, <3>1, TreeFacts DEF TreesInv, downloads, IsFile, Entries
    <3>3. Cut(x.of) \in Entries
      BY <3>2, FileFacts DEF Content, Entries
    <3> HIDE DEF x
    <3> QED BY <2>3, <2>5, <3>3 DEF x
  <2> QED BY <1>6, <2>2, <2>4, <2>5 DEF backup_file
<1>7. ASSUME NEW e \in Paths, restore_directory(e) PROVE TreesInv'
  <2>1. CASE UNCHANGED device
    BY <1>7, <2>1, SameTrees DEF restore_directory
  <2>2. CASE \E o \in create_directory(e) : Took(o)
    BY <1>7, <2>2, RestoringFacts, CreateTouches, TouchesKeepsTrees DEF restore_directory, Took, TreesInv
  <2> QED BY <1>7, <2>1, <2>2 DEF restore_directory
<1>8. ASSUME NEW e \in Paths, restore_file(e) PROVE TreesInv'
  <2>1. CASE UNCHANGED device
    BY <1>8, <2>1, SameTrees DEF restore_file
  <2>2. CASE tree[e] # None /\ \E o \in upload(e, tree[e]) : Took(o)
    <3>1. walk.source \in Sources /\ e \in Paths \ {Root}
      BY <1>8, RestoringFacts, TopFacts DEF restore_file
    <3>2. tree[e] \in Content
      BY <1>8, <2>2, <3>1 DEF restore_file, TreesInv, tree, Entries
    <3> QED BY <1>8, <2>2, <3>1, <3>2, UploadTouches, TouchesKeepsTrees DEF restore_file, Took, TreesInv
  <2> QED BY <1>8, <2>1, <2>2 DEF restore_file
<1>9. ASSUME NEW e \in Paths, remove_entry(e) PROVE TreesInv'
  <2>1. CASE UNCHANGED device
    BY <1>9, <2>1, SameTrees DEF remove_entry
  <2>2. CASE \E o \in delete_file(e) : Took(o)
    BY <1>9, <2>2, HandlingFacts, DeleteTouches, TouchesKeepsTrees DEF remove_entry, Took, TreesInv
  <2> QED BY <1>9, <2>1, <2>2 DEF remove_entry
<1> QED BY <1>1, <1>2, <1>3, <1>4, <1>5, <1>6, <1>7, <1>8, <1>9 DEF Step

(***************************************************************************)
(* What the user, the device and a sender do next to a walk: everything    *)
(* they change is in `changed'.                                            *)
(***************************************************************************)
Others ==
    /\ UNCHANGED job /\ changed \subseteq changed' /\ changed' \subseteq Paths
    /\ \A p \in Paths : device'[p] # device[p] => p \in changed'
    /\ \A s \in Sources : \A p \in Paths : kept'[s][p] # kept[s][p] => p \in changed'

LEMMA UserPutsOthers ==
    ASSUME TreesInv, changed \subseteq Paths, NEW p \in UserPaths, NEW v \in Versions, UserPuts(p, v), UNCHANGED <<locked, send>>
    PROVE  TreesInv' /\ Others
<1>1. p \in Paths \ {Root} /\ File(v) \in Entries
  BY WalksAssumption, FileFacts DEF Entries
<1>2. device' = [device EXCEPT ![p] = File(v)] /\ device[Parent[p]] = Dir /\ device[p] # Dir /\ p \notin locked
      /\ UNCHANGED <<kept, job>> /\ changed' = changed \cup {p}
  BY DEF UserPuts, UserChanges
<1>3. \A q \in Paths \ {Root} : Parent[q] = p => device[q] = None
  BY <1>2, TreeFacts DEF TreesInv
<1>4. Touches(p, device')
  BY <1>1, <1>2, <1>3, PutTouches DEF TreesInv
<1>5. \A q \in Paths : device'[q] # device[q] => q = p
  BY <1>4 DEF Touches
<1> QED BY <1>1, <1>2, <1>4, <1>5, TouchesKeepsTrees DEF Others, TreesInv

(* What leaves the files alone that are being sent.                        *)
LEMMA LockedKeepsTrees ==
    ASSUME TreesInv, device' \in Tree, \A q \in locked : device'[q] = device[q], UNCHANGED <<kept, locked, send>>
    PROVE  TreesInv'
<1>1. \A q \in locked : IsFile(device'[q])
  BY DEF TreesInv
<1>2. \A x \in Senders : send'[x] # None => Sending(send[x])'
  BY DEF TreesInv, Sending
<1>3. \A x, y \in Senders : (Sends(x, "upload") /\ Sends(y, "upload") /\ send[x].path = send[y].path)' => x = y
  BY DEF TreesInv, Sends
<1> QED BY <1>1, <1>2, <1>3 DEF TreesInv

LEMMA UserRemovesOthers ==
    ASSUME TreesInv, changed \subseteq Paths, NEW p \in UserPaths, UserRemoves(p), UNCHANGED <<locked, send>>
    PROVE  TreesInv' /\ Others
<1>1. p \in Paths \ {Root}
  BY WalksAssumption
<1>2. /\ device' = [q \in Paths |-> IF q \in Below(p) THEN None ELSE device[q]]
      /\ Below(p) \cap locked = {} /\ changed' = changed \cup Below(p) /\ UNCHANGED <<kept, job>>
  BY DEF UserRemoves, UserChanges
<1>3. device' \in [Paths -> Entries]
  BY <1>2, TreeFacts DEF TreesInv, Entries
<1>4. Root \notin Below(p)
  BY <1>1, AboveRoot DEF Below
<1>5. device'[Root] = Dir
  BY <1>2, <1>4, TreeFacts, PathsAssumption DEF TreesInv
<1>6. ASSUME NEW q \in Paths \ {Root}, device'[q] # None PROVE device'[Parent[q]] = Dir
  <2>1. q \notin Below(p) /\ device[q] # None
    BY <1>2, <1>6
  <2>2. Parent[q] \in Paths /\ device[Parent[q]] = Dir
    BY <2>1, TreeFacts, PathsAssumption DEF TreesInv
  <2>3. Parent[q] \notin Below(p)
    BY <1>1, <2>1, <2>2, EntryBelow
  <2> QED BY <1>2, <2>2, <2>3
<1>7. device' \in Tree
  BY <1>3, <1>5, <1>6, IsTree
<1>8. \A q \in locked : device'[q] = device[q]
  BY <1>2 DEF TreesInv
<1>9. Others
  BY <1>2 DEF Others, Below
<1> QED BY <1>2, <1>7, <1>8, <1>9, LockedKeepsTrees

LEMMA PowerLossOthers ==
    ASSUME TreesInv, changed \subseteq Paths, PowerLoss, UNCHANGED <<locked, send>>
    PROVE  TreesInv' /\ Others
<1>1. /\ changed' = changed \cup Paths /\ UNCHANGED <<kept, job>> /\ locked = {}
      /\ device' = [p \in Paths |-> IF p = Root \/ OnCard(p) THEN device[p]
                                   ELSE IF p \in DOMAIN Rom THEN File(Rom[p])
                                   ELSE IF \E q \in Below(p) : Remains(q) THEN Dir ELSE None]
  BY DEF PowerLoss, UserChanges
<1>2. \A p \in DOMAIN Rom : File(Rom[p]) \in Entries
  BY PathsAssumption, FileFacts DEF Entries
<1>3. device' \in [Paths -> Entries]
  BY <1>1, <1>2, TreeFacts DEF TreesInv, Entries
<1>4. device'[Root] = Dir
  BY <1>1, TreeFacts, PathsAssumption DEF TreesInv
<1>5. ASSUME NEW q \in Paths \ {Root}, device'[q] # None PROVE device'[Parent[q]] = Dir
  <2> DEFINE d == Parent[q]
  <2>1. d \in Paths /\ d \notin DOMAIN Rom /\ q \in Below(d)
    BY PathsAssumption, EntryBelow
  <2>2. CASE d = Root
    BY <1>4, <2>2
  <2>3. CASE d # Root /\ OnCard(d)
    <3>1. OnCard(q)
      BY <2>1, <2>3, EntryBelow, PathsAssumption DEF OnCard
    <3>2. device[d] = Dir
      BY <1>1, <1>5, <3>1, TreeFacts DEF TreesInv
    <3> QED BY <1>1, <2>1, <2>3, <3>2
  <2>4. CASE d # Root /\ ~OnCard(d)
    <3>1. \E r \in Below(q) : Remains(r)
      <4>1. q \in Below(q)
        BY Closed DEF Below
      <4>2. CASE OnCard(q) \/ q \in DOMAIN Rom
        BY <1>1, <1>5, <4>1, <4>2 DEF Remains
      <4>3. CASE ~OnCard(q) /\ q \notin DOMAIN Rom
        BY <1>1, <1>5, <4>3
      <4> QED BY <4>2, <4>3
    <3>2. Below(q) \subseteq Below(d)
      BY <2>1, Above DEF Below
    <3> QED BY <1>1, <2>1, <2>4, <3>1, <3>2
  <2> QED BY <2>2, <2>3, <2>4
<1>6. device' \in Tree
  BY <1>3, <1>4, <1>5, IsTree
<1>7. Others
  BY <1>1 DEF Others
<1> QED BY <1>1, <1>6, <1>7, LockedKeepsTrees

(* A sender at its next step.                                              *)
LEMMA SenderTrees ==
    ASSUME TreesInv, NEW x \in Senders, device' \in Tree, kept' \in [Sources -> [Paths -> Entries]],
           locked' \subseteq Paths, \A q \in locked' : IsFile(device'[q]), NEW s, send' = [send EXCEPT ![x] = s],
           s # None => Sending(s) /\ s.at # "upload",
           \A y \in Senders \ {x} : Sends(y, "upload") => send[y].path \in locked'
    PROVE  TreesInv'
<1>1. DOMAIN send' = Senders /\ send'[x] = s /\ \A y \in Senders \ {x} : send'[y] = send[y]
  BY DEF TreesInv
<1>2. ASSUME NEW y \in Senders, send'[y] # None PROVE Sending(send[y])'
  <2>1. CASE y = x
    BY <1>1, <1>2, <2>1 DEF Sending
  <2>2. CASE y # x
    BY <1>1, <1>2, <2>2 DEF TreesInv, Sending, Sends
  <2> QED BY <2>1, <2>2
<1>3. ASSUME NEW y \in Senders, NEW z \in Senders, (Sends(y, "upload") /\ Sends(z, "upload") /\ send[y].path = send[z].path)'
      PROVE  y = z
  <2>1. y # x /\ z # x
    BY <1>1, <1>3 DEF Sends
  <2> QED BY <1>1, <1>3, <2>1 DEF TreesInv, Sends
<1> QED BY <1>1, <1>2, <1>3 DEF TreesInv

(* A sender that only goes on, or stops.                                   *)
LEMMA SenderGoesOn ==
    ASSUME TreesInv, changed \subseteq Paths, NEW x \in Senders, send[x] # None,
           UNCHANGED <<device, kept, job, changed, locked>>,
           Stop(x) \/ \E place \in {"compare", "rename", "write", "append"} : Go(x, place)
    PROVE  TreesInv' /\ Others
<1>1. Others
  BY DEF Others
<1>2. /\ device' \in Tree /\ kept' \in [Sources -> [Paths -> Entries]] /\ locked' \subseteq Paths
      /\ \A q \in locked' : IsFile(device'[q])
      /\ \A y \in Senders \ {x} : Sends(y, "upload") => send[y].path \in locked'
  BY DEF TreesInv, Sends, Sending
<1>3. CASE Stop(x)
  <2>1. send' = [send EXCEPT ![x] = None]
    BY <1>3 DEF Stop
  <2> QED BY <1>1, <1>2, <2>1, SenderTrees
<1>4. ASSUME NEW place \in {"compare", "rename", "write", "append"}, Go(x, place) PROVE TreesInv'
  <2> DEFINE s == [send[x] EXCEPT !.at = place]
  <2>1. send' = [send EXCEPT ![x] = s]
    BY <1>4 DEF Go
  <2>2. Sending(send[x])
    BY DEF TreesInv
  <2>3. Sending(s) /\ s.at # "upload"
    BY <2>2 DEF Sending
  <2> HIDE DEF s
  <2> QED BY <1>2, <2>1, <2>3, SenderTrees
<1> QED BY <1>1, <1>3, <1>4

LEMMA OpenOthers ==
    ASSUME TreesInv, changed \subseteq Paths, NEW x \in Senders, NEW p \in SendPaths, NEW v \in Versions,
           NEW i \in BOOLEAN, open_upload(x, p, v, i)
    PROVE  TreesInv' /\ Others
<1>1. /\ p \in Paths \ {Root} /\ Cut(v) \in Entries /\ IsFile(Cut(v))
  BY SendAssumption, FileFacts DEF Entries
<1>2. /\ device[Parent[p]] = Dir /\ device[p] # Dir /\ p \notin locked /\ send[x] = None
      /\ device' = [device EXCEPT ![p] = Cut(v)] /\ changed' = changed \cup {p} /\ locked' = locked \cup {p}
      /\ send' = [send EXCEPT ![x] = [at |-> "upload", path |-> p, version |-> v, install |-> i, name |-> None]]
      /\ UNCHANGED <<kept, job>>
  BY DEF open_upload
<1>3. \A q \in Paths \ {Root} : Parent[q] = p => device[q] = None
  BY <1>2, TreeFacts DEF TreesInv
<1>4. Touches(p, device') /\ device'[p] = Cut(v)
  BY <1>1, <1>2, <1>3, PutTouches DEF TreesInv
<1>5. Others
  BY <1>1, <1>2, <1>4 DEF Others, Touches
<1> DEFINE s == [at |-> "upload", path |-> p, version |-> v, install |-> i, name |-> None]
<1>6. Sending(s)' /\ s.path = p
  BY <1>2 DEF Sending
<1>7. DOMAIN send' = Senders /\ send'[x] = s /\ \A y \in Senders \ {x} : send'[y] = send[y]
  BY <1>2 DEF TreesInv
<1> HIDE DEF s
<1>8. ASSUME NEW y \in Senders, send'[y] # None PROVE Sending(send[y])'
  <2>1. CASE y = x
    BY <1>6, <1>7, <2>1
  <2>2. CASE y # x
    BY <1>2, <1>7, <1>8, <2>2 DEF TreesInv, Sending
  <2> QED BY <2>1, <2>2
<1>9. ASSUME NEW y \in Senders, NEW z \in Senders, (Sends(y, "upload") /\ Sends(z, "upload") /\ send[y].path = send[z].path)'
      PROVE  y = z
  <2>1. \A w \in Senders \ {x} : Sends(w, "upload") => send[w].path # p
    BY <1>2 DEF TreesInv, Sends, Sending
  <2>2. CASE y # x /\ z # x
    BY <1>7, <1>9, <2>2 DEF TreesInv, Sends
  <2>3. CASE y = x \/ z = x
    BY <1>6, <1>7, <1>9, <2>1, <2>3 DEF Sends
  <2> QED BY <2>2, <2>3
<1>10. \A q \in locked' : IsFile(device'[q])
  BY <1>1, <1>2, <1>4 DEF TreesInv, Touches
<1>11. device' \in Tree /\ locked' \subseteq Paths
  BY <1>1, <1>2, <1>4 DEF TreesInv, Touches
<1> QED BY <1>2, <1>5, <1>7, <1>8, <1>9, <1>10, <1>11 DEF TreesInv

LEMMA CloseOthers ==
    ASSUME TreesInv, changed \subseteq Paths, NEW x \in Senders, close_upload(x)
    PROVE  TreesInv' /\ Others
<1> DEFINE p == send[x].path
           v == send[x].version
<1>1. /\ Sends(x, "upload") /\ send[x] # None /\ Sending(send[x]) /\ p \in Paths \ {Root} /\ p \in locked
      /\ v \in Versions /\ IsFile(device[p]) /\ File(v) \in Entries /\ IsFile(File(v))
  BY SendAssumption, FileFacts DEF close_upload, TreesInv, Sends, Sending, Entries
<1>2. locked' = locked \ {p} /\ UNCHANGED <<kept, job>>
  BY DEF close_upload
<1>3. \A y \in Senders \ {x} : Sends(y, "upload") => send[y].path \in locked'
  BY <1>1, <1>2 DEF TreesInv, Sends, Sending
<1>4. \A q \in Paths \ {Root} : Parent[q] = p => device[q] = None
  BY <1>1, TreeFacts DEF TreesInv, IsFile
<1>5. CASE UNCHANGED <<device, changed>> /\ Stop(x)
  <2>1. send' = [send EXCEPT ![x] = None]
    BY <1>5 DEF Stop
  <2>2. TreesInv'
    BY <1>2, <1>3, <1>5, <2>1, SenderTrees DEF TreesInv
  <2> QED BY <1>2, <1>5, <2>2 DEF Others
<1>6. CASE /\ device' = [device EXCEPT ![p] = File(v)] /\ changed' = changed \cup {p}
           /\ Go(x, IF send[x].install THEN "launch" ELSE "compare")
  <2>1. PICK place \in {"launch", "compare"} : Go(x, place)
    BY <1>6
  <2> DEFINE s == [send[x] EXCEPT !.at = place]
  <2>2. send' = [send EXCEPT ![x] = s]
    BY <2>1 DEF Go
  <2>3. Sending(s) /\ s.at # "upload"
    BY <1>1 DEF Sending
  <2>4. device' \in [Paths -> Entries] /\ \A q \in Paths : device'[q] = IF q = p THEN File(v) ELSE device[q]
    BY <1>1, <1>6, TreeFacts DEF TreesInv
  <2>5. device' \in Tree
    <3>1. device'[Root] = Dir
      BY <1>1, <2>4, TreeFacts, PathsAssumption DEF TreesInv
    <3>2. device[p] # None
      BY <1>1 DEF IsFile
    <3>3. \A q \in Paths \ {Root} : device'[q] # None => device'[Parent[q]] = Dir
      BY <1>1, <1>4, <2>4, <3>2, TreeFacts, PathsAssumption DEF TreesInv
    <3> QED BY <2>4, <3>1, <3>3, IsTree
  <2>6. \A q \in locked' : IsFile(device'[q])
    BY <1>1, <1>2, <2>4 DEF TreesInv
  <2> HIDE DEF s
  <2>7. TreesInv'
    <3>1. locked' \subseteq Paths /\ kept' \in [Sources -> [Paths -> Entries]]
      BY <1>2 DEF TreesInv
    <3> QED BY <1>3, <2>2, <2>3, <2>5, <2>6, <3>1, SenderTrees
  <2>8. Others
    BY <1>1, <1>2, <1>6, <2>4 DEF Others
  <2> QED BY <2>7, <2>8
<1> QED BY <1>5, <1>6 DEF close_upload

(* A sender that changes the mirror at most in entries it adds to          *)
(* `changed'.                                                              *)
LEMMA MirrorOthers ==
    ASSUME TreesInv, changed \subseteq Paths, NEW x \in Senders, send[x] # None, UNCHANGED <<device, job, locked>>,
           NEW t \in [Paths -> Entries], kept' = [kept EXCEPT !["mirror"] = t],
           changed \subseteq changed', changed' \subseteq Paths, \A q \in Paths : t[q] # mirror[q] => q \in changed',
           NEW s, send' = [send EXCEPT ![x] = s], s # None => Sending(s) /\ s.at # "upload"
    PROVE  TreesInv' /\ Others
<1>1. kept' \in [Sources -> [Paths -> Entries]] /\ kept'["mirror"] = t /\ kept'["backup"] = kept["backup"]
  BY DEF TreesInv, Sources
<1>2. Others
  BY <1>1 DEF Others, Sources, mirror
<1>4. device' \in Tree /\ locked' \subseteq Paths /\ \A q \in locked' : IsFile(device'[q])
  BY DEF TreesInv
<1>5. \A y \in Senders \ {x} : Sends(y, "upload") => send[y].path \in locked'
  BY DEF TreesInv, Sends, Sending
<1>6. TreesInv'
  BY <1>1, <1>4, <1>5, SenderTrees
<1> QED BY <1>2, <1>6

LEMMA SameMirrorTree ==
    ASSUME TreesInv, UNCHANGED kept
    PROVE  mirror \in [Paths -> Entries] /\ kept' = [kept EXCEPT !["mirror"] = mirror]
BY DEF TreesInv, Sources, mirror

LEMMA MirrorStepOthers ==
    ASSUME TreesInv, changed \subseteq Paths, NEW x \in Senders, compare(x) \/ rename(x) \/ write_bytes(x)
    PROVE  TreesInv' /\ Others
<1> DEFINE p == send[x].path
           at(place) == [send[x] EXCEPT !.at = place]
<1>1. /\ send[x] # None /\ Sending(send[x]) /\ p \in Paths \ {Root} /\ Parent[p] \in Paths /\ send[x].version \in Versions
      /\ mirror \in [Paths -> Entries]
  BY SendAssumption, PathsAssumption DEF compare, rename, write_bytes, Sends, TreesInv, Sending, mirror, Sources
<1>2. ASSUME NEW place \in {"write", "append"}, Go(x, place)
      PROVE  send' = [send EXCEPT ![x] = at(place)] /\ Sending(at(place)) /\ at(place).at # "upload"
  BY <1>1, <1>2 DEF Go, Sending
<1>3. ASSUME Stop(x) PROVE send' = [send EXCEPT ![x] = None]
  BY <1>3 DEF Stop
<1> HIDE DEF at
<1>4. \E s : send' = [send EXCEPT ![x] = s] /\ (s # None => Sending(s) /\ s.at # "upload")
  <2>1. ASSUME NEW t \in Stamps, send' = [send EXCEPT ![x].at = "rename", ![x].name = free_name(p, t)]
        PROVE  \E s : send' = [send EXCEPT ![x] = s] /\ Sending(s) /\ s.at # "upload"
    <3> DEFINE name == free_name(p, t)
               s == [send[x] EXCEPT !.at = "rename", !.name = name]
    <3> HIDE DEF name
    <3>1. Sending(s) /\ s.at # "upload"
      BY <1>1 DEF Sending
    <3>2. send' = [send EXCEPT ![x] = s]
      BY <2>1 DEF name
    <3> QED BY <3>1, <3>2
  <2> QED BY <1>2, <1>3, <2>1 DEF compare, rename, write_bytes
<1>5. PICK s : send' = [send EXCEPT ![x] = s] /\ (s # None => Sending(s) /\ s.at # "upload")
  BY <1>4
<1>6. CASE compare(x)
  <2>1. changed \subseteq changed' /\ changed' \subseteq Paths /\ UNCHANGED <<device, job, locked>>
    BY <1>6 DEF compare
  <2>2. \A q \in Paths : kept'["mirror"][q] # mirror[q] => q \in changed'
    BY <1>6 DEF compare, mirror
  <2>3. CASE UNCHANGED kept
    BY <1>1, <1>5, <2>1, <2>3, SameMirrorTree, MirrorOthers
  <2>4. CASE kept' = [kept EXCEPT !["mirror"] = mkdirs(@, Parent[p])]
    <3>1. kept' \in [Sources -> [Paths -> Entries]] /\ kept'["mirror"] = mkdirs(mirror, Parent[p])
      BY <1>1, <2>4, KeptMkdirs DEF Sources, mirror
    <3> DEFINE t == mkdirs(mirror, Parent[p])
    <3> HIDE DEF t
    <3>2. t \in [Paths -> Entries] /\ kept' = [kept EXCEPT !["mirror"] = t] /\ kept'["mirror"] = t
      BY <2>4, <3>1 DEF t, mirror, Sources
    <3> QED BY <1>1, <1>5, <2>1, <2>2, <3>2, MirrorOthers
  <2> QED BY <1>6, <2>3, <2>4 DEF compare
<1>7. CASE rename(x) \/ write_bytes(x)
  <2>1. changed' = changed \cup {p} /\ UNCHANGED <<device, job, locked>>
    BY <1>7 DEF rename, write_bytes
  <2>2. CASE UNCHANGED kept
    BY <1>1, <1>5, <2>1, <2>2, SameMirrorTree, MirrorOthers
  <2>3. ASSUME NEW c \in Entries, kept' = [kept EXCEPT !["mirror"][p] = c] PROVE TreesInv' /\ Others
    <3> DEFINE t == [mirror EXCEPT ![p] = c]
    <3>1. t \in [Paths -> Entries] /\ \A q \in Paths : t[q] # mirror[q] => q \in changed'
      BY <1>1, <2>1
    <3>2. kept' = [kept EXCEPT !["mirror"] = t]
      BY <2>3 DEF mirror
    <3> HIDE DEF t
    <3> QED BY <1>1, <1>5, <2>1, <3>1, <3>2, MirrorOthers
  <2>4. None \in Entries /\ File(send[x].version) \in Entries /\ Cut(send[x].version) \in Entries
    BY <1>1, FileFacts DEF Entries
  <2> QED BY <1>7, <2>2, <2>3, <2>4 DEF rename, write_bytes
<1> QED BY <1>6, <1>7

LEMMA SendOthers ==
    ASSUME TreesInv, changed \subseteq Paths, NEW x \in Senders, SendStep(x)
    PROVE  TreesInv' /\ Others
<1>1. CASE close_upload(x)
  BY <1>1, CloseOthers
<1>2. CASE create_process(x) \/ append_manifest(x) \/ SenderKilled(x)
  BY <1>2, SenderGoesOn DEF create_process, append_manifest, SenderKilled, Sends
<1>3. CASE compare(x) \/ rename(x) \/ write_bytes(x)
  BY <1>3, MirrorStepOthers
<1> QED BY <1>1, <1>2, <1>3, OpenOthers DEF SendStep

(***************************************************************************)
(* The stack, when the entry e of the directory on top is done with, when  *)
(* a directory is entered, listed or left, and when the command ends.      *)
(***************************************************************************)
Beneath == \A i \in 1 .. Len(stack) - 1 : stack'[i] = stack[i]
TopWithout(e) ==
    /\ stack'[Len(stack)].dir = top.dir /\ stack'[Len(stack)].new = top.new
    /\ stack'[Len(stack)].seen = top.seen /\ stack'[Len(stack)].todo = top.todo \ {e}

LEMMA EnteredFrame ==
    ASSUME NEW e \in Paths
    PROVE  Entered(e) \in Frame /\ Entered(e).dir = e /\ Entered(e).new = TRUE /\ Entered(e).todo = {}
<1>1. <<>> \in [{} -> Entries]
  OBVIOUS
<1>2. <<>> \in Listing
  BY <1>1 DEF Listing
<1> QED BY <1>2 DEF Entered, Frame

LEMMA WithoutFacts ==
    ASSUME StackInv, status = "walking", NEW e
    PROVE  /\ without(e) \in Seq(Frame) /\ Len(without(e)) = Len(stack)
           /\ \A i \in 1 .. Len(stack) - 1 : without(e)[i] = stack[i]
           /\ without(e)[Len(stack)] = [top EXCEPT !.todo = @ \ {e}]
<1> DEFINE n == Len(stack)
           f == [top EXCEPT !.todo = @ \ {e}]
<1>1. n \in Nat \ {0} /\ stack \in Seq(Frame) /\ top = stack[n] /\ top \in Frame
  BY TopFacts
<1>2. f \in Frame
  BY <1>1 DEF Frame
<1>3. without(e) = [stack EXCEPT ![n] = f]
  BY <1>1 DEF without
<1> HIDE DEF f
<1>4. without(e) \in Seq(Frame) /\ Len(without(e)) = n /\ without(e)[n] = f
  BY <1>1, <1>2, <1>3
<1> QED BY <1>1, <1>3, <1>4 DEF f

LEMMA SameFrame ==
    ASSUME NEW i, stack'[i] = stack[i], FrameOK(i), walk' = walk, ~stack[i].new \/ Len(stack') = Len(stack)
    PROVE  FrameOK(i)'
BY DEF FrameOK, Below

LEMMA WithoutStack ==
    ASSUME StackInv, status = "walking", NEW e, stack' = without(e), UNCHANGED <<status, walk, changed>>, errors' \subseteq Paths
    PROVE  StackInv' /\ Len(stack') = Len(stack) /\ Beneath /\ TopWithout(e)
<1>1. /\ stack' \in Seq(Frame) /\ Len(stack') = Len(stack) /\ Beneath
      /\ stack'[Len(stack)] = [top EXCEPT !.todo = @ \ {e}]
  BY WithoutFacts DEF Beneath
<1>2. /\ Len(stack) \in Nat \ {0} /\ top = stack[Len(stack)] /\ top \in Frame /\ FrameOK(Len(stack))
      /\ stack[1].dir = walk.root
  BY TopFacts
<1>3. TopWithout(e)
  BY <1>1, <1>2 DEF TopWithout, Frame
<1>4. ASSUME NEW i \in 1 .. Len(stack') PROVE FrameOK(i)'
  <2>1. CASE i = Len(stack)
    BY <1>1, <1>2, <1>3, <2>1 DEF FrameOK, TopWithout, Below
  <2>2. CASE i # Len(stack)
    <3>1. i \in 1 .. Len(stack) - 1 /\ FrameOK(i)
      BY <1>1, <1>2, <2>2 DEF StackInv
    <3> QED BY <1>1, <3>1, SameFrame DEF Beneath
  <2> QED BY <2>1, <2>2
<1>5. stack' # <<>> /\ stack'[1].dir = walk.root
  <2>1. stack' # <<>>
    BY <1>1, <1>2
  <2>2. CASE Len(stack) = 1
    BY <1>2, <1>3, <2>1, <2>2 DEF TopWithout
  <2>3. CASE Len(stack) > 1
    <3>1. 1 \in 1 .. Len(stack) - 1
      BY <1>2, <2>3
    <3> QED BY <1>1, <1>2, <2>1, <3>1 DEF Beneath
  <2> QED BY <1>2, <2>1, <2>2, <2>3
<1> QED BY <1>1, <1>3, <1>4, <1>5 DEF StackInv

LEMMA PushStack ==
    ASSUME StackInv, status = "walking", NEW e \in top.todo, ~top.new, stack' = Append(without(e), Entered(e)),
           UNCHANGED <<status, walk, changed>>, errors' \subseteq Paths
    PROVE  /\ StackInv' /\ Len(stack') = Len(stack) + 1 /\ Beneath /\ TopWithout(e)
           /\ stack'[Len(stack) + 1].dir = e /\ stack'[Len(stack) + 1].new /\ stack'[Len(stack) + 1].todo = {}
<1> DEFINE n == Len(stack)
           w == without(e)
<1>1. /\ n \in Nat \ {0} /\ top = stack[n] /\ top \in Frame /\ top.dir \in Paths /\ FrameOK(n)
      /\ e \in Paths \ {Root} /\ walk.root \in Paths /\ stack[1].dir = walk.root
  BY TopFacts
<1>2. /\ w \in Seq(Frame) /\ Len(w) = n /\ \A i \in 1 .. n - 1 : w[i] = stack[i]
      /\ w[n] = [top EXCEPT !.todo = @ \ {e}]
  BY WithoutFacts
<1> HIDE DEF w
<1>3. stack' = Append(w, Entered(e)) /\ Entered(e) \in Frame
  BY <1>1, EnteredFrame DEF w
<1>4. /\ stack' \in Seq(Frame) /\ Len(stack') = n + 1 /\ stack'[n + 1] = Entered(e)
      /\ \A i \in 1 .. n : stack'[i] = w[i]
  <2> HIDE DEF n
  <2> QED BY <1>1, <1>2, <1>3
<1>5. Beneath /\ TopWithout(e)
  BY <1>1, <1>2, <1>4 DEF Beneath, TopWithout, Frame
<1>6. stack'[n + 1].dir = e /\ stack'[n + 1].new /\ stack'[n + 1].todo = {}
  BY <1>1, <1>4, EnteredFrame
<1>7. ASSUME NEW i \in 1 .. Len(stack') PROVE FrameOK(i)'
  <2>1. CASE i = n + 1
    <3>1. e \in Below(walk.root)
      <4>1. Parent[e] = top.dir /\ top.dir \in Below(walk.root)
        BY <1>1 DEF FrameOK
      <4> QED BY <1>1, <4>1, EntryBelow
    <3> QED BY <1>1, <1>4, <1>6, <2>1, <3>1 DEF FrameOK, Below
  <2>2. CASE i = n
    <3>1. ~stack'[n].new /\ stack'[n].dir = stack[n].dir /\ stack'[n].seen = stack[n].seen /\ stack'[n].todo \subseteq stack[n].todo
      BY <1>1, <1>5 DEF TopWithout
    <3> QED BY <1>1, <2>2, <3>1 DEF FrameOK, Below
  <2>3. CASE i \in 1 .. n - 1
    <3>1. FrameOK(i) /\ i # Len(stack)
      BY <1>1, <2>3 DEF StackInv
    <3> QED BY <1>5, <2>3, <3>1, SameFrame DEF FrameOK, Beneath
  <2> QED BY <1>1, <1>4, <2>1, <2>2, <2>3
<1>8. stack' # <<>> /\ stack'[1].dir = walk.root
  <2>0. n = 1 \/ n > 1
    <3>1. n \in Nat \ {0}
      BY <1>1
    <3> HIDE DEF n
    <3> QED BY <3>1
  <2>1. stack' # <<>>
    BY <1>1, <1>4
  <2>2. CASE n = 1
    BY <1>1, <1>5, <2>1, <2>2 DEF TopWithout
  <2>3. CASE n > 1
    <3>1. 1 \in 1 .. n - 1
      BY <1>1, <2>3
    <3> QED BY <1>1, <1>5, <2>1, <3>1 DEF Beneath
  <2> QED BY <2>0, <2>2, <2>3
<1> QED BY <1>4, <1>5, <1>6, <1>7, <1>8 DEF StackInv

LEMMA PopStack ==
    ASSUME StackInv, status = "walking", Leave(popped), UNCHANGED <<walk, changed>>, errors' \subseteq Paths
    PROVE  /\ StackInv' /\ Len(stack') = Len(stack) - 1 /\ Beneath
           /\ status' \in {"walking", "done"} /\ (status' = "done" => Len(stack) = 1)
<1>1. Len(stack) \in Nat \ {0} /\ stack \in Seq(Frame) /\ walk \in Walk
  BY TopFacts
<1>2. stack' \in Seq(Frame) /\ Len(stack') = Len(stack) - 1 /\ Beneath
  <2>1. stack' = SubSeq(stack, 1, Len(stack) - 1)
    BY DEF Leave, popped
  <2> DEFINE n == Len(stack) - 1
  <2>2. n \in Int /\ n >= 0 /\ \A i \in 1 .. n : stack[i] \in Frame
    BY <1>1
  <2> HIDE DEF n
  <2>3. /\ stack' \in Seq(Frame) /\ Len(stack') = (IF 1 <= n THEN n - 1 + 1 ELSE 0)
        /\ \A i \in 1 .. n - 1 + 1 : stack'[i] = stack[1 + i - 1]
    BY <2>1, <2>2, SubSeqProperties DEF n
  <2>4. Len(stack') = n /\ \A i \in 1 .. n : stack'[i] = stack[i]
    BY <2>2, <2>3
  <2> QED BY <2>3, <2>4 DEF n, Beneath
<1>3. (stack' = <<>>) <=> Len(stack) = 1
  BY <1>1, <1>2
<1>4. status' \in {"walking", "done"} /\ (status' = "walking" <=> stack' # <<>>)
  BY DEF Leave
<1>5. ASSUME NEW i \in 1 .. Len(stack') PROVE FrameOK(i)'
  <2>1. i \in 1 .. Len(stack) - 1 /\ FrameOK(i)
    BY <1>1, <1>2 DEF StackInv
  <2>2. ~stack[i].new
    BY <1>1, <2>1 DEF FrameOK
  <2> QED BY <1>2, <2>1, <2>2, SameFrame DEF Beneath
<1>6. stack' # <<>> => stack'[1].dir = walk.root
  BY <1>1, <1>2, <1>3 DEF Beneath, StackInv
<1> QED BY <1>2, <1>3, <1>4, <1>5, <1>6 DEF StackInv

LEMMA ListStack ==
    ASSUME StackInv, status = "walking", NEW todo \in SUBSET (Paths \ {Root}), NEW seen \in Listing, Listed(todo, seen),
           \A e \in todo : Parent[e] = top.dir /\ (walk.kind # "restore" => e \in DOMAIN seen),
           UNCHANGED <<status, walk, changed>>, errors' \subseteq Paths
    PROVE  /\ StackInv' /\ Len(stack') = Len(stack) /\ Beneath
           /\ stack'[Len(stack)].dir = top.dir /\ stack'[Len(stack)].new = FALSE
           /\ stack'[Len(stack)].todo = todo /\ stack'[Len(stack)].seen = seen
<1> DEFINE n == Len(stack)
           f == [top EXCEPT !.new = FALSE, !.todo = todo, !.seen = seen]
<1>1. n \in Nat \ {0} /\ stack \in Seq(Frame) /\ top = stack[n] /\ top \in Frame /\ FrameOK(n)
  BY TopFacts
<1>2. f \in Frame /\ f.dir = top.dir /\ f.new = FALSE /\ f.todo = todo /\ f.seen = seen
  BY <1>1 DEF Frame
<1>3. stack' = [stack EXCEPT ![n] = f]
  BY <1>1 DEF Listed
<1> HIDE DEF f
<1>4. /\ stack' \in Seq(Frame) /\ Len(stack') = n /\ Beneath /\ stack'[n] = f
  BY <1>1, <1>2, <1>3 DEF Beneath
<1>5. ASSUME NEW i \in 1 .. Len(stack') PROVE FrameOK(i)'
  <2>1. CASE i = n
    BY <1>1, <1>2, <1>4, <2>1 DEF FrameOK, Below
  <2>2. CASE i # n
    <3>1. i \in 1 .. n - 1 /\ FrameOK(i)
      BY <1>1, <1>4, <2>2 DEF StackInv
    <3> QED BY <1>4, <3>1, SameFrame DEF Beneath
  <2> QED BY <2>1, <2>2
<1>6. stack' # <<>> /\ stack'[1].dir = walk.root
  <2>1. CASE n = 1
    BY <1>1, <1>2, <1>4, <2>1 DEF StackInv
  <2>2. CASE n > 1
    BY <1>1, <1>4, <2>2 DEF StackInv, Beneath
  <2> QED BY <1>1, <1>4, <2>1, <2>2
<1> QED BY <1>2, <1>4, <1>5, <1>6 DEF StackInv

LEMMA DieStack ==
    ASSUME StackInv, Die, UNCHANGED <<walk, changed>>, errors' \subseteq Paths
    PROVE  StackInv'
BY DEF StackInv, Die

LEMMA ListingFacts ==
    ASSUME NEW t \in [Paths -> Entries], NEW p \in Paths
    PROVE  /\ Children(t, p) \subseteq Paths \ {Root} /\ \A e \in Children(t, p) : Parent[e] = p
           /\ listdir(t, p) \in Listing /\ DOMAIN listdir(t, p) = Children(t, p)
           /\ \A e \in Children(t, p) : listdir(t, p)[e] = t[e]
<1>1. Children(t, p) \subseteq Paths \ {Root} /\ \A e \in Children(t, p) : Parent[e] = p
  BY DEF Children
<1>2. listdir(t, p) \in [Children(t, p) -> Entries]
  BY <1>1 DEF listdir
<1> QED BY <1>1, <1>2 DEF Listing, listdir

LEMMA BeginStack ==
    ASSUME StackInv, NEW w \in Walk, Begin(w)
    PROVE  StackInv'
<1>1. walk' = w /\ changed' = {} /\ (w.kind = "remove" => w.root # Root) /\ w.root \in Paths
  BY DEF Begin, Walk
<1>2. CASE w.kind = "remove" /\ Die
  BY <1>1, <1>2 DEF StackInv, Begin, Die
<1>3. CASE status' = "done" /\ stack' = <<>> /\ errors' \subseteq {w.root}
  BY <1>1, <1>3 DEF StackInv
<1>4. CASE status' = "walking" /\ stack' = <<[Entered(w.root) EXCEPT !.todo = on_the_way(w)]>> /\ errors' = {}
  <2> DEFINE f == [Entered(w.root) EXCEPT !.todo = on_the_way(w)]
  <2>1. on_the_way(w) \subseteq Paths \ {Root} /\ (on_the_way(w) # {} => w.kind = "restore")
    BY <1>1, Closed DEF on_the_way
  <2>2. f \in Frame /\ f.dir = w.root /\ f.new = TRUE /\ f.todo = on_the_way(w)
    <3>1. <<>> \in Listing /\ w.root \in Paths
      BY <1>1, EnteredFrame DEF Entered, Frame
    <3> QED BY <2>1, <3>1 DEF Entered, Frame
  <2> HIDE DEF f
  <2>3. stack' \in Seq(Frame) /\ Len(stack') = 1 /\ stack'[1] = f
    BY <1>4, <2>2 DEF f
  <2>4. w.root \in Below(w.root)
    BY <1>1, Closed DEF Below
  <2>5. FrameOK(1)'
    BY <1>1, <2>1, <2>2, <2>3, <2>4 DEF FrameOK, Below
  <2> QED BY <1>1, <1>4, <2>2, <2>3, <2>5 DEF StackInv
<1> QED BY <1>2, <1>3, <1>4 DEF Begin

LEMMA OthersStack ==
    ASSUME StackInv, Others
    PROVE  StackInv'
<1>1. UNCHANGED <<walk, status, stack, errors>> /\ changed' \subseteq Paths
  BY DEF Others, job
<1>2. \A i \in 1 .. Len(stack) : FrameOK(i)'
  BY <1>1 DEF StackInv, FrameOK, Below
<1> QED BY <1>1, <1>2 DEF StackInv

LEMMA ListStackInv ==
    ASSUME TreesInv, StackInv, backup_list \/ restore_list \/ remove_list
    PROVE  StackInv'
<1>1. /\ status = "walking" /\ UNCHANGED <<walk, changed>> /\ errors' \subseteq Paths /\ top.dir \in Paths
      /\ tree \in [Paths -> Entries] /\ device \in [Paths -> Entries] /\ <<>> \in Listing
  BY TopFacts, TreeFacts, EnteredFrame DEF backup_list, restore_list, remove_list, Walking, StackInv, TreesInv, tree, Tree, Entered, Frame
<1>2. CASE Leave(popped)
  BY <1>1, <1>2, PopStack
<1>3. CASE Die
  BY <1>1, <1>3, DieStack
<1>4. CASE UNCHANGED status /\ Listed(Children(device, top.dir), listdir(device, top.dir))
  <2> DEFINE todo == Children(device, top.dir)
             seen == listdir(device, top.dir)
  <2>1. /\ todo \in SUBSET (Paths \ {Root}) /\ seen \in Listing
        /\ \A e \in todo : Parent[e] = top.dir /\ (walk.kind # "restore" => e \in DOMAIN seen)
    BY <1>1, ListingFacts
  <2> HIDE DEF todo, seen
  <2>2. Listed(todo, seen)
    BY <1>4 DEF todo, seen
  <2> QED BY <1>1, <1>4, <2>1, <2>2, ListStack
<1>5. CASE UNCHANGED status /\ walk.kind = "restore" /\ \E seen \in {<<>>, listdir(device, top.dir)} : Listed(Children(tree, top.dir), seen)
  <2>1. PICK seen \in {<<>>, listdir(device, top.dir)} : Listed(Children(tree, top.dir), seen)
    BY <1>5
  <2>2. seen \in Listing
    BY <1>1, <2>1, ListingFacts
  <2> DEFINE todo == Children(tree, top.dir)
  <2>3. /\ todo \in SUBSET (Paths \ {Root})
        /\ \A e \in todo : Parent[e] = top.dir /\ (walk.kind # "restore" => e \in DOMAIN seen)
    BY <1>1, <1>5, ListingFacts
  <2> HIDE DEF todo
  <2>4. Listed(todo, seen)
    BY <2>1 DEF todo
  <2> QED BY <1>1, <1>5, <2>2, <2>3, <2>4, ListStack
<1> QED BY <1>2, <1>3, <1>4, <1>5 DEF backup_list, restore_list, remove_list, Walking

LEMMA EntryStackInv ==
    ASSUME StackInv, NEW e \in Paths,
           backup_directory(e) \/ backup_file(e) \/ restore_skip(e) \/ restore_directory(e) \/ restore_file(e) \/ remove_entry(e)
    PROVE  /\ StackInv' /\ status = "walking" /\ ~top.new /\ e \in top.todo /\ e \in Paths \ {Root} /\ Parent[e] = top.dir
           /\ UNCHANGED <<walk, changed>> /\ errors' \in {errors, errors \cup {e}}
           /\ Die \/ (UNCHANGED status /\ stack' \in {without(e), Append(without(e), Entered(e))})
<1>1. status = "walking" /\ ~top.new /\ e \in top.todo /\ e \in Paths \ {Root} /\ Parent[e] = top.dir
  BY HandlingFacts, RestoringFacts DEF backup_directory, backup_file, restore_skip, restore_directory, restore_file, remove_entry
<1>2. UNCHANGED <<walk, changed>> /\ errors' \in {errors, errors \cup {e}}
  BY DEF backup_directory, backup_file, restore_skip, restore_directory, restore_file, remove_entry, Reported
<1>3. Die \/ (UNCHANGED status /\ stack' \in {without(e), Append(without(e), Entered(e))})
  BY DEF backup_directory, backup_file, restore_skip, restore_directory, restore_file, remove_entry
<1>4. errors' \subseteq Paths
  BY <1>2 DEF StackInv
<1>5. StackInv'
  BY <1>1, <1>2, <1>3, <1>4, DieStack, WithoutStack, PushStack
<1> QED BY <1>1, <1>2, <1>3, <1>5

LEMMA StepStack ==
    ASSUME TreesInv, StackInv, Step
    PROVE  StackInv'
<1>1. CASE ensure_device_path
  <2>1. PICK p \in top.todo : \/ Die
                              \/ stack' = without(p) /\ UNCHANGED status
    BY <1>1 DEF ensure_device_path
  <2>2. status = "walking" /\ UNCHANGED <<walk, errors, changed>> /\ errors \subseteq Paths
    BY <1>1 DEF ensure_device_path, StackInv
  <2> QED BY <2>1, <2>2, DieStack, WithoutStack
<1>2. CASE leave_directory
  <2>1. status = "walking" /\ UNCHANGED <<walk, changed>> /\ Leave(popped) /\ errors' \subseteq Paths
    BY <1>2, TopFacts DEF leave_directory, Reported, StackInv
  <2> QED BY <2>1, PopStack
<1> QED BY <1>1, <1>2, ListStackInv, EntryStackInv DEF Step

(***************************************************************************)
(* Recursive removal.                                                      *)
(***************************************************************************)
LEMMA OthersRemoved ==
    ASSUME StackInv, Others, RemovedOrReported
    PROVE  RemovedOrReported'
<1> SUFFICES ASSUME Ended("remove")' PROVE (device[walk.root] = None \/ errors # {} \/ walk.root \in changed)'
  BY DEF RemovedOrReported
<1>1. UNCHANGED <<walk, status, stack, errors>> /\ Ended("remove") /\ walk.root \in Paths
  BY DEF Others, job, Ended, StackInv, Walk
<1> QED BY <1>1 DEF RemovedOrReported, Others

LEMMA BeginRemoved ==
    ASSUME TreesInv, NEW w \in Walk, Begin(w)
    PROVE  RemovedOrReported'
<1> SUFFICES ASSUME Ended("remove")' PROVE device'[w.root] = None \/ errors' # {}
  BY DEF RemovedOrReported, Begin
<1>1. w.kind = "remove" /\ w.root \in Paths \ {Root}
  BY DEF Ended, Begin, Walk
<1>2. PICK o \in delete_file(w.root) : device' = o.tree /\ errors' = (IF o.failed THEN {w.root} ELSE {})
  BY DEF Begin, Ended, Die, Took
<1> QED BY <1>1, <1>2, DeleteTouches

LEMMA StepRemoved ==
    ASSUME TreesInv, StackInv, Step
    PROVE  RemovedOrReported'
<1> SUFFICES ASSUME Ended("remove")' PROVE device'[walk.root] = None \/ errors' # {}
  BY DEF RemovedOrReported, Step, ensure_device_path, backup_list, restore_list, remove_list, leave_directory,
         backup_directory, backup_file, restore_skip, restore_directory, restore_file, remove_entry
<1>1. status' = "done" /\ walk'.kind = "remove"
  BY DEF Ended
<1>2. CASE remove_list
  BY <1>1, <1>2 DEF remove_list, Walking
<1>3. CASE leave_directory
  <2>1. status = "walking" /\ walk' = walk /\ Leave(popped)
    BY <1>3 DEF leave_directory
  <2>2. errors' \subseteq Paths
    BY <1>3, TopFacts, <2>1 DEF leave_directory, Reported, StackInv
  <2>3. Len(stack) = 1
    BY <1>1, <1>3, <2>1, <2>2, PopStack DEF leave_directory
  <2>4. top.dir = walk.root /\ walk.root \in Paths \ {Root}
    BY <1>1, <2>1, <2>3, TopFacts DEF StackInv
  <2>5. PICK o \in remove_directory(top.dir) : device' = o.tree /\ errors' = (IF o.failed THEN errors \cup {top.dir} ELSE errors)
    BY <1>1, <1>3, <2>1 DEF leave_directory, Took, Reported
  <2> QED BY <2>4, <2>5, RmdirTouches
<1>4. CASE ensure_device_path
  BY <1>1, <1>4 DEF ensure_device_path, Die
<1>5. CASE backup_list \/ restore_list
  BY <1>1, <1>5 DEF backup_list, restore_list, Walking
<1>6. ASSUME NEW e \in Paths,
             backup_directory(e) \/ backup_file(e) \/ restore_skip(e) \/ restore_directory(e) \/ restore_file(e) \/ remove_entry(e)
      PROVE  FALSE
  BY <1>1, <1>6, EntryStackInv DEF Die
<1> QED BY <1>2, <1>3, <1>4, <1>5, <1>6 DEF Step

(***************************************************************************)
(* Every step is one of the walk's, the start or the end of a command, or  *)
(* one of the others.                                                      *)
(***************************************************************************)
LEMMA InitWalks == MirrorInit => TreesInv /\ StackInv
<1> SUFFICES ASSUME MirrorInit PROVE TreesInv /\ StackInv
  OBVIOUS
<1>1. TreesInv
  BY WalksAssumption DEF MirrorInit, Init, TreesInv, Tree, Sends
<1>2. stack = <<>> /\ status = "idle" /\ errors = {} /\ changed = {}
  BY DEF MirrorInit, Init
<1>3. stack \in Seq(Frame) /\ Len(stack) = 0
  BY <1>2
<1>4. StackInv
  BY <1>2, <1>3 DEF StackInv
<1> QED BY <1>1, <1>4

LEMMA StepCases ==
    ASSUME TreesInv, StackInv, [MirrorNext]_allVars
    PROVE  TreesInv' /\ StackInv' /\ (Others \/ (\E w \in Walk : Begin(w)) \/ Step \/ (Killed /\ Die))
<1>0. changed \subseteq Paths
  BY DEF StackInv
<1>1. CASE UNCHANGED allVars
  <2>1. Others
    BY <1>0, <1>1 DEF allVars, treeVars, Others
  <2>2. TreesInv'
    BY <1>1, SameTrees DEF allVars, treeVars, mirrorVars
  <2> QED BY <2>1, <2>2, OthersStack
<1>2. ASSUME NEW x \in Senders, SendStep(x) PROVE TreesInv' /\ StackInv' /\ Others
  BY <1>0, <1>2, SendOthers, OthersStack
<1>3. ASSUME NEW w \in Walks, Begin(w), UNCHANGED <<locked, send>> PROVE TreesInv' /\ StackInv' /\ w \in Walk
  BY <1>3, BeginTrees, BeginStack, WalksAssumption
<1>4. CASE Step /\ UNCHANGED <<locked, send>>
  BY <1>4, StepTrees, StepStack
<1>5. ASSUME Environment, UNCHANGED send PROVE TreesInv' /\ StackInv' /\ (Others \/ (Killed /\ Die))
  <2>1. UNCHANGED <<locked, send>>
    BY <1>5 DEF Environment
  <2>2. CASE Killed
    <3>1. Die /\ UNCHANGED <<device, kept, walk, errors, changed>>
      BY <2>2 DEF Killed
    <3>2. errors' \subseteq Paths
      BY <3>1 DEF StackInv
    <3> QED BY <2>1, <2>2, <3>1, <3>2, SameTrees, DieStack
  <2>3. CASE PowerLoss
    BY <1>0, <2>1, <2>3, PowerLossOthers, OthersStack
  <2>4. ASSUME NEW p \in UserPaths, UserRemoves(p) PROVE TreesInv' /\ StackInv' /\ Others
    BY <1>0, <2>1, <2>4, UserRemovesOthers, OthersStack
  <2>5. ASSUME NEW p \in UserPaths, NEW v \in Versions, UserPuts(p, v) PROVE TreesInv' /\ StackInv' /\ Others
    BY <1>0, <2>1, <2>5, UserPutsOthers, OthersStack
  <2> QED BY <1>5, <2>2, <2>3, <2>4, <2>5 DEF Environment
<1>6. CASE Next /\ UNCHANGED mirrorVars
  <2>1. UNCHANGED send
    BY <1>6 DEF mirrorVars
  <2>2. CASE Program
    BY <1>3, <1>4, <2>1, <2>2 DEF Program
  <2>3. CASE Environment
    BY <1>5, <2>1, <2>3
  <2> QED BY <1>6, <2>2, <2>3 DEF Next
<1> QED BY <1>1, <1>2, <1>6 DEF MirrorNext

(* The trees keep their shape, and the stack of a walk is one chain of     *)
(* directories below its root, whose listings are right but for what       *)
(* others changed since the command began.                                 *)
THEOREM WalksSafe == MirrorSpec => [](TreesInv /\ StackInv)
<1>1. TreesInv /\ StackInv /\ [MirrorNext]_allVars => (TreesInv /\ StackInv)'
  BY StepCases
<1> QED BY <1>1, InitWalks, PTL DEF MirrorSpec

(* A removal that reports nothing has removed its root (remove.py:56-81):  *)
(* the last call of the command is the one for the root itself.            *)
THEOREM RemovalIsReported == MirrorSpec => []RemovedOrReported
<1>1. MirrorInit => RemovedOrReported
  BY DEF MirrorInit, Init, RemovedOrReported, Ended
<1>2. TreesInv /\ StackInv /\ RemovedOrReported /\ [MirrorNext]_allVars => RemovedOrReported'
  <2> SUFFICES ASSUME TreesInv, StackInv, RemovedOrReported, [MirrorNext]_allVars PROVE RemovedOrReported'
    OBVIOUS
  <2>1. CASE Killed /\ Die
    BY <2>1 DEF Die, RemovedOrReported, Ended
  <2> QED BY <2>1, StepCases, OthersRemoved, BeginRemoved, StepRemoved
<1> QED BY <1>1, <1>2, WalksSafe, PTL DEF MirrorSpec

(***************************************************************************)
(* What is still covered after a step.                                     *)
(***************************************************************************)
LEMMA SameAhead ==
    ASSUME NEW i, stack'[i] = stack[i], NEW p
    PROVE  Ahead(i, p)' <=> Ahead(i, p)
BY DEF Ahead, Below

LEMMA BeneathCovers ==
    ASSUME StackInv, status = "walking", NEW p, Covered(p), Beneath, Len(stack') \in Nat, Len(stack) - 1 <= Len(stack')
    PROVE  Covered(p)' \/ Ahead(Len(stack), p)
<1>1. PICK i \in 1 .. Len(stack) : Ahead(i, p)
  BY DEF Covered
<1>2. Len(stack) \in Nat \ {0}
  BY TopFacts
<1>3. CASE i = Len(stack)
  BY <1>1, <1>3
<1>4. CASE i # Len(stack)
  <2>1. i \in 1 .. Len(stack) - 1 /\ i \in 1 .. Len(stack')
    BY <1>2, <1>4
  <2>2. Ahead(i, p)'
    BY <1>1, <2>1, SameAhead DEF Beneath
  <2> QED BY <2>1, <2>2 DEF Covered
<1> QED BY <1>3, <1>4

LEMMA WithoutCovers ==
    ASSUME StackInv, status = "walking", ~top.new, NEW e, Beneath, TopWithout(e), Len(stack') \in Nat, Len(stack) <= Len(stack'),
           NEW p, Covered(p)
    PROVE  Covered(p)' \/ p \in Below(e)
<1>1. Len(stack) \in Nat \ {0} /\ top = stack[Len(stack)]
  BY TopFacts
<1>2. Covered(p)' \/ Ahead(Len(stack), p)
  BY <1>1, BeneathCovers
<1>3. CASE Ahead(Len(stack), p)
  <2>1. PICK d \in top.todo : p \in Below(d)
    BY <1>1, <1>3 DEF Ahead
  <2>2. CASE d # e
    <3>1. PICK n : n = Len(stack)
      OBVIOUS
    <3>2. Ahead(n, p)'
      BY <1>1, <2>1, <2>2, <3>1 DEF Ahead, TopWithout, Below
    <3> QED BY <1>1, <3>1, <3>2 DEF Covered
  <2> QED BY <2>1, <2>2
<1> QED BY <1>2, <1>3

LEMMA PushCovers ==
    ASSUME StackInv, status = "walking", ~top.new, NEW e \in top.todo, stack' = Append(without(e), Entered(e)),
           UNCHANGED <<status, walk, changed>>, errors' \subseteq Paths, NEW p, Covered(p) \/ p \in Below(e)
    PROVE  Covered(p)'
<1>1. /\ Len(stack) \in Nat \ {0} /\ Len(stack') = Len(stack) + 1 /\ Beneath /\ TopWithout(e)
      /\ stack'[Len(stack) + 1].dir = e /\ stack'[Len(stack) + 1].new
  BY TopFacts, PushStack
<1>2. CASE p \in Below(e)
  <2>1. PICK n : n = Len(stack) + 1
    OBVIOUS
  <2>2. Ahead(n, p)'
    BY <1>1, <1>2, <2>1 DEF Ahead, Below
  <2>3. n \in 1 .. Len(stack')
    BY <1>1, <2>1
  <2> QED BY <2>2, <2>3 DEF Covered
<1>3. Len(stack') \in Nat /\ Len(stack) <= Len(stack')
  BY <1>1
<1> QED BY <1>1, <1>2, <1>3, WithoutCovers

LEMMA ListCovers ==
    ASSUME StackInv, status = "walking", top.new, top.todo = {}, Beneath, Len(stack') = Len(stack), NEW p, Covered(p)
    PROVE  Covered(p)' \/ p \in Below(top.dir)
<1>1. Len(stack) \in Nat \ {0} /\ top = stack[Len(stack)]
  BY TopFacts
<1>2. Covered(p)' \/ Ahead(Len(stack), p)
  BY <1>1, BeneathCovers
<1> QED BY <1>1, <1>2 DEF Ahead

(***************************************************************************)
(* Backup.                                                                 *)
(***************************************************************************)
LEMMA BeginCovers ==
    ASSUME NEW w \in Walk, Begin(w), status' = "walking", NEW p \in Below(w.root)
    PROVE  Covered(p)' /\ Len(stack') = 1 /\ stack'[1].new /\ stack'[1].dir = w.root
<1> DEFINE f == [Entered(w.root) EXCEPT !.todo = on_the_way(w)]
<1>1. f.dir = w.root /\ f.new = TRUE
  BY DEF Entered
<1>2. stack' = <<f>>
  BY DEF Begin, Die
<1> HIDE DEF f
<1>3. Len(stack') = 1 /\ stack'[1] = f
  BY <1>2
<1>4. Ahead(1, p)'
  BY <1>1, <1>3 DEF Ahead, Below
<1> QED BY <1>1, <1>3, <1>4 DEF Covered

LEMMA OthersBackup ==
    ASSUME TreesInv, StackInv, Others, BackupInv
    PROVE  BackupInv'
<1> SUFFICES ASSUME status' \in {"walking", "done"}, walk'.kind = "backup"
    PROVE  /\ \A i \in 1 .. Len(stack') : SeenByBackup(i)'
           /\ \A p \in Below(walk'.root) : Wanted(p)' => tree'[p] = device'[p] \/ Excused(p)' \/ Covered(p)'
  BY DEF BackupInv, Below
<1>1. UNCHANGED <<walk, status, stack, errors>> /\ changed \subseteq changed'
  BY DEF Others, job
<1>2. /\ walk \in Walk /\ walk.root \in Paths /\ walk.source \in Sources /\ stack \in Seq(Frame)
      /\ \A i \in 1 .. Len(stack) : stack[i] \in Frame
  BY <1>1 DEF StackInv, Walk
<1>3. ASSUME NEW i \in 1 .. Len(stack) PROVE SeenByBackup(i)'
  <2>1. SeenByBackup(i) /\ stack[i].todo \subseteq Paths
    BY <1>1, <1>2 DEF BackupInv, Frame
  <2>2. \A q \in Paths : device'[q] = device[q] \/ q \in changed'
    BY DEF Others
  <2> QED BY <1>1, <2>1, <2>2 DEF SeenByBackup, Below
<1>4. ASSUME NEW p \in Below(walk.root), Wanted(p)' PROVE tree'[p] = device'[p] \/ Excused(p)' \/ Covered(p)'
  <2>1. CASE p \in changed'
    BY <2>1 DEF Excused
  <2>2. CASE p \notin changed'
    <3>1. p \in Paths
      BY DEF Below
    <3>2. device'[p] = device[p] /\ tree'[p] = tree[p]
      BY <1>1, <1>2, <2>2, <3>1 DEF Others, tree
    <3>3. Wanted(p)
      BY <1>1, <1>4, <3>2 DEF Wanted, Inside, InRom, Below
    <3>4. tree[p] = device[p] \/ Excused(p) \/ Covered(p)
      BY <1>1, <3>3 DEF BackupInv
    <3>5. Excused(p) => Excused(p)'
      BY <1>1 DEF Excused
    <3>6. Covered(p) => Covered(p)'
      BY <1>1 DEF Covered, Ahead, Below
    <3> QED BY <3>2, <3>4, <3>5, <3>6
  <2> QED BY <2>1, <2>2
<1> QED BY <1>1, <1>3, <1>4

LEMMA BeginBackup ==
    ASSUME NEW w \in Walk, Begin(w)
    PROVE  BackupInv'
<1> SUFFICES ASSUME status' \in {"walking", "done"}, walk'.kind = "backup"
    PROVE  /\ \A i \in 1 .. Len(stack') : SeenByBackup(i)'
           /\ \A p \in Below(walk'.root) : Covered(p)'
  BY DEF BackupInv, Below
<1>1. walk' = w /\ status' = "walking" /\ w.root \in Paths
  BY DEF Begin, Walk
<1>2. w.root \in Below(w.root)
  BY <1>1, Closed DEF Below
<1>3. Len(stack') = 1 /\ stack'[1].new
  BY <1>1, <1>2, BeginCovers
<1> QED BY <1>1, <1>3, BeginCovers DEF SeenByBackup

LEMMA PassedBackup ==
    ASSUME BackupInv, StackInv, status = "walking", walk.kind = "backup", UNCHANGED <<device, walk, changed>>, errors \subseteq errors',
           \A i \in 1 .. Len(stack') : SeenByBackup(i)',
           \A p \in Below(walk.root) : Wanted(p) /\ (tree[p] = device[p] \/ Covered(p))
                                       => tree'[p] = device[p] \/ Excused(p)' \/ Covered(p)'
    PROVE  BackupInv'
<1>1. \A p : Wanted(p)' <=> Wanted(p)
  BY DEF Wanted, Inside, InRom, Below
<1>2. \A p : Excused(p) => Excused(p)'
  BY DEF Excused
<1>3. \A p \in Below(walk.root) : Wanted(p) => tree[p] = device[p] \/ Excused(p) \/ Covered(p)
  BY DEF BackupInv
<1>4. \A p \in Below(walk.root) : Wanted(p)' => tree'[p] = device'[p] \/ Excused(p)' \/ Covered(p)'
  BY <1>1, <1>2, <1>3
<1> QED BY <1>4 DEF BackupInv, Below

LEMMA SeenBeneath ==
    ASSUME BackupInv, StackInv, status = "walking", walk.kind = "backup", UNCHANGED <<device, changed>>, Beneath
    PROVE  \A i \in 1 .. Len(stack) - 1 : SeenByBackup(i)'
<1>1. Len(stack) \in Nat \ {0}
  BY TopFacts
<1> SUFFICES ASSUME NEW i \in 1 .. Len(stack) - 1 PROVE SeenByBackup(i)'
  OBVIOUS
<1>2. SeenByBackup(i) /\ stack'[i] = stack[i]
  BY <1>1 DEF BackupInv, Beneath
<1> QED BY <1>2 DEF SeenByBackup, Below

LEMMA SeenOnTop ==
    ASSUME BackupInv, StackInv, status = "walking", walk.kind = "backup", UNCHANGED <<device, changed>>, NEW e, TopWithout(e),
           NEW n, n = Len(stack)
    PROVE  SeenByBackup(n)'
<1>1. n \in 1 .. Len(stack) /\ top = stack[n]
  BY TopFacts
<1>2. SeenByBackup(n)
  BY <1>1 DEF BackupInv
<1>3. stack'[n].new = stack[n].new /\ stack'[n].seen = stack[n].seen /\ stack'[n].todo \subseteq stack[n].todo
  BY <1>1 DEF TopWithout
<1> QED BY <1>2, <1>3 DEF SeenByBackup, Below

LEMMA ListBackup ==
    ASSUME TreesInv, StackInv, BackupInv, backup_list
    PROVE  BackupInv'
<1>1. /\ status = "walking" /\ walk.kind = "backup" /\ top.new /\ UNCHANGED <<device, walk, changed>>
      /\ stack # <<>>
  BY DEF backup_list, Walking
<1>2. /\ Len(stack) \in Nat \ {0} /\ top = stack[Len(stack)] /\ top.dir \in Paths /\ FrameOK(Len(stack)) /\ walk.source \in Sources
      /\ errors \subseteq Paths
  BY <1>1, TopFacts DEF StackInv
<1>3. top.todo = {}
  BY <1>1, <1>2 DEF FrameOK
<1>4. CASE errors' = errors \cup {top.dir} /\ Leave(popped) /\ UNCHANGED kept
  <2>1. Len(stack') = Len(stack) - 1 /\ Beneath
    BY <1>1, <1>2, <1>4, PopStack
  <2>2. \A i \in 1 .. Len(stack') : SeenByBackup(i)'
    BY <1>1, <2>1, SeenBeneath
  <2>3. ASSUME NEW p \in Below(walk.root), tree[p] = device[p] \/ Covered(p)
        PROVE  tree'[p] = device[p] \/ Excused(p)' \/ Covered(p)'
    <3>1. Covered(p) => Covered(p)' \/ Ahead(Len(stack), p)
      BY <1>1, <1>2, <2>1, BeneathCovers
    <3>2. Ahead(Len(stack), p) => top.dir \in AncestorsAndSelf[p]
      BY <1>1, <1>2 DEF Ahead, Below
    <3>3. top.dir \in AncestorsAndSelf[p] => Excused(p)'
      BY <1>4 DEF Excused
    <3> QED BY <1>1, <1>4, <2>3, <3>1, <3>2, <3>3 DEF tree
  <2> QED BY <1>1, <1>4, <2>2, <2>3, PassedBackup
<1>5. CASE /\ listing_works /\ ~mkdirs_raises(tree, top.dir) /\ UNCHANGED <<status, errors>>
           /\ kept' = [kept EXCEPT ![walk.source] = mkdirs(@, top.dir)]
           /\ Listed(Children(device, top.dir), listdir(device, top.dir))
  <2> DEFINE todo == Children(device, top.dir)
             seen == listdir(device, top.dir)
  <2>1. device \in Tree /\ device \in [Paths -> Entries] /\ device[top.dir] = Dir
    BY <1>5 DEF TreesInv, Tree, listing_works
  <2>2. /\ todo \in SUBSET (Paths \ {Root}) /\ seen \in Listing
        /\ \A e \in todo : Parent[e] = top.dir /\ e \in DOMAIN seen /\ seen[e] = device[e]
    BY <1>2, <2>1, ListingFacts
  <2>3. \A e \in Paths \ {Root} : Parent[e] = top.dir /\ device[e] # None => e \in todo
    BY DEF Children
  <2> HIDE DEF todo, seen
  <2>4. Listed(todo, seen)
    BY <1>5 DEF todo, seen
  <2>5. PICK n : n = Len(stack)
    OBVIOUS
  <2>6. Len(stack') = n /\ Beneath /\ stack'[n].new = FALSE /\ stack'[n].todo = todo /\ stack'[n].seen = seen
    BY <1>1, <1>2, <1>5, <2>2, <2>4, <2>5, ListStack
  <2>7. SeenByBackup(n)'
    <3> SUFFICES ASSUME NEW e \in todo
                 PROVE  device[e] = seen[e] /\ (IsFile(seen[e]) => \A q \in Below(e) \ {e} : device[q] = None)
      BY <1>1, <2>6 DEF SeenByBackup, Below
    <3> QED BY <2>1, <2>2, NothingBelow DEF IsFile
  <2>8. \A i \in 1 .. Len(stack') : SeenByBackup(i)'
    <3>1. \A i \in 1 .. n - 1 : SeenByBackup(i)'
      BY <1>1, <2>5, <2>6, SeenBeneath
    <3>2. n \in Nat \ {0}
      BY <1>2, <2>5
    <3>3. \A i \in 1 .. n : i = n \/ i \in 1 .. n - 1
      BY <3>2
    <3> QED BY <2>6, <2>7, <3>1, <3>3
  <2>9. ASSUME NEW p \in Below(walk.root), Wanted(p), tree[p] = device[p] \/ Covered(p)
        PROVE  tree'[p] = device[p] \/ Excused(p)' \/ Covered(p)'
    <3>1. p \in Paths /\ IsFile(device[p])
      BY <2>9 DEF Below, Wanted
    <3>2. CASE tree[p] = device[p]
      <4>1. tree' = mkdirs(tree, top.dir)
        BY <1>1, <1>2, <1>5, KeptMkdirs DEF tree
      <4>2. p \notin AncestorsAndSelf[top.dir]
        BY <1>5, <3>1, <3>2 DEF mkdirs_raises
      <4> QED BY <3>1, <3>2, <4>1, <4>2 DEF mkdirs
    <3>3. CASE Covered(p) /\ ~Covered(p)'
      <4>1. p \in Below(top.dir)
        BY <1>1, <1>3, <2>5, <2>6, <3>3, ListCovers
      <4>2. p # top.dir
        BY <2>1, <3>1 DEF IsFile
      <4>3. PICK e \in Paths \ {Root} : Parent[e] = top.dir /\ p \in Below(e) /\ e \in AncestorsAndSelf[p]
        BY <1>2, <4>1, <4>2, EntryOnTheWay
      <4>4. device[p] # None /\ Dir # None
        BY <3>1, EntriesAssumption DEF IsFile
      <4>5. device[e] # None
        BY <2>1, <3>1, <4>3, <4>4, AllDirs
      <4>6. Ahead(n, p)'
        BY <2>3, <2>6, <4>3, <4>5 DEF Ahead, Below
      <4>7. n \in 1 .. Len(stack')
        BY <1>2, <2>5, <2>6
      <4> QED BY <3>3, <4>6, <4>7 DEF Covered
    <3> QED BY <2>9, <3>2, <3>3
  <2> QED BY <1>1, <1>5, <2>8, <2>9, PassedBackup
<1>6. CASE Die
  BY <1>6 DEF Die, BackupInv
<1> QED BY <1>4, <1>5, <1>6 DEF backup_list

(* An entry e is done with, and nothing that is wanted lies ahead in it.   *)
LEMMA WithoutBackup ==
    ASSUME TreesInv, StackInv, BackupInv, status = "walking", walk.kind = "backup", ~top.new,
           UNCHANGED <<device, walk, changed, status>>, errors \subseteq errors', errors' \subseteq Paths,
           NEW e \in top.todo, stack' = without(e),
           \A p \in Below(walk.root) : Wanted(p) /\ p # e /\ tree[p] = device[p] => tree'[p] = device[p],
           \A p \in Below(e) : Wanted(p) => tree'[p] = device[p] \/ Excused(p)'
    PROVE  BackupInv'
<1>1. PICK n : n = Len(stack)
  OBVIOUS
<1>2. n \in Nat \ {0} /\ Len(stack') = n /\ Beneath /\ TopWithout(e) /\ e \in Paths
  BY <1>1, TopFacts, WithoutStack
<1>3. \A i \in 1 .. Len(stack') : SeenByBackup(i)'
  <2>1. \A i \in 1 .. n - 1 : SeenByBackup(i)'
    BY <1>1, <1>2, SeenBeneath
  <2>2. SeenByBackup(n)'
    BY <1>1, <1>2, SeenOnTop
  <2>3. \A i \in 1 .. n : i = n \/ i \in 1 .. n - 1
    BY <1>2
  <2> QED BY <1>2, <2>1, <2>2, <2>3
<1>4. ASSUME NEW p \in Below(walk.root), Wanted(p), tree[p] = device[p] \/ Covered(p)
      PROVE  tree'[p] = device[p] \/ Excused(p)' \/ Covered(p)'
  <2>1. CASE p \in Below(e)
    BY <1>4, <2>1
  <2>2. CASE p \notin Below(e)
    <3>1. p # e
      BY <1>2, <2>2, Closed DEF Below
    <3>2. Covered(p) => Covered(p)'
      BY <1>1, <1>2, <2>2, WithoutCovers
    <3> QED BY <1>4, <3>1, <3>2
  <2> QED BY <2>1, <2>2
<1> QED BY <1>3, <1>4, PassedBackup

LEMMA DirectoryBackup ==
    ASSUME TreesInv, StackInv, BackupInv, NEW e \in Paths, backup_directory(e)
    PROVE  BackupInv'
<1>1. /\ status = "walking" /\ walk.kind = "backup" /\ ~top.new /\ e \in top.todo /\ e \in Paths \ {Root}
      /\ UNCHANGED <<device, kept, walk, status, errors, changed>> /\ top.seen[e] = Dir /\ Parent[e] = top.dir
  BY HandlingFacts DEF backup_directory
<1>2. errors \subseteq Paths /\ FrameOK(Len(stack)) /\ top = stack[Len(stack)] /\ walk.root \in Paths /\ top.dir \in Paths
  BY <1>1, TopFacts DEF StackInv
<1>3. e # walk.root /\ e \in Below(walk.root)
  BY <1>1, <1>2, EntryBelow DEF FrameOK
<1>4. CASE skipped_card(e) /\ stack' = without(e)
  <2>1. ASSUME NEW p \in Below(e), Wanted(p) PROVE FALSE
    <3>1. e \in (Inside(p) \ {walk.root}) \cap Cards /\ ~walk.include_cards
      BY <1>3, <1>4 DEF skipped_card, Inside, Below
    <3> QED BY <2>1, <3>1 DEF Wanted
  <2> QED BY <1>1, <1>2, <1>4, <2>1, WithoutBackup DEF tree
<1>5. CASE stack' = Append(without(e), Entered(e))
  <2>1. PICK n : n = Len(stack)
    OBVIOUS
  <2>2. /\ n \in Nat \ {0} /\ Len(stack') = n + 1 /\ Beneath /\ TopWithout(e) /\ stack'[n + 1].new
    BY <1>1, <1>2, <1>5, <2>1, TopFacts, PushStack
  <2>3. \A i \in 1 .. Len(stack') : SeenByBackup(i)'
    <3>1. \A i \in 1 .. n - 1 : SeenByBackup(i)'
      BY <1>1, <2>1, <2>2, SeenBeneath
    <3>2. SeenByBackup(n)'
      BY <1>1, <2>1, <2>2, SeenOnTop
    <3>3. SeenByBackup(n + 1)'
      BY <2>2 DEF SeenByBackup
    <3>4. \A i \in 1 .. n + 1 : i = n + 1 \/ i = n \/ i \in 1 .. n - 1
      BY <2>2
    <3> QED BY <2>2, <3>1, <3>2, <3>3, <3>4
  <2>4. \A p : Covered(p) => Covered(p)'
    BY <1>1, <1>2, <1>5, PushCovers
  <2> QED BY <1>1, <2>3, <2>4, PassedBackup DEF tree
<1> QED BY <1>4, <1>5 DEF backup_directory

LEMMA FileBackup ==
    ASSUME TreesInv, StackInv, BackupInv, NEW e \in Paths, backup_file(e)
    PROVE  BackupInv'
<1>1. /\ status = "walking" /\ walk.kind = "backup" /\ ~top.new /\ e \in top.todo /\ e \in Paths \ {Root}
      /\ UNCHANGED <<device, walk, status, changed>> /\ IsFile(top.seen[e]) /\ stack' = without(e)
  BY HandlingFacts DEF backup_file
<1>2. /\ walk.source \in Sources /\ top = stack[Len(stack)] /\ Len(stack) \in Nat \ {0} /\ FrameOK(Len(stack))
      /\ top.seen \in Listing
  BY <1>1, TopFacts
<1>3. SeenByBackup(Len(stack))
  BY <1>1, <1>2 DEF BackupInv
<1>4. device[e] = top.seen[e] \/ e \in changed
  BY <1>1, <1>2, <1>3 DEF SeenByBackup
<1>5. \A q \in Below(e) \ {e} : device[q] = None \/ q \in changed
  BY <1>1, <1>2, <1>3 DEF SeenByBackup
<1>6. errors \subseteq errors' /\ errors' \subseteq Paths
  BY <1>1, EntryStackInv DEF StackInv
<1>7. \A p \in Paths : p # e => tree'[p] = tree[p]
  BY <1>1, <1>2 DEF backup_file, tree, TreesInv
<1>8. ASSUME Wanted(e) PROVE tree'[e] = device[e] \/ Excused(e)'
  <2>1. e \in changed => Excused(e)'
    BY <1>1 DEF Excused
  <2>2. e \in errors' => Excused(e)'
    BY <1>1, Closed DEF Excused
  <2>3. CASE UNCHANGED kept /\ skipped_rom(e)
    BY <1>4, <1>8, <2>1, <2>3 DEF skipped_rom, Wanted
  <2>4. CASE UNCHANGED kept /\ skipped_existing(e)
    <3>1. tree[e] \in Content
      BY <1>1, <1>2, <2>4 DEF skipped_existing, IsFile, TreesInv, tree, Entries
    <3>2. top.seen[e] \in Content
      BY <1>1, <1>2 DEF FrameOK, Listing, IsFile, Entries
    <3>3. tree[e] = top.seen[e]
      BY <2>4, <3>1, <3>2, SizesAssumption DEF skipped_existing
    <3> QED BY <1>1, <1>4, <2>1, <2>4, <3>3 DEF tree
  <2>5. CASE kept' = [kept EXCEPT ![walk.source][e] = device[e]]
    BY <1>1, <1>2, <2>5 DEF tree, TreesInv
  <2>6. CASE errors' = errors \cup {e}
    BY <2>2, <2>6
  <2> QED BY <2>3, <2>4, <2>5, <2>6 DEF backup_file
<1>9. ASSUME NEW p \in Below(e), Wanted(p) PROVE tree'[p] = device[p] \/ Excused(p)'
  <2>1. CASE p = e
    BY <1>8, <1>9, <2>1
  <2>2. CASE p # e
    BY <1>1, <1>5, <1>9, <2>2 DEF Wanted, IsFile, Excused
  <2> QED BY <2>1, <2>2
<1>10. \A p \in Below(walk.root) : p # e /\ tree[p] = device[p] => tree'[p] = device[p]
  BY <1>7 DEF Below
<1> QED BY <1>1, <1>6, <1>9, <1>10, WithoutBackup

LEMMA LeaveBackup ==
    ASSUME TreesInv, StackInv, BackupInv, leave_directory, walk.kind = "backup"
    PROVE  BackupInv'
<1>1. /\ status = "walking" /\ UNCHANGED <<device, kept, walk, errors, changed>> /\ Leave(popped)
      /\ ~top.new /\ top.todo = {}
  BY DEF leave_directory
<1>2. /\ Len(stack) \in Nat \ {0} /\ top = stack[Len(stack)] /\ errors \subseteq Paths
  BY <1>1, TopFacts DEF StackInv
<1>3. Len(stack') = Len(stack) - 1 /\ Beneath
  BY <1>1, <1>2, PopStack
<1>4. \A i \in 1 .. Len(stack') : SeenByBackup(i)'
  BY <1>1, <1>3, SeenBeneath
<1>5. \A p : ~Ahead(Len(stack), p)
  BY <1>1, <1>2 DEF Ahead
<1>6. \A p : Covered(p) => Covered(p)'
  BY <1>1, <1>2, <1>3, <1>5, BeneathCovers
<1> QED BY <1>1, <1>4, <1>6, PassedBackup DEF tree

LEMMA StepBackup ==
    ASSUME TreesInv, StackInv, BackupInv, Step
    PROVE  BackupInv'
<1>1. CASE walk.kind # "backup"
  <2>1. walk' = walk
    BY DEF Step, ensure_device_path, backup_list, restore_list, remove_list, leave_directory,
           backup_directory, backup_file, restore_skip, restore_directory, restore_file, remove_entry
  <2> QED BY <1>1, <2>1 DEF BackupInv
<1>2. CASE walk.kind = "backup"
  <2>1. ~ensure_device_path
    BY <1>2, TopFacts DEF ensure_device_path, Unprepared, FrameOK
  <2>2. ~restore_list /\ ~remove_list /\ \A e \in Paths : ~restore_skip(e) /\ ~restore_directory(e) /\ ~restore_file(e) /\ ~remove_entry(e)
    BY <1>2, HandlingFacts, RestoringFacts
       DEF restore_list, remove_list, restore_skip, restore_directory, restore_file, remove_entry, Walking
  <2> QED BY <1>2, <2>1, <2>2, ListBackup, DirectoryBackup, FileBackup, LeaveBackup DEF Step
<1> QED BY <1>1, <1>2

(* A backup that has ended has copied what it did not report               *)
(* (backup.py:69-116): every file it was to copy is ahead of it, copied, named *)
(* in an error or changed meanwhile.                                       *)
THEOREM BackupIsReported == MirrorSpec => []BackedUpOrReported
<1>1. MirrorInit => BackupInv
  BY DEF MirrorInit, Init, BackupInv
<1>2. TreesInv /\ StackInv /\ BackupInv /\ [MirrorNext]_allVars => BackupInv'
  <2> SUFFICES ASSUME TreesInv, StackInv, BackupInv, [MirrorNext]_allVars PROVE BackupInv'
    OBVIOUS
  <2>1. CASE Killed /\ Die
    BY <2>1 DEF Die, BackupInv
  <2> QED BY <2>1, StepCases, OthersBackup, BeginBackup, StepBackup
<1>3. StackInv /\ BackupInv => BackedUpOrReported
  <2> SUFFICES ASSUME StackInv, BackupInv, Ended("backup"), NEW p \in Below(walk.root), Wanted(p)
               PROVE  tree[p] = device[p] \/ Excused(p)
    BY DEF BackedUpOrReported, Wanted
  <2>1. stack = <<>>
    BY DEF StackInv, Ended
  <2>2. ~Covered(p)
    BY <2>1 DEF Covered
  <2> QED BY <2>2 DEF BackupInv, Ended
<1> QED BY <1>1, <1>2, <1>3, WalksSafe, PTL DEF MirrorSpec

(***************************************************************************)
(* The trees on the Mac, when nothing else writes them.                    *)
(***************************************************************************)
LEMMA BackupListKept ==
    ASSUME TreesInv, StackInv, KeptInv, backup_list
    PROVE  /\ kept' \in [Sources -> Tree]
           /\ status' = "walking" => \A i \in 1 .. Len(stack') : ~stack'[i].new => tree'[stack'[i].dir] = Dir
<1>1. /\ status = "walking" /\ walk.kind = "backup" /\ top.new /\ UNCHANGED <<walk, changed>> /\ errors' \subseteq Paths
  BY TopFacts DEF backup_list, Walking, StackInv
<1>2. /\ Len(stack) \in Nat \ {0} /\ top = stack[Len(stack)] /\ top.dir \in Paths /\ walk.source \in Sources
      /\ tree \in Tree /\ stack \in Seq(Frame)
  BY <1>1, TopFacts DEF KeptInv, tree
<1>3. \A i \in 1 .. Len(stack) : ~stack[i].new => tree[stack[i].dir] = Dir
  BY <1>1 DEF KeptInv
<1>4. CASE UNCHANGED kept /\ Leave(popped)
  <2>1. Len(stack') = Len(stack) - 1 /\ Beneath
    BY <1>1, <1>4, PopStack
  <2>2. \A i \in 1 .. Len(stack') : i \in 1 .. Len(stack) - 1 /\ i \in 1 .. Len(stack)
    BY <1>2, <2>1
  <2>3. tree' = tree /\ kept' \in [Sources -> Tree]
    BY <1>1, <1>4 DEF tree, KeptInv
  <2>4. \A i \in 1 .. Len(stack') : ~stack'[i].new => tree[stack'[i].dir] = Dir
    BY <1>3, <2>1, <2>2 DEF Beneath
  <2> QED BY <2>3, <2>4
<1>5. CASE UNCHANGED kept /\ Die
  BY <1>5 DEF Die, KeptInv
<1>6. CASE /\ listing_works /\ ~mkdirs_raises(tree, top.dir) /\ UNCHANGED <<status, errors>>
           /\ kept' = [kept EXCEPT ![walk.source] = mkdirs(@, top.dir)]
           /\ Listed(Children(device, top.dir), listdir(device, top.dir))
  <2> DEFINE todo == Children(device, top.dir)
             seen == listdir(device, top.dir)
  <2>1. /\ todo \in SUBSET (Paths \ {Root}) /\ seen \in Listing
        /\ \A e \in todo : Parent[e] = top.dir /\ e \in DOMAIN seen
    BY <1>2, ListingFacts DEF TreesInv, Tree
  <2> HIDE DEF todo, seen
  <2>2. Listed(todo, seen)
    BY <1>6 DEF todo, seen
  <2>3. Len(stack') = Len(stack) /\ Beneath /\ stack'[Len(stack)].dir = top.dir
    BY <1>1, <1>6, <2>1, <2>2, ListStack
  <2>4. /\ tree' = mkdirs(tree, top.dir) /\ \A r \in Sources \ {walk.source} : kept'[r] = kept[r]
        /\ kept' \in [Sources -> [Paths -> Entries]]
    BY <1>1, <1>2, <1>6, KeptMkdirs DEF tree
  <2>5. /\ tree' \in Tree /\ tree'[top.dir] = Dir
        /\ \A q \in Paths : tree[q] = Dir => tree'[q] = Dir
    BY <1>2, <1>6, <2>4, MkdirsTree
  <2>6. kept' \in [Sources -> Tree]
    <3>1. \A r \in Sources : kept'[r] \in Tree
      BY <1>1, <2>4, <2>5 DEF tree, KeptInv
    <3> QED BY <2>4, <3>1
  <2>7. ASSUME NEW i \in 1 .. Len(stack'), ~stack'[i].new PROVE tree'[stack'[i].dir] = Dir
    <3>1. CASE i = Len(stack)
      BY <2>3, <2>5, <3>1
    <3>2. CASE i # Len(stack)
      <4>1. i \in 1 .. Len(stack) - 1 /\ i \in 1 .. Len(stack) /\ stack[i] \in Frame
        BY <1>2, <2>3, <3>2
      <4> QED BY <1>3, <2>3, <2>5, <2>7, <4>1 DEF Beneath, Frame
    <3> QED BY <3>1, <3>2
  <2> QED BY <2>6, <2>7
<1> QED BY <1>4, <1>5, <1>6 DEF backup_list

LEMMA BackupFileKept ==
    ASSUME TreesInv, StackInv, KeptInv, NEW e \in Paths, backup_file(e)
    PROVE  /\ kept' \in [Sources -> Tree]
           /\ \A i \in 1 .. Len(stack') : ~stack'[i].new => tree'[stack'[i].dir] = Dir
<1>1. /\ status = "walking" /\ walk.kind = "backup" /\ ~top.new /\ e \in top.todo /\ e \in Paths \ {Root} /\ Parent[e] = top.dir
      /\ UNCHANGED <<status, walk, changed>> /\ errors' \subseteq Paths /\ stack' = without(e)
  BY EntryStackInv, HandlingFacts DEF backup_file, StackInv
<1>2. /\ Len(stack) \in Nat \ {0} /\ top = stack[Len(stack)] /\ walk.source \in Sources /\ tree \in Tree /\ stack \in Seq(Frame)
      /\ top.seen \in Listing /\ FrameOK(Len(stack))
  BY <1>1, TopFacts DEF KeptInv, tree
<1>3. \A i \in 1 .. Len(stack) : ~stack[i].new => tree[stack[i].dir] = Dir
  BY <1>1 DEF KeptInv
<1>4. Len(stack') = Len(stack) /\ Beneath /\ TopWithout(e)
  BY <1>1, WithoutStack
<1>5. ASSUME NEW i \in 1 .. Len(stack'), ~stack'[i].new PROVE stack'[i].dir \in Paths /\ tree[stack'[i].dir] = Dir
  <2>1. CASE i = Len(stack)
    BY <1>1, <1>2, <1>3, <1>4, <2>1, TopFacts DEF TopWithout
  <2>2. CASE i # Len(stack)
    <3>1. i \in 1 .. Len(stack) - 1 /\ i \in 1 .. Len(stack) /\ stack[i] \in Frame
      BY <1>2, <1>4, <2>2
    <3> QED BY <1>3, <1>4, <1>5, <3>1 DEF Beneath, Frame
  <2> QED BY <2>1, <2>2
<1>6. CASE UNCHANGED kept
  BY <1>1, <1>5, <1>6 DEF KeptInv, tree
<1>7. ASSUME NEW c \in Entries, tree[e] # Dir, kept' = [kept EXCEPT ![walk.source][e] = c]
      PROVE  /\ kept' \in [Sources -> Tree]
             /\ \A i \in 1 .. Len(stack') : ~stack'[i].new => tree'[stack'[i].dir] = Dir
  <2>1. tree' = [tree EXCEPT ![e] = c] /\ \A r \in Sources \ {walk.source} : kept'[r] = kept[r]
    BY <1>1, <1>2, <1>7, KeptPut DEF tree
  <2>2. tree[Parent[e]] = Dir
    BY <1>1, <1>2, <1>3
  <2>3. \A q \in Paths \ {Root} : Parent[q] = e => tree[q] = None
    BY <1>2, <1>7, TreeFacts
  <2>4. tree' \in Tree /\ \A q \in Paths : tree'[q] = IF q = e THEN c ELSE tree[q]
    <3> DEFINE t == tree
    <3>1. t \in Tree /\ t[Parent[e]] = Dir /\ (\A q \in Paths \ {Root} : Parent[q] = e => t[q] = None) /\ e \in Paths \ {Root}
      BY <1>1, <1>2, <2>2, <2>3
    <3> HIDE DEF t
    <3>2. [t EXCEPT ![e] = c] \in Tree /\ \A q \in Paths : [t EXCEPT ![e] = c][q] = IF q = e THEN c ELSE t[q]
      BY <3>1, PutTree
    <3> QED BY <2>1, <3>2 DEF t
  <2>5. kept' \in [Sources -> Tree]
    <3>1. \A r \in Sources : kept'[r] \in Tree
      BY <1>1, <2>1, <2>4 DEF tree, KeptInv
    <3>2. kept' \in [Sources -> [Paths -> Entries]]
      BY <1>1, <1>2, <1>7, KeptPut
    <3> QED BY <3>1, <3>2
  <2>6. \A i \in 1 .. Len(stack') : ~stack'[i].new => tree'[stack'[i].dir] = Dir
    BY <1>5, <1>7, <2>4
  <2> QED BY <2>5, <2>6
<1>8. CASE tree[e] # Dir /\ kept' = [kept EXCEPT ![walk.source][e] = device[e]]
  BY <1>1, <1>7, <1>8, TreeFacts DEF TreesInv
<1>9. CASE /\ tree[e] # Dir /\ IsFile(top.seen[e])
           /\ kept' = [kept EXCEPT ![walk.source][e] = Cut((IF downloads(e) THEN device[e] ELSE top.seen[e]).of)]
  <2> DEFINE x == IF downloads(e) THEN device[e] ELSE top.seen[e]
  <2>1. x \in Content
    BY <1>1, <1>2, <1>9, TreeFacts DEF FrameOK, Listing, TreesInv, downloads, IsFile, Entries
  <2>2. Cut(x.of) \in Entries
    BY <2>1, FileFacts DEF Content, Entries
  <2> HIDE DEF x
  <2> QED BY <1>7, <1>9, <2>2 DEF x
<1> QED BY <1>6, <1>8, <1>9 DEF backup_file

(* What a sender relies on from one step to the next.                      *)
SenderKept(x) ==
    send[x] # None /\ send[x].at \in {"rename", "write"} =>
        /\ mirror[Parent[send[x].path]] = Dir /\ mirror[send[x].path] # Dir
        /\ send[x].at = "rename" => mirror[send[x].path] # None

LEMMA StepKept ==
    ASSUME OneWriter, ArchiveInv, TreesInv, StackInv, KeptInv, Step, UNCHANGED send
    PROVE  KeptInv'
<1>1. walk' = walk /\ walk \in Walks /\ status = "walking"
  BY HandlingFacts, RestoringFacts
     DEF ArchiveInv, Step, ensure_device_path, backup_list, restore_list, remove_list, leave_directory,
         backup_directory, backup_file, restore_skip, restore_directory, restore_file, remove_entry, Walking
<1>2. ASSUME walk.kind = "backup" PROVE walk.source = "backup" /\ "mirror" \in Sources
  BY <1>1, <1>2, WalksAssumption DEF OneWriter, Walk, Sources
<1>3. CASE walk.kind # "backup"
  <2>1. UNCHANGED kept
    BY <1>3, HandlingFacts
       DEF Step, ensure_device_path, backup_list, restore_list, remove_list, leave_directory,
           backup_directory, backup_file, restore_skip, restore_directory, restore_file, remove_entry, Walking
  <2> QED BY <1>1, <1>3, <2>1 DEF KeptInv, mirror
<1>4. CASE walk.kind = "backup"
  <2>1. ~ensure_device_path
    BY <1>4, TopFacts DEF ensure_device_path, Unprepared, FrameOK
  <2>2. ~restore_list /\ ~remove_list /\ \A e \in Paths : ~restore_skip(e) /\ ~restore_directory(e) /\ ~restore_file(e) /\ ~remove_entry(e)
    BY <1>4, HandlingFacts, RestoringFacts
       DEF restore_list, remove_list, restore_skip, restore_directory, restore_file, remove_entry, Walking
  <2>3. ASSUME kept' \in [Sources -> Tree], mirror' = mirror,
               status' = "walking" => \A i \in 1 .. Len(stack') : ~stack'[i].new => tree'[stack'[i].dir] = Dir
        PROVE  KeptInv'
    BY <2>3 DEF KeptInv
  <2>4. CASE backup_list
    <3>1. mirror' = mirror
      <4>1. CASE UNCHANGED kept
        BY <4>1 DEF mirror
      <4>2. CASE kept' = [kept EXCEPT ![walk.source] = mkdirs(@, top.dir)]
        BY <1>2, <1>4, <4>2 DEF mirror, TreesInv
      <4> QED BY <2>4, <4>1, <4>2 DEF backup_list
    <3> QED BY <2>3, <2>4, <3>1, BackupListKept
  <2>5. ASSUME NEW e \in Paths, backup_file(e) PROVE KeptInv'
    <3>1. mirror' = mirror
      BY <1>2, <1>4, <2>5 DEF backup_file, mirror, TreesInv
    <3> QED BY <2>3, <2>5, <3>1, BackupFileKept
  <2>6. \A i \in 1 .. Len(stack) : ~stack[i].new => tree[stack[i].dir] = Dir
    BY <1>1, <1>4 DEF KeptInv
  <2>7. ASSUME NEW e \in Paths, backup_directory(e) PROVE KeptInv'
    <3>1. /\ ~top.new /\ e \in top.todo /\ UNCHANGED <<kept, status, changed>> /\ errors' \subseteq Paths
          /\ Len(stack) \in Nat \ {0} /\ top = stack[Len(stack)]
      BY <1>1, <2>7, HandlingFacts, TopFacts DEF backup_directory, StackInv
    <3>2. /\ Beneath /\ TopWithout(e)
          /\ Len(stack') = Len(stack) \/ (Len(stack') = Len(stack) + 1 /\ stack'[Len(stack) + 1].new)
      BY <1>1, <2>7, <3>1, WithoutStack, PushStack DEF backup_directory
    <3>3. ASSUME NEW i \in 1 .. Len(stack'), ~stack'[i].new PROVE tree[stack'[i].dir] = Dir
      <4>1. i \in 1 .. Len(stack)
        BY <3>1, <3>2, <3>3
      <4>2. CASE i = Len(stack)
        BY <2>6, <3>1, <3>2, <4>1, <4>2 DEF TopWithout
      <4>3. CASE i # Len(stack)
        BY <2>6, <3>1, <3>2, <3>3, <4>1, <4>3 DEF Beneath
      <4> QED BY <4>2, <4>3
    <3> QED BY <1>1, <2>3, <3>1, <3>3 DEF KeptInv, mirror, tree
  <2>8. CASE leave_directory
    <3>1. UNCHANGED kept /\ errors' \subseteq Paths /\ Leave(popped) /\ UNCHANGED changed /\ Len(stack) \in Nat \ {0}
      BY <1>1, <1>4, <2>8, TopFacts DEF leave_directory, StackInv
    <3>2. Len(stack') = Len(stack) - 1 /\ Beneath
      BY <1>1, <3>1, PopStack
    <3>3. ASSUME NEW i \in 1 .. Len(stack'), ~stack'[i].new PROVE tree[stack'[i].dir] = Dir
      <4>1. i \in 1 .. Len(stack) - 1 /\ i \in 1 .. Len(stack)
        BY <3>1, <3>2
      <4> QED BY <2>6, <3>2, <3>3, <4>1 DEF Beneath
    <3> QED BY <1>1, <2>3, <3>1, <3>3 DEF KeptInv, mirror, tree
  <2> QED BY <2>1, <2>2, <2>4, <2>5, <2>7, <2>8 DEF Step
<1> QED BY <1>3, <1>4

LEMMA SenderStepKept ==
    ASSUME OneWriter, ArchiveInv, TreesInv, StackInv, KeptInv, NEW x \in Senders, SendStep(x)
    PROVE  KeptInv'
<1> DEFINE p == send[x].path
<1>1. UNCHANGED job /\ mirror \in Tree
  BY DEF KeptInv, Sources, mirror, SendStep, open_upload, close_upload, create_process, compare, rename, write_bytes,
         append_manifest, SenderKilled
<1>2. status = "walking" /\ walk.kind = "backup" => walk.source = "backup"
  BY WalksAssumption DEF OneWriter, Walk, Sources, ArchiveInv
<1>3. ASSUME NEW t \in Tree, kept' = [kept EXCEPT !["mirror"] = t], SenderKept(x)' PROVE KeptInv'
  <2>1. kept' \in [Sources -> Tree] /\ kept'["backup"] = kept["backup"]
    BY <1>3 DEF KeptInv, Sources
  <2>2. \A y \in Senders : SenderKept(y)'
    BY <1>3 DEF OneWriter
  <2>3. status' = "walking" /\ walk'.kind = "backup"
        => \A i \in 1 .. Len(stack') : ~stack'[i].new => tree'[stack'[i].dir] = Dir
    BY <1>1, <1>2, <2>1 DEF job, KeptInv, tree
  <2> QED BY <2>1, <2>2, <2>3 DEF KeptInv, SenderKept
<1>4. ASSUME UNCHANGED kept, SenderKept(x)' PROVE KeptInv'
  <2>1. kept' = [kept EXCEPT !["mirror"] = mirror]
    BY <1>4, SameMirrorTree
  <2> QED BY <1>1, <1>3, <1>4, <2>1
<1>5. ASSUME Stop(x) PROVE SenderKept(x)'
  BY <1>5 DEF Stop, SenderKept, TreesInv
<1>6. ASSUME send[x] # None, NEW place, Go(x, place)
      PROVE  send'[x].at = place /\ send'[x].path = p
  BY <1>6 DEF Go, TreesInv, Sending
<1>7. ASSUME NEW place \in {"launch", "compare", "append"}, send[x] # None, Go(x, place) PROVE SenderKept(x)'
  BY <1>6, <1>7 DEF SenderKept
<1>8. CASE \E q \in SendPaths, v \in Versions, i \in BOOLEAN : open_upload(x, q, v, i)
  <2>1. UNCHANGED kept /\ send'[x].at = "upload"
    BY <1>8 DEF open_upload, TreesInv
  <2> QED BY <1>4, <2>1 DEF SenderKept
<1>9. CASE close_upload(x) \/ create_process(x) \/ append_manifest(x) \/ SenderKilled(x)
  BY <1>4, <1>5, <1>7, <1>9 DEF close_upload, create_process, append_manifest, SenderKilled, Sends
<1>10. ASSUME send[x] # None PROVE Sending(send[x]) /\ p \in Paths \ {Root} /\ Parent[p] \in Paths \ {p}
  <2>1. Sending(send[x]) /\ p \in Paths \ {Root}
    BY <1>10, SendAssumption DEF TreesInv, Sending
  <2> QED BY <2>1, PathsAssumption, EntryBelow
<1>11. CASE compare(x)
  <2>1. send[x] # None
    BY <1>11 DEF compare, Sends
  <2>2. CASE UNCHANGED kept /\ (Stop(x) \/ Go(x, "append"))
    BY <1>4, <1>5, <1>7, <2>1, <2>2
  <2>3. CASE ~blocked(p) /\ kept' = [kept EXCEPT !["mirror"] = mkdirs(@, Parent[p])]
    <3> DEFINE t == mkdirs(mirror, Parent[p])
    <3>1. /\ t \in Tree /\ t[Parent[p]] = Dir
          /\ \A q \in Paths : IsFile(mirror[q]) \/ mirror[q] = Dir => t[q] = mirror[q]
          /\ \A q \in Paths : t[q] # mirror[q] => q \in AncestorsAndSelf[Parent[p]]
      BY <1>1, <1>10, <2>1, <2>3, MkdirsTree DEF blocked
    <3>2. p \notin AncestorsAndSelf[Parent[p]] /\ p \in Paths
      BY <1>10, <2>1, PathsAssumption
    <3> HIDE DEF t
    <3>3. t[p] = mirror[p]
      BY <3>1, <3>2
    <3>4. kept' = [kept EXCEPT !["mirror"] = t] /\ mirror' = t
      BY <2>3 DEF t, mirror, KeptInv, Sources
    <3>5. mirror[p] # Dir
      BY <2>3 DEF blocked
    <3>6. SenderKept(x)'
      <4>1. CASE Go(x, "write")
        BY <1>6, <2>1, <3>1, <3>3, <3>4, <3>5, <4>1 DEF SenderKept
      <4>2. ASSUME IsFile(mirror[p]), NEW s \in Stamps,
                   send' = [send EXCEPT ![x].at = "rename", ![x].name = free_name(p, s)]
            PROVE  SenderKept(x)'
        <5>1. send'[x].path = p
          BY <2>1, <4>2 DEF TreesInv, Sending
        <5> QED BY <3>1, <3>3, <3>4, <3>5, <4>2, <5>1 DEF SenderKept, IsFile
      <4> QED BY <1>5, <1>7, <1>11, <2>1, <4>1, <4>2 DEF compare
    <3> QED BY <1>3, <3>1, <3>4, <3>6
  <2>4. ASSUME UNCHANGED kept, IsFile(mirror[p]), NEW s \in Stamps,
               send' = [send EXCEPT ![x].at = "rename", ![x].name = free_name(p, s)]
        PROVE  KeptInv'
    <3>1. send'[x].path = p
      BY <2>1, <2>4 DEF TreesInv, Sending
    <3>2. mirror' = mirror /\ mirror[Parent[p]] = Dir
      BY <1>1, <1>10, <2>1, <2>4, TreeFacts DEF mirror, IsFile
    <3> QED BY <1>4, <2>4, <3>1, <3>2 DEF SenderKept, IsFile
  <2> QED BY <1>11, <2>2, <2>3, <2>4 DEF compare
<1>12. CASE rename(x)
  <2>1. send[x] # None /\ SenderKept(x) /\ send[x].at = "rename"
    BY <1>12 DEF rename, Sends, KeptInv, SenderKept
  <2>2. CASE UNCHANGED kept /\ Stop(x)
    BY <1>4, <1>5, <2>2
  <2>3. CASE kept' = [kept EXCEPT !["mirror"][p] = None] /\ Go(x, "write")
    <3> DEFINE t == [mirror EXCEPT ![p] = None]
    <3>1. mirror[Parent[p]] = Dir /\ mirror[p] # Dir
      BY <2>1 DEF SenderKept
    <3>2. \A q \in Paths \ {Root} : Parent[q] = p => mirror[q] = None
      BY <1>1, <3>1, TreeFacts
    <3>3. t \in Tree /\ \A q \in Paths : t[q] = IF q = p THEN None ELSE mirror[q]
      <4> DEFINE m == mirror
                 d == p
      <4>1. m \in Tree /\ d \in Paths \ {Root} /\ m[Parent[d]] = Dir /\ None \in Entries
            /\ \A q \in Paths \ {Root} : Parent[q] = d => m[q] = None
        BY <1>1, <1>10, <2>1, <3>1, <3>2 DEF Entries
      <4> HIDE DEF m, d
      <4>2. [m EXCEPT ![d] = None] \in Tree /\ \A q \in Paths : [m EXCEPT ![d] = None][q] = IF q = d THEN None ELSE m[q]
        BY <4>1, PutTree
      <4> QED BY <4>2 DEF m, d
    <3> HIDE DEF t
    <3>4. kept' = [kept EXCEPT !["mirror"] = t] /\ mirror' = t
      BY <2>3 DEF t, mirror, KeptInv, Sources
    <3>5. SenderKept(x)'
      BY <1>6, <1>10, <2>1, <2>3, <3>1, <3>3, <3>4, EntriesAssumption DEF SenderKept
    <3> QED BY <1>3, <3>3, <3>4, <3>5
  <2> QED BY <1>12, <2>2, <2>3 DEF rename
<1>13. CASE write_bytes(x)
  <2>1. send[x] # None /\ SenderKept(x) /\ send[x].at = "write" /\ send[x].version \in Versions
    BY <1>10, <1>13 DEF write_bytes, Sends, KeptInv, SenderKept, Sending
  <2>2. mirror[Parent[p]] = Dir /\ mirror[p] # Dir
    BY <2>1 DEF SenderKept
  <2>3. \A q \in Paths \ {Root} : Parent[q] = p => mirror[q] = None
    BY <1>1, <2>2, TreeFacts
  <2>4. ASSUME NEW c \in Entries, kept' = [kept EXCEPT !["mirror"][p] = c], SenderKept(x)' PROVE KeptInv'
    <3> DEFINE t == [mirror EXCEPT ![p] = c]
    <3>1. t \in Tree
      BY <1>1, <1>10, <2>1, <2>2, <2>3, PutTree
    <3>2. kept' = [kept EXCEPT !["mirror"] = t]
      BY <2>4 DEF mirror
    <3> HIDE DEF t
    <3> QED BY <1>3, <2>4, <3>1, <3>2
  <2>5. SenderKept(x)'
    BY <1>5, <1>7, <1>13, <2>1 DEF write_bytes
  <2>6. File(send[x].version) \in Entries /\ Cut(send[x].version) \in Entries
    BY <2>1, FileFacts DEF Entries
  <2> QED BY <1>13, <2>4, <2>5, <2>6 DEF write_bytes
<1> QED BY <1>8, <1>9, <1>11, <1>12, <1>13 DEF SendStep

LEMMA InitKeptInv == MirrorInit => KeptInv
BY WalksAssumption DEF MirrorInit, Init, KeptInv

LEMMA NextKept ==
    ASSUME OneWriter, ArchiveInv, TreesInv, StackInv, KeptInv, [MirrorNext]_allVars
    PROVE  KeptInv'
<1>1. ASSUME UNCHANGED <<kept, send>>, UNCHANGED job \/ Die PROVE KeptInv'
  BY <1>1 DEF KeptInv, job, Die, tree, mirror
<1>2. CASE UNCHANGED allVars
  BY <1>1, <1>2 DEF allVars, treeVars, mirrorVars
<1>3. ASSUME NEW w \in Walks, Begin(w), UNCHANGED send PROVE KeptInv'
  <2>1. UNCHANGED kept /\ w \in Walk /\ w.root \in Paths /\ w.root \in Below(w.root)
    BY <1>3, WalksAssumption, Closed DEF Begin, Walk, Below
  <2>2. status' = "walking" => Len(stack') = 1 /\ stack'[1].new
    BY <1>3, <2>1, BeginCovers
  <2> QED BY <1>3, <2>1, <2>2 DEF KeptInv, mirror
<1>4. ASSUME Environment, UNCHANGED send PROVE KeptInv'
  BY <1>1, <1>4 DEF Environment, UserRemoves, UserPuts, UserChanges, PowerLoss, Killed
<1>5. CASE Next /\ UNCHANGED mirrorVars
  BY <1>3, <1>4, <1>5, StepKept DEF Next, Program, mirrorVars
<1> QED BY <1>2, <1>5, SenderStepKept DEF MirrorNext

(***************************************************************************)
(* Restore.                                                                *)
(***************************************************************************)
LEMMA OthersRestore ==
    ASSUME TreesInv, StackInv, KeptInv, Others, RestoreInv
    PROVE  RestoreInv'
<1> SUFFICES ASSUME status' \in {"walking", "done"}, walk'.kind = "restore", ~walk'.dry_run
    PROVE  /\ \A i \in 1 .. Len(stack') : SeenByRestore(i)'
           /\ \A p \in Below(walk'.root) : Due(p)' => device'[p] = tree'[p] \/ Excused(p)' \/ Covered(p)'
  BY DEF RestoreInv, Below
<1>1. UNCHANGED <<walk, status, stack, errors>> /\ changed \subseteq changed'
  BY DEF Others, job
<1>2. /\ walk \in Walk /\ walk.root \in Paths /\ walk.source \in Sources /\ stack \in Seq(Frame)
      /\ \A i \in 1 .. Len(stack) : stack[i] \in Frame
  BY <1>1 DEF StackInv, Walk
<1>3. /\ \A q \in Paths : device'[q] = device[q] \/ q \in changed'
      /\ \A q \in Paths : tree'[q] = tree[q] \/ q \in changed'
      /\ tree \in Tree
  BY <1>1, <1>2 DEF Others, tree, KeptInv
<1>4. ASSUME NEW i \in 1 .. Len(stack) PROVE SeenByRestore(i)'
  <2>1. SeenByRestore(i) /\ stack[i].todo \subseteq Paths /\ stack[i].dir \in Paths
    BY <1>1, <1>2 DEF RestoreInv, Frame
  <2> QED BY <1>1, <1>3, <2>1 DEF SeenByRestore
<1>5. ASSUME NEW p \in Below(walk.root), Due(p)' PROVE device'[p] = tree'[p] \/ Excused(p)' \/ Covered(p)'
  <2>1. CASE p \in changed'
    BY <2>1 DEF Excused
  <2>2. CASE p \notin changed'
    <3>1. p \in Paths
      BY DEF Below
    <3>2. device'[p] = device[p] /\ tree'[p] = tree[p] /\ tree[p] # None
      BY <1>3, <1>5, <2>2, <3>1 DEF Due
    <3>3. ASSUME NEW q \in Inside(p) \ {walk.root}, should_skip(q) PROVE FALSE
      <4>1. q \in Inside(p)' \ {walk'.root} /\ q \in Paths /\ p \in Below(q)
        BY <1>1, <3>1, <3>3, Closed DEF Inside, Below
      <4>2. ~should_skip(q)'
        BY <1>5, <4>1 DEF Due
      <4>3. IsFile(tree[q]) /\ ~IsFile(tree'[q])
        BY <3>3, <4>2 DEF should_skip, IsFile
      <4>4. p # q /\ tree[q] # Dir
        BY <3>2, <4>3 DEF IsFile
      <4> QED BY <1>3, <3>2, <4>1, <4>4, NothingBelow
    <3>4. Due(p)
      BY <3>2, <3>3 DEF Due
    <3>5. device[p] = tree[p] \/ Excused(p) \/ Covered(p)
      BY <1>1, <3>4 DEF RestoreInv
    <3>6. Excused(p) => Excused(p)'
      BY <1>1 DEF Excused
    <3>7. Covered(p) => Covered(p)'
      BY <1>1 DEF Covered, Ahead, Below
    <3> QED BY <3>2, <3>5, <3>6, <3>7
  <2> QED BY <2>1, <2>2
<1> QED BY <1>1, <1>4, <1>5

LEMMA BeginRestore ==
    ASSUME NEW w \in Walk, Begin(w)
    PROVE  RestoreInv'
<1> SUFFICES ASSUME status' \in {"walking", "done"}, walk'.kind = "restore", ~walk'.dry_run
    PROVE  /\ \A i \in 1 .. Len(stack') : SeenByRestore(i)'
           /\ \A p \in Below(walk'.root) : Covered(p)'
  BY DEF RestoreInv, Below
<1>1. walk' = w /\ status' = "walking" /\ w.root \in Paths /\ UNCHANGED kept
  BY DEF Begin, Walk
<1>2. w.root \in Below(w.root)
  BY <1>1, Closed DEF Below
<1>3. Len(stack') = 1 /\ stack'[1].new /\ stack'[1].dir = w.root
  BY <1>1, <1>2, BeginCovers
<1>4. tree'[w.root] = Dir
  BY <1>1 DEF Begin, eligible_source, tree
<1>5. SeenByRestore(1)'
  BY <1>3, <1>4 DEF SeenByRestore
<1> QED BY <1>1, <1>3, <1>5, BeginCovers

LEMMA PassedRestore ==
    ASSUME RestoreInv, StackInv, status = "walking", walk.kind = "restore", ~walk.dry_run, UNCHANGED <<kept, walk, changed>>,
           errors \subseteq errors', \A i \in 1 .. Len(stack') : SeenByRestore(i)',
           \A p \in Below(walk.root) : Due(p) /\ (device[p] = tree[p] \/ Covered(p))
                                       => device'[p] = tree[p] \/ Excused(p)' \/ Covered(p)'
    PROVE  RestoreInv'
<1>1. \A p : Due(p)' <=> Due(p)
  BY DEF Due, Inside, should_skip, tree, Below
<1>2. \A p : Excused(p) => Excused(p)'
  BY DEF Excused
<1>3. \A p \in Below(walk.root) : Due(p) => device[p] = tree[p] \/ Excused(p) \/ Covered(p)
  BY DEF RestoreInv
<1>4. \A p \in Below(walk.root) : Due(p)' => device'[p] = tree'[p] \/ Excused(p)' \/ Covered(p)'
  BY <1>1, <1>2, <1>3 DEF tree
<1> QED BY <1>4 DEF RestoreInv, Below

(* The listings further down stay right: the walk changes an entry of the  *)
(* directory on top, and no other directory on the stack has that entry.   *)
LEMMA RestoreBeneath ==
    ASSUME RestoreInv, StackInv, status = "walking", walk.kind = "restore", ~walk.dry_run, UNCHANGED <<kept, walk, changed>>,
           NEW e, Parent[e] = top.dir, \A q \in Paths : q # e => device'[q] = device[q], Beneath
    PROVE  \A i \in 1 .. Len(stack) - 1 : SeenByRestore(i)'
<1>1. PICK n : n = Len(stack)
  OBVIOUS
<1>2. n \in Nat \ {0} /\ top = stack[n] /\ stack \in Seq(Frame)
  BY <1>1, TopFacts
<1> SUFFICES ASSUME NEW i \in 1 .. n - 1 PROVE SeenByRestore(i)'
  BY <1>1
<1>3. /\ i \in 1 .. n /\ n \in 1 .. n /\ stack'[i] = stack[i] /\ stack[i] \in Frame
      /\ \A j \in 1 .. i - 1 : stack'[j] = stack[j]
  BY <1>1, <1>2 DEF Beneath
<1>4. SeenByRestore(i) /\ SeenByRestore(n) /\ FrameOK(i) /\ FrameOK(n)
  BY <1>1, <1>3 DEF RestoreInv, StackInv
<1>5. stack[i].dir # top.dir
  BY <1>2, <1>4 DEF SeenByRestore
<1>6. ~stack[i].new => e \notin stack[i].todo
  BY <1>4, <1>5 DEF FrameOK
<1>7. stack[i].todo \subseteq Paths
  BY <1>3 DEF Frame
<1> QED BY <1>3, <1>4, <1>6, <1>7 DEF SeenByRestore, tree

LEMMA RestoreOnTop ==
    ASSUME RestoreInv, StackInv, status = "walking", walk.kind = "restore", ~walk.dry_run, UNCHANGED <<kept, walk, changed>>,
           NEW e, \A q \in Paths : q # e => device'[q] = device[q], Beneath, TopWithout(e), NEW n, n = Len(stack)
    PROVE  SeenByRestore(n)'
<1>1. n \in Nat \ {0} /\ n \in 1 .. Len(stack) /\ top = stack[n] /\ top.todo \subseteq Paths
  BY TopFacts
<1>2. SeenByRestore(n)
  BY <1>1 DEF RestoreInv
<1>3. /\ stack'[n].dir = stack[n].dir /\ stack'[n].new = stack[n].new /\ stack'[n].seen = stack[n].seen
      /\ stack'[n].todo = stack[n].todo \ {e} /\ \A j \in 1 .. n - 1 : stack'[j] = stack[j]
  BY <1>1 DEF TopWithout, Beneath
<1> QED BY <1>1, <1>2, <1>3 DEF SeenByRestore, tree

LEMMA WithoutRestore ==
    ASSUME TreesInv, StackInv, RestoreInv, status = "walking", walk.kind = "restore", ~walk.dry_run, ~top.new,
           UNCHANGED <<kept, walk, changed, status>>, errors \subseteq errors', errors' \subseteq Paths,
           NEW e \in top.todo, Parent[e] = top.dir, stack' = without(e), \A q \in Paths : q # e => device'[q] = device[q],
           \A p \in Below(e) : Due(p) => device'[p] = tree[p] \/ Excused(p)'
    PROVE  RestoreInv'
<1>1. PICK n : n = Len(stack)
  OBVIOUS
<1>2. n \in Nat \ {0} /\ Len(stack') = n /\ Beneath /\ TopWithout(e) /\ e \in Paths
  BY <1>1, TopFacts, WithoutStack
<1>3. \A i \in 1 .. Len(stack') : SeenByRestore(i)'
  <2>1. \A i \in 1 .. n - 1 : SeenByRestore(i)'
    BY <1>1, <1>2, RestoreBeneath
  <2>2. SeenByRestore(n)'
    BY <1>1, <1>2, RestoreOnTop
  <2>3. \A i \in 1 .. n : i = n \/ i \in 1 .. n - 1
    BY <1>2
  <2> QED BY <1>2, <2>1, <2>2, <2>3
<1>4. ASSUME NEW p \in Below(walk.root), Due(p), device[p] = tree[p] \/ Covered(p)
      PROVE  device'[p] = tree[p] \/ Excused(p)' \/ Covered(p)'
  <2>1. CASE p \in Below(e)
    BY <1>4, <2>1
  <2>2. CASE p \notin Below(e)
    <3>1. p # e /\ p \in Paths
      BY <1>2, <2>2, Closed DEF Below
    <3>2. Covered(p) => Covered(p)'
      BY <1>1, <1>2, <2>2, WithoutCovers
    <3> QED BY <1>4, <3>1, <3>2
  <2> QED BY <2>1, <2>2
<1> QED BY <1>3, <1>4, PassedRestore

LEMMA PushRestore ==
    ASSUME TreesInv, StackInv, RestoreInv, status = "walking", walk.kind = "restore", ~walk.dry_run, ~top.new,
           UNCHANGED <<kept, walk, changed, status>>, errors \subseteq errors', errors' \subseteq Paths,
           NEW e \in top.todo, Parent[e] = top.dir, stack' = Append(without(e), Entered(e)), tree[e] = Dir,
           \A q \in Paths : q # e => device'[q] = device[q]
    PROVE  RestoreInv'
<1>1. PICK n : n = Len(stack)
  OBVIOUS
<1>2. /\ n \in Nat \ {0} /\ Len(stack') = n + 1 /\ Beneath /\ TopWithout(e) /\ stack'[n + 1].new /\ stack'[n + 1].dir = e
      /\ e \in Paths \ {Root} /\ top = stack[n] /\ top.dir \in Paths
  BY <1>1, TopFacts, PushStack
<1>3. SeenByRestore(n + 1)'
  <2>1. SeenByRestore(n)
    BY <1>1, <1>2 DEF RestoreInv
  <2>2. top.dir \in AncestorsAndSelf[e] /\ top.dir # e /\ e \notin AncestorsAndSelf[top.dir]
    BY <1>2, EntryBelow
  <2>3. ASSUME NEW j \in 1 .. n PROVE stack'[j].dir \in AncestorsAndSelf[e] \ {e}
    <3>1. CASE j = n
      BY <1>1, <1>2, <2>2, <3>1 DEF TopWithout
    <3>2. CASE j # n
      <4>1. j \in 1 .. n - 1
        BY <1>2, <3>2
      <4>2. stack'[j].dir \in AncestorsAndSelf[top.dir]
        BY <1>1, <1>2, <2>1, <4>1 DEF SeenByRestore, Beneath
      <4> QED BY <1>2, <2>2, <4>2, Above
    <3> QED BY <3>1, <3>2
  <2>4. \A j \in 1 .. n + 1 - 1 : j \in 1 .. n
    BY <1>2
  <2>5. tree'[e] = Dir
    BY DEF tree
  <2> QED BY <1>2, <2>3, <2>4, <2>5 DEF SeenByRestore
<1>4. \A i \in 1 .. Len(stack') : SeenByRestore(i)'
  <2>1. \A i \in 1 .. n - 1 : SeenByRestore(i)'
    BY <1>1, <1>2, RestoreBeneath
  <2>2. SeenByRestore(n)'
    BY <1>1, <1>2, RestoreOnTop
  <2>3. \A i \in 1 .. n + 1 : i = n + 1 \/ i = n \/ i \in 1 .. n - 1
    BY <1>2
  <2> QED BY <1>2, <1>3, <2>1, <2>2, <2>3
<1>5. ASSUME NEW p \in Below(walk.root), device[p] = tree[p] \/ Covered(p)
      PROVE  device'[p] = tree[p] \/ Covered(p)'
  <2>1. e \in Below(e) /\ p \in Paths
    BY <1>2, Closed DEF Below
  <2>2. CASE Covered(p) \/ p \in Below(e)
    BY <2>2, PushCovers
  <2>3. CASE p # e /\ device[p] = tree[p]
    BY <2>1, <2>3
  <2> QED BY <1>5, <2>1, <2>2, <2>3
<1> QED BY <1>4, <1>5, PassedRestore

LEMMA EnsureRestore ==
    ASSUME TreesInv, StackInv, RestoreInv, ensure_device_path
    PROVE  RestoreInv'
<1>1. status = "walking" /\ top.new /\ top.todo # {} /\ UNCHANGED <<kept, walk, errors, changed>>
  BY DEF ensure_device_path, Unprepared
<1>2. CASE Die
  BY <1>2 DEF Die, RestoreInv
<1>3. ASSUME NEW p, stack' = without(p), UNCHANGED status, walk.kind = "restore", ~walk.dry_run PROVE RestoreInv'
  <2>1. Len(stack) = 1 /\ top = stack[1] /\ stack[1].dir = walk.root /\ errors \subseteq Paths
    BY <1>1, TopFacts DEF FrameOK, StackInv
  <2>2. Len(stack') = 1 /\ TopWithout(p)
    BY <1>1, <1>3, <2>1, WithoutStack
  <2>3. stack'[1].new /\ stack'[1].dir = walk.root
    BY <1>1, <2>1, <2>2 DEF TopWithout
  <2>4. SeenByRestore(1)
    BY <1>1, <1>3, <2>1 DEF RestoreInv
  <2>5. SeenByRestore(1)'
    BY <1>1, <2>1, <2>3, <2>4 DEF SeenByRestore, tree
  <2>6. ASSUME NEW q \in Below(walk.root) PROVE Covered(q)'
    <3>1. Ahead(1, q)'
      BY <2>3 DEF Ahead, Below
    <3> QED BY <2>2, <3>1 DEF Covered
  <2> QED BY <1>1, <1>3, <2>2, <2>5, <2>6, PassedRestore
<1>4. CASE walk.kind # "restore" \/ walk.dry_run
  BY <1>1, <1>4 DEF RestoreInv
<1> QED BY <1>2, <1>3, <1>4 DEF ensure_device_path

LEMMA ListRestore ==
    ASSUME TreesInv, StackInv, KeptInv, RestoreInv, restore_list, ~walk.dry_run
    PROVE  RestoreInv'
<1>1. /\ status = "walking" /\ walk.kind = "restore" /\ top.new /\ top.todo = {}
      /\ UNCHANGED <<device, kept, walk, status, changed>>
  BY DEF restore_list, Walking, Unprepared
<1>2. PICK n : n = Len(stack)
  OBVIOUS
<1>3. /\ n \in Nat \ {0} /\ top = stack[n] /\ top.dir \in Paths /\ walk.source \in Sources /\ errors \subseteq Paths
      /\ tree \in Tree /\ tree \in [Paths -> Entries] /\ device \in [Paths -> Entries]
  BY <1>1, <1>2, TopFacts, TreeFacts DEF StackInv, KeptInv, tree, TreesInv, Tree
<1>4. errors \subseteq errors' /\ errors' \subseteq Paths
  BY <1>3 DEF restore_list
<1>5. SeenByRestore(n)
  BY <1>1, <1>2, <1>3 DEF RestoreInv
<1> DEFINE todo == Children(tree, top.dir)
<1>6. /\ todo \in SUBSET (Paths \ {Root}) /\ \A e \in todo : Parent[e] = top.dir
      /\ \A e \in Paths \ {Root} : Parent[e] = top.dir /\ tree[e] # None => e \in todo
  BY <1>3, ListingFacts DEF Children
<1> HIDE DEF todo
<1>7. PICK seen \in Listing : Listed(todo, seen) /\ \A e \in DOMAIN seen : device[e] = seen[e]
  <2>1. CASE Listed(todo, <<>>)
    <3>1. <<>> \in Listing /\ DOMAIN <<>> = {}
      BY <1>3, EnteredFrame DEF Entered, Frame
    <3> QED BY <2>1, <3>1
  <2>2. CASE Listed(todo, listdir(device, top.dir))
    BY <1>3, <2>2, ListingFacts
  <2> QED BY <2>1, <2>2 DEF restore_list, todo
<1>8. /\ Len(stack') = n /\ Beneath /\ stack'[n].dir = top.dir /\ stack'[n].new = FALSE
      /\ stack'[n].todo = todo /\ stack'[n].seen = seen
  BY <1>1, <1>2, <1>4, <1>6, <1>7, ListStack
<1>9. \A i \in 1 .. Len(stack') : SeenByRestore(i)'
  <2>1. ASSUME NEW i \in 1 .. n - 1 PROVE SeenByRestore(i)'
    <3>1. i \in 1 .. Len(stack) /\ stack'[i] = stack[i] /\ \A j \in 1 .. i - 1 : stack'[j] = stack[j]
      BY <1>2, <1>3, <1>8 DEF Beneath
    <3>2. SeenByRestore(i)
      BY <1>1, <3>1 DEF RestoreInv
    <3> QED BY <1>1, <3>1, <3>2 DEF SeenByRestore, tree
  <2>2. SeenByRestore(n)'
    <3>1. \A j \in 1 .. n - 1 : stack'[j] = stack[j]
      BY <1>2, <1>8 DEF Beneath
    <3> QED BY <1>1, <1>3, <1>5, <1>7, <1>8, <3>1 DEF SeenByRestore, tree
  <2>3. \A i \in 1 .. n : i = n \/ i \in 1 .. n - 1
    BY <1>3
  <2> QED BY <1>8, <2>1, <2>2, <2>3
<1>10. ASSUME NEW p \in Below(walk.root), Due(p), device[p] = tree[p] \/ Covered(p)
       PROVE  device'[p] = tree[p] \/ Excused(p)' \/ Covered(p)'
  <2>1. CASE p \notin Below(top.dir)
    BY <1>1, <1>2, <1>8, <1>10, <2>1, ListCovers
  <2>2. CASE p \in Below(top.dir) /\ top.dir \in errors'
    BY <2>2 DEF Excused, Below
  <2>3. CASE p = top.dir /\ listing_works
    BY <1>1, <1>3, <1>5, <2>3 DEF SeenByRestore, listing_works, Excused
  <2>4. CASE p \in Below(top.dir) /\ p # top.dir
    <3>1. PICK e \in Paths \ {Root} : Parent[e] = top.dir /\ p \in Below(e) /\ e \in AncestorsAndSelf[p]
      BY <1>3, <2>4, EntryOnTheWay
    <3>2. tree[p] # None /\ Dir # None /\ p \in Paths
      BY <1>10, EntriesAssumption DEF Due, Below
    <3>3. tree[e] # None
      BY <1>3, <3>1, <3>2, AllDirs
    <3>4. Ahead(n, p)'
      BY <1>6, <1>8, <3>1, <3>3 DEF Ahead, Below
    <3>5. n \in 1 .. Len(stack')
      BY <1>3, <1>8
    <3> QED BY <3>4, <3>5 DEF Covered
  <2>5. top.dir \in errors' \/ listing_works
    BY DEF restore_list
  <2> QED BY <2>1, <2>2, <2>3, <2>4, <2>5
<1> QED BY <1>1, <1>4, <1>9, <1>10, PassedRestore

LEMMA EntryRestore ==
    ASSUME TreesInv, StackInv, KeptInv, RestoreInv, NEW e \in Paths, ~walk.dry_run,
           restore_skip(e) \/ restore_directory(e) \/ restore_file(e)
    PROVE  RestoreInv'
<1>1. /\ status = "walking" /\ walk.kind = "restore" /\ ~top.new /\ e \in top.todo /\ e \in Paths \ {Root} /\ Parent[e] = top.dir
      /\ UNCHANGED <<kept, walk, changed>>
  BY RestoringFacts DEF restore_skip, restore_directory, restore_file
<1>2. errors \subseteq errors' /\ errors' \subseteq Paths
  BY <1>1, EntryStackInv DEF StackInv
<1>3. /\ walk.source \in Sources /\ tree \in Tree /\ tree \in [Paths -> Entries] /\ walk.root \in Paths /\ top.dir \in Paths
      /\ Len(stack) \in Nat \ {0} /\ top = stack[Len(stack)] /\ top.seen \in Listing /\ FrameOK(Len(stack))
  BY <1>1, TopFacts, TreeFacts DEF KeptInv, tree, Tree
<1>4. e \in Below(walk.root) /\ e # walk.root
  BY <1>1, <1>3, EntryBelow DEF FrameOK
<1>5. e \in errors' => \A p \in Below(e) : Excused(p)'
  BY <1>1 DEF Excused, Below
<1>6. CASE restore_skip(e)
  <2>1. should_skip(e) /\ stack' = without(e) /\ UNCHANGED <<device, status>>
    BY <1>6 DEF restore_skip
  <2>2. ASSUME NEW p \in Below(e), Due(p) PROVE FALSE
    <3>1. e \in Inside(p) \ {walk.root}
      BY <1>4 DEF Inside, Below
    <3> QED BY <2>1, <2>2, <3>1 DEF Due
  <2> QED BY <1>1, <1>2, <2>1, <2>2, WithoutRestore
<1>7. CASE restore_directory(e)
  <2>1. tree[e] = Dir /\ UNCHANGED status
    BY <1>7 DEF restore_directory
  <2>2. CASE stack' = Append(without(e), Entered(e)) /\ UNCHANGED device
    BY <1>1, <1>2, <2>1, <2>2, PushRestore
  <2>3. ASSUME NEW o \in create_directory(e), Took(o), Reported(o, e),
               stack' = (IF o.failed THEN without(e) ELSE Append(without(e), Entered(e)))
        PROVE  RestoreInv'
    <3>1. \A q \in Paths : q # e => device'[q] = device[q]
      BY <1>1, <2>3, CreateTouches DEF Took, Touches
    <3>2. CASE o.failed
      <4>1. e \in errors' /\ stack' = without(e)
        BY <2>3, <3>2 DEF Reported
      <4> QED BY <1>1, <1>2, <1>5, <2>1, <3>1, <4>1, WithoutRestore
    <3>3. CASE ~o.failed
      BY <1>1, <1>2, <2>1, <2>3, <3>1, <3>3, PushRestore
    <3> QED BY <3>2, <3>3
  <2> QED BY <1>7, <2>2, <2>3 DEF restore_directory
<1>8. CASE restore_file(e)
  <2>1. tree[e] # Dir
    BY <1>8 DEF restore_file
  <2>2. ASSUME NEW p \in Below(e), p # e, Due(p) PROVE FALSE
    <3>1. tree[p] = None
      BY <1>3, <2>1, <2>2, NothingBelow
    <3> QED BY <2>2, <3>1 DEF Due
  <2>3. CASE Die
    BY <2>3 DEF Die, RestoreInv
  <2>4. CASE tree[e] # None /\ already_there(e) /\ stack' = without(e) /\ UNCHANGED <<device, status>>
    <3>1. SeenByRestore(Len(stack))
      BY <1>1, <1>3 DEF RestoreInv
    <3>2. device[e] = top.seen[e] \/ e \in changed
      BY <1>1, <1>3, <2>4, <3>1 DEF SeenByRestore, already_there, existing
    <3>3. tree[e] \in Content
      BY <1>1, <1>3, <2>1, <2>4 DEF Entries
    <3>4. top.seen[e] \in Content
      BY <1>1, <1>3, <2>4 DEF already_there, existing, Listing, IsFile, Entries
    <3>5. tree[e] = top.seen[e]
      BY <2>4, <3>3, <3>4, SizesAssumption DEF already_there
    <3>6. e \in changed => Excused(e)'
      BY <1>1 DEF Excused
    <3>7. \A p \in Below(e) : Due(p) => device'[p] = tree[p] \/ Excused(p)'
      BY <2>2, <2>4, <3>2, <3>5, <3>6
    <3> QED BY <1>1, <1>2, <2>4, <3>7, WithoutRestore
  <2>5. ASSUME tree[e] # None, NEW o \in upload(e, tree[e]), Took(o), Reported(o, e), stack' = without(e), UNCHANGED status
        PROVE  RestoreInv'
    <3>1. tree[e] \in Content
      BY <1>1, <1>3, <2>1, <2>5 DEF Entries
    <3>2. (\A q \in Paths : q # e => device'[q] = device[q]) /\ (~o.failed => device'[e] = tree[e])
      BY <1>1, <2>5, <3>1, UploadTouches DEF Took, Touches
    <3>3. o.failed => e \in errors'
      BY <2>5 DEF Reported
    <3>4. \A p \in Below(e) : Due(p) => device'[p] = tree[p] \/ Excused(p)'
      BY <1>5, <2>2, <3>2, <3>3
    <3> QED BY <1>1, <1>2, <2>5, <3>2, <3>4, WithoutRestore
  <2> QED BY <1>8, <2>3, <2>4, <2>5 DEF restore_file
<1> QED BY <1>6, <1>7, <1>8

LEMMA LeaveRestore ==
    ASSUME TreesInv, StackInv, RestoreInv, leave_directory, walk.kind = "restore", ~walk.dry_run
    PROVE  RestoreInv'
<1>1. /\ status = "walking" /\ UNCHANGED <<device, kept, walk, errors, changed>> /\ Leave(popped)
      /\ ~top.new /\ top.todo = {}
  BY DEF leave_directory
<1>2. /\ Len(stack) \in Nat \ {0} /\ top = stack[Len(stack)] /\ errors \subseteq Paths
  BY <1>1, TopFacts DEF StackInv
<1>3. Len(stack') = Len(stack) - 1 /\ Beneath
  BY <1>1, <1>2, PopStack
<1>4. ASSUME NEW i \in 1 .. Len(stack') PROVE SeenByRestore(i)'
  <2>1. i \in 1 .. Len(stack) /\ stack'[i] = stack[i] /\ \A j \in 1 .. i - 1 : stack'[j] = stack[j]
    BY <1>2, <1>3 DEF Beneath
  <2>2. SeenByRestore(i)
    BY <1>1, <2>1 DEF RestoreInv
  <2> QED BY <1>1, <2>1, <2>2 DEF SeenByRestore, tree
<1>5. \A p : ~Ahead(Len(stack), p)
  BY <1>1, <1>2 DEF Ahead
<1>6. \A p : Covered(p) => Covered(p)'
  BY <1>1, <1>2, <1>3, <1>5, BeneathCovers
<1> QED BY <1>1, <1>4, <1>6, PassedRestore

LEMMA StepRestore ==
    ASSUME TreesInv, StackInv, KeptInv, RestoreInv, Step
    PROVE  RestoreInv'
<1>1. CASE walk.kind # "restore" \/ walk.dry_run
  <2>1. walk' = walk
    BY DEF Step, ensure_device_path, backup_list, restore_list, remove_list, leave_directory,
           backup_directory, backup_file, restore_skip, restore_directory, restore_file, remove_entry
  <2> QED BY <1>1, <2>1 DEF RestoreInv
<1>2. CASE walk.kind = "restore" /\ ~walk.dry_run
  <2>1. ~backup_list /\ ~remove_list /\ \A e \in Paths : ~backup_directory(e) /\ ~backup_file(e) /\ ~remove_entry(e)
    BY <1>2, HandlingFacts DEF backup_list, remove_list, backup_directory, backup_file, remove_entry, Walking
  <2> QED BY <1>2, <2>1, EnsureRestore, ListRestore, EntryRestore, LeaveRestore DEF Step
<1> QED BY <1>1, <1>2

(* A restore that has ended has put back what it did not report            *)
(* (restore.py:80-154), whatever a sender adds to the tree meanwhile.      *)
THEOREM RestoreIsReported == OneWriter => (MirrorSpec => []RestoredOrReported)
<1> SUFFICES ASSUME OneWriter PROVE MirrorSpec => []RestoredOrReported
  OBVIOUS
<1>1. MirrorInit => RestoreInv
  BY DEF MirrorInit, Init, RestoreInv
<1>2. TreesInv /\ StackInv /\ ArchiveInv /\ KeptInv /\ RestoreInv /\ [MirrorNext]_allVars => KeptInv' /\ RestoreInv'
  <2> SUFFICES ASSUME TreesInv, StackInv, ArchiveInv, KeptInv, RestoreInv, [MirrorNext]_allVars PROVE RestoreInv'
    BY NextKept
  <2>1. CASE Killed /\ Die
    BY <2>1 DEF Die, RestoreInv
  <2> QED BY <2>1, StepCases, OthersRestore, BeginRestore, StepRestore
<1>3. StackInv /\ RestoreInv => RestoredOrReported
  <2> SUFFICES ASSUME StackInv, RestoreInv, Ended("restore"), ~walk.dry_run, NEW p \in Below(walk.root), Due(p)
               PROVE  device[p] = tree[p] \/ Excused(p)
    BY DEF RestoredOrReported, Due
  <2>1. stack = <<>>
    BY DEF StackInv, Ended
  <2>2. ~Covered(p)
    BY <2>1 DEF Covered
  <2> QED BY <2>2 DEF RestoreInv, Ended
<1> QED BY <1>1, <1>2, <1>3, WalksSafe, ArchiveSafe, InitKeptInv, PTL DEF MirrorSpec
=============================================================================
