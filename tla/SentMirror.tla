----------------------------- MODULE SentMirror -----------------------------
(***************************************************************************)
(* Sending files to the device and archiving them on the Mac               *)
(* (jornada/sendmirror.py, `put' and `install' of cli.py, the app's        *)
(* Transfers with SendMirror.swift), next to the commands of TreeCopy,     *)
(* which may restore from the archive and meet a file half sent.           *)
(*                                                                         *)
(* The mirror tree holds the version sent last; older ones are renamed to  *)
(* a sibling with a time stamp, which restore leaves out.  The command     *)
(* line and the app write the same tree without a lock.                    *)
(***************************************************************************)
EXTENDS TreeCopy

CONSTANTS
    Senders,    \* the processes that may send: the command line, the app
    SendPaths,  \* where files are sent to
    Stamps,     \* the seconds a time stamp may name (clocks are set back, too)
    InitArchive  \* the archived versions at the start

ASSUME SendAssumption == SendPaths \subseteq Paths \ {Root} /\ IsFiniteSet(InitArchive)

VARIABLES
    send,     \* each sender's file under way: [at, path, version, install, name]
    archive,  \* the renamed copies, by path, stamp and counter
    manifest  \* sent-manifest.jsonl: the payloads recorded

mirrorVars == <<send, archive, manifest>>
allVars == <<treeVars, mirrorVars>>

mirror == kept["mirror"]
Named(archived) == {a.name : a \in archived}

MirrorInit ==
    /\ Init
    /\ send = [x \in Senders |-> None]
    /\ archive = InitArchive
    /\ manifest = {}

Go(x, place) == send' = [send EXCEPT ![x].at = place]
Stop(x) == send' = [send EXCEPT ![x] = None]
OwnFault == faults < MaxFaults /\ faults' = faults + 1
Sends(x, place) == send[x] # None /\ send[x].at = place

(* CREATE_ALWAYS empties the file; nobody else can open it until the handle is
   closed. *)
open_upload(x, p, v, install) ==
    /\ send[x] = None /\ events < MaxEvents /\ events' = events + 1
    /\ device[Parent[p]] = Dir /\ device[p] # Dir /\ p \notin locked
    /\ device' = [device EXCEPT ![p] = Cut(v)] /\ changed' = changed \cup {p}
    /\ locked' = locked \cup {p}
    /\ send' = [send EXCEPT ![x] = [at |-> "upload", path |-> p, version |-> v, install |-> install, name |-> None]]
    /\ UNCHANGED <<kept, job, faults, archive, manifest>>

close_upload(x) ==
    /\ Sends(x, "upload")
    /\ LET s == send[x] IN
       /\ locked' = locked \ {s.path}
       /\ \/ /\ device' = [device EXCEPT ![s.path] = File(s.version)] /\ changed' = changed \cup {s.path}
             /\ Go(x, IF s.install THEN "launch" ELSE "compare") /\ UNCHANGED faults
          \/ OwnFault /\ Stop(x) /\ UNCHANGED <<device, changed>>
    /\ UNCHANGED <<kept, job, events, archive, manifest>>

(* cmd_install mirrors what it sent only when the installer could be started. *)
create_process(x) ==
    /\ Sends(x, "launch")
    /\ \/ Go(x, "compare") /\ UNCHANGED faults
       \/ Stop(x) /\ OwnFault
    /\ UNCHANGED <<device, kept, job, changed, locked, events, archive, manifest>>

-----------------------------------------------------------------------------
(* mirror_sent *)

blocked(p) == mirror[p] = Dir \/ mkdirs_raises(mirror, Parent[p])  \* mkdir or read_bytes raises
(* Mutant: an archived version of the same second is overwritten. *)
free_name_First(p, s) == [path |-> p, stamp |-> s, n |-> 0]
free_name(p, s) ==
    LET taken == {a.name.n : a \in {b \in archive : b.name.path = p /\ b.name.stamp = s}}
        free == {n \in 0 .. Cardinality(taken) : n \notin taken}
    IN  [path |-> p, stamp |-> s, n |-> CHOOSE n \in free : \A m \in free : n <= m]

(* Mutant: a copy in the mirror is not compared with what was sent. *)
unchanged_ByName(x) == IsFile(mirror[send[x].path])
unchanged(x) == mirror[send[x].path] = File(send[x].version)

compare(x) ==
    /\ Sends(x, "compare")
    /\ LET p == send[x].path IN
       /\ kept' = (IF blocked(p) THEN kept ELSE [kept EXCEPT !["mirror"] = mkdirs(@, Parent[p])])
       /\ changed' = changed \cup {q \in Paths : mirror'[q] # mirror[q]}
       /\ \/ blocked(p) /\ Stop(x)
          \/ ~blocked(p) /\ mirror[p] = None /\ Go(x, "write")
          \/ unchanged(x) /\ Go(x, "append")
          \/ /\ IsFile(mirror[p]) /\ ~unchanged(x)
             /\ \E s \in Stamps : send' = [send EXCEPT ![x].at = "rename", ![x].name = free_name(p, s)]
    /\ UNCHANGED <<device, job, locked, events, faults, archive, manifest>>

rename(x) ==
    /\ Sends(x, "rename")
    /\ changed' = changed \cup {send[x].path}
    /\ LET p == send[x].path IN
       \/ /\ mirror[p] = None /\ Stop(x)  \* another sender was faster: a warning
          /\ UNCHANGED <<kept, archive>>
       \/ /\ mirror[p] # None
          /\ archive' = {a \in archive : a.name # send[x].name} \cup {[name |-> send[x].name, content |-> mirror[p]]}
          /\ kept' = [kept EXCEPT !["mirror"][p] = None]
          /\ Go(x, "write")
    /\ UNCHANGED <<device, job, locked, events, faults, manifest>>

write_bytes(x) ==
    /\ Sends(x, "write")
    /\ changed' = changed \cup {send[x].path}
    /\ LET s == send[x] IN
       \/ /\ kept' = [kept EXCEPT !["mirror"][s.path] = File(s.version)]
          /\ Go(x, "append") /\ UNCHANGED faults
       \/ /\ kept' = [kept EXCEPT !["mirror"][s.path] = Cut(s.version)]
          /\ Stop(x) /\ OwnFault
    /\ UNCHANGED <<device, job, locked, events, archive, manifest>>

append_manifest(x) ==
    /\ Sends(x, "append")
    /\ manifest' = manifest \cup {<<send[x].path, send[x].version>>}
    /\ Stop(x)
    /\ UNCHANGED <<device, kept, job, changed, locked, events, faults, archive>>

SenderKilled(x) ==
    /\ send[x] # None /\ send[x].at \in {"compare", "rename", "write", "append"}
    /\ Stop(x) /\ OwnFault
    /\ UNCHANGED <<device, kept, job, changed, locked, events, archive, manifest>>

SendStep(x) ==
    \/ \E p \in SendPaths, v \in Versions, i \in BOOLEAN : open_upload(x, p, v, i)
    \/ close_upload(x) \/ create_process(x)
    \/ compare(x) \/ rename(x) \/ write_bytes(x) \/ append_manifest(x) \/ SenderKilled(x)

MirrorNext ==
    \/ Next /\ UNCHANGED mirrorVars
    \/ \E x \in Senders : SendStep(x)
MirrorSpec == MirrorInit /\ [][MirrorNext]_allVars

-----------------------------------------------------------------------------
InMirror(p, v) == mirror[p] = File(v) \/ \E a \in archive : a.name.path = p /\ a.content = File(v)

(* No version that was whole in the mirror is ever lost from it: sends of other
   versions, two in one second, interrupted ones and restores only ever add
   (sendmirror.py:6, "Prior versions are never overwritten"). *)
PriorVersionsAreKept ==
    [][\A p \in SendPaths, v \in Versions : InMirror(p, v) => InMirror(p, v)']_allVars

(* Every payload the manifest records is in the mirror, whole. *)
ManifestIsTrue == \A e \in manifest : InMirror(e[1], e[2])
=============================================================================
