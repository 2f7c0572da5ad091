------------------------------- MODULE SyncRun -------------------------------
(***************************************************************************)
(* One sync account over time: run_sync (jornada/sync_cli.py) executed     *)
(* again and again over a device store (jornada/pim/store.py or            *)
(* jornada/pim/filestore.py) and a modern store (jornada/sync/notes/...),  *)
(* while the user edits both sides, calls fail or lose their answer, the   *)
(* process dies, and the state file is only replaced at the end of a run.  *)
(*                                                                         *)
(* One store call is one step; between two of them anything the constants  *)
(* allow may happen.                                                       *)
(***************************************************************************)
EXTENDS SyncEngine, Sequences

CONSTANTS
    LocalForm,   \* [id][record]: what the device lists after storing it (cp1252, no folder, trimmed)
    RemoteForm,  \* [record]: what the modern store lists after storing it (folder, tag, reformatted)
    TornForm,    \* [id][record]: what the device lists after an upload of it was cut short
    ReadOnly,    \* records the device codec refuses to overwrite (recurring appointments)
    Folder,      \* TRUE: DeviceFolderStore (files), FALSE: DeviceStore (database)
    FileNames,   \* [record]: the names the folder tries for its file, in order: title, title-2, ...
    Reuse,       \* TRUE: a deleted id may come back, FALSE: only a file name may (no oid, no uuid)
    InitLocal, InitRemote,  \* contents of the stores before the first run
    Runs,        \* command lines `jornada sync run' is called with
    Creates,     \* records the user may write on either side
    Edits,       \* pairs: the user may turn the first record into the second
    Deletable,   \* ids of the records the user may delete
    Unreadable,  \* a record may become one that list() skips (and readable again)
    Interfere,   \* the user works on either side while a run is under way
    Faults,      \* subset of {"fail", "lost", "torn", "crash", "state"}
    MaxUserOps, MaxFaults   \* bounds on user steps and on faults

ASSUME FormsAssumption ==
    /\ LocalForm \in [LocalIds -> [Values -> Values]] /\ TornForm \in [LocalIds -> [Values -> Values]]
    /\ \A i \in LocalIds, v \in Values : LocalForm[i][LocalForm[i][v]] = LocalForm[i][v]
    /\ RemoteForm \in [Values -> Values] /\ \A v \in Values : RemoteForm[RemoteForm[v]] = RemoteForm[v]
ASSUME NamesAssumption == FileNames \in [Values -> Seq(LocalIds)]
ASSUME StoresAssumption ==
    /\ InitLocal \subseteq Listings(LocalIds) /\ InitRemote \subseteq Listings(RemoteIds)
    /\ ReadOnly \subseteq Values /\ Creates \subseteq Values /\ Edits \subseteq Values \X Values
    /\ Runs \subseteq Options
ASSUME SwitchesAssumption ==
    /\ {Folder, Reuse, Unreadable, Interfere} \subseteq BOOLEAN
    /\ MaxUserOps \in Nat /\ MaxFaults \in Nat

VARIABLES
    local, remote,  \* contents of the two stores
    hidden,         \* ids of stored records that list() skips
    saved,          \* links in the state file
    phase,          \* where run_sync is: "idle", "listed", "apply", "relisted"
    args,           \* options of the run
    localItems,     \* the device listing in memory
    raw,            \* DeviceStore._raw, or the file names in DeviceFolderStore._names
    links,          \* links in memory
    pending,        \* actions of the plan not yet applied
    touched,        \* Result.touched_local and touched_remote
    errors,         \* Result.errors is not empty
    snapTaken,      \* DeviceStore._snapshot_taken
    snapshots,      \* records in the snapshot files, over all sessions
    carried,        \* history: <<id, record>>: this content of this id is known to the other side
    used,           \* history: ids ever handed out (only kept when ids are not reused)
    userGone,       \* history: ids the user deleted
    quiet,          \* history: the user has not interfered since the run began
    settled,        \* history: a clean two-way run ended and the user did nothing since
    userOps, faults \* how much of the bounds is used up

stores == <<local, remote, hidden, used, userGone, carried>>
memory == <<args, localItems, raw, links, pending, touched, errors>>
archive == <<snapTaken, snapshots>>
bounds == <<userOps, faults>>
vars == <<stores, saved, phase, memory, archive, quiet, settled, bounds>>

Ids == LocalIds \cup RemoteIds
NoItems(S) == [i \in S |-> None]

(* Mutant: list() leaves out the records the store cannot overwrite.       *)
Listing_SkipsReadOnly(s) == [i \in DOMAIN s |-> IF i \in hidden \/ s[i] \in ReadOnly THEN None ELSE s[i]]

Listing(s) == [i \in DOMAIN s |-> IF i \in hidden THEN None ELSE s[i]]

DefaultOptions == [direction |-> "both", prefer |-> "remote", propagate_deletes |-> TRUE, dry_run |-> FALSE]

Init ==
    /\ local \in InitLocal /\ remote \in InitRemote
    /\ hidden = {} /\ saved = {} /\ phase = "idle" /\ args = DefaultOptions
    /\ localItems = NoItems(LocalIds) /\ raw = NoItems(LocalIds)
    /\ links = {} /\ pending = {} /\ touched = {} /\ errors = FALSE
    /\ snapTaken = FALSE /\ snapshots = {}
    /\ carried = {} /\ used = Present(local) \cup Present(remote) /\ userGone = {}
    /\ quiet = TRUE /\ settled = FALSE /\ userOps = 0 /\ faults = 0

-------------------------------------------------------------------------------
(* The user.                                                               *)
UserStep ==
    /\ phase = "idle" \/ Interfere
    /\ userOps < MaxUserOps
    /\ userOps' = userOps + 1
    /\ quiet' = (quiet /\ phase = "idle")
    /\ settled' = FALSE
    /\ UNCHANGED <<saved, phase, memory, archive, faults, carried>>

HandOut(i) == used' = IF Reuse THEN used ELSE used \cup {i}
MayHandOut(i) == Reuse \/ (Folder /\ i \in LocalIds) \/ i \notin used

UserPutsLocal(i, v) ==
    /\ local' = [local EXCEPT ![i] = LocalForm[i][v]] /\ UNCHANGED remote
    /\ hidden' = hidden \ {i} /\ userGone' = userGone \ {i} /\ HandOut(i)

UserPutsRemote(i, v) ==
    /\ remote' = [remote EXCEPT ![i] = RemoteForm[v]] /\ UNCHANGED local
    /\ hidden' = hidden \ {i} /\ userGone' = userGone \ {i} /\ HandOut(i)

UserCreates ==
    /\ UserStep
    /\ \E v \in Creates :
         \/ \E i \in LocalIds : local[i] = None /\ MayHandOut(i) /\ UserPutsLocal(i, v)
         \/ \E i \in RemoteIds : remote[i] = None /\ MayHandOut(i) /\ UserPutsRemote(i, v)

UserEdits ==
    /\ UserStep
    /\ \E e \in Edits :
         \/ \E i \in LocalIds : local[i] = e[1] /\ UserPutsLocal(i, e[2])
         \/ \E i \in RemoteIds : remote[i] = e[1] /\ UserPutsRemote(i, e[2])

UserDeletesRecord ==
    /\ UserStep
    /\ \E i \in Deletable \cap (Present(local) \cup Present(remote)) :
         /\ local' = [j \in LocalIds |-> IF j = i THEN None ELSE local[j]]
         /\ remote' = [j \in RemoteIds |-> IF j = i THEN None ELSE remote[j]]
         /\ hidden' = hidden \ {i} /\ userGone' = userGone \cup {i}
    /\ UNCHANGED used

(* A record becomes one that list() skips, or readable again: it loses the *)
(* account's tag, is locked, encrypted or cannot be decoded.               *)
ReadabilityChanges ==
    /\ Unreadable /\ UserStep
    /\ \E i \in Present(local) \cup Present(remote) :
         hidden' = IF i \in hidden THEN hidden \ {i} ELSE hidden \cup {i}
    /\ UNCHANGED <<local, remote, used, userGone>>

User == UserCreates \/ UserEdits \/ UserDeletesRecord \/ ReadabilityChanges

Fault(f) == f \in Faults /\ faults < MaxFaults /\ faults' = faults + 1

-------------------------------------------------------------------------------
(* run_sync up to the plan: load_state, local.list(), remote.list(), plan. *)
Start(o) ==
    /\ phase = "idle" /\ phase' = "listed"
    /\ args' = o /\ links' = saved
    /\ localItems' = Listing(local) /\ raw' = local
    /\ UNCHANGED <<stores, saved, pending, touched, errors, archive, quiet, settled, bounds>>

Plan ==
    /\ phase = "listed" /\ ~args.dry_run /\ phase' = "apply"
    /\ LET remoteItems == Listing(remote)
       IN \E P \in Pairings(localItems, remoteItems, links) :
            pending' = plan(localItems, remoteItems, links, P, args)
    /\ UNCHANGED <<stores, saved, args, localItems, raw, links, touched, errors, archive, quiet, settled, bounds>>

(* The process is over: what it held in memory is gone.                    *)
Exit ==
    /\ phase' = "idle" /\ args' = DefaultOptions
    /\ localItems' = NoItems(LocalIds) /\ raw' = NoItems(LocalIds)
    /\ links' = {} /\ pending' = {} /\ touched' = {} /\ errors' = FALSE
    /\ snapTaken' = FALSE /\ quiet' = TRUE
    /\ UNCHANGED <<stores, snapshots, userOps>>

DryRun ==
    /\ phase = "listed" /\ args.dry_run
    /\ Exit
    /\ UNCHANGED <<saved, settled, faults>>

-------------------------------------------------------------------------------
(* apply: the store calls.                                                 *)

(* Known links first, then new device records, then new remote records; in *)
(* a pair the link is recorded before its conflict is resolved.            *)
Ready(a) ==
    /\ phase = "apply" /\ a \in pending
    /\ \A b \in pending :
         /\ a.stage <= b.stage
         /\ b.kind = "link" /\ b.l = a.l /\ b.r = a.r => b = a

(* One JSON snapshot of the database per session, before its first write;  *)
(* it is written from the records in memory unless there are none.         *)
ensure_snapshot ==
    IF Folder \/ snapTaken THEN UNCHANGED archive
    ELSE /\ snapTaken' = TRUE
         /\ LET s == IF Present(raw) = {} THEN local ELSE raw
            IN snapshots' = snapshots \cup {s[i] : i \in Present(s)}

(* The content v of action a is now known on both sides, under id i too,   *)
(* where it is stored as w.                                                *)
Carry(a, i, v, w) ==
    carried' = carried \cup {x \in {<<a.l, v>>, <<a.r, v>>, <<i, v>>, <<i, w>>} : x[1] # None}

DeviceStores(i, v) ==
    /\ local' = [local EXCEPT ![i] = v] /\ UNCHANGED remote
    /\ hidden' = hidden \ {i} /\ userGone' = userGone \ {i} /\ HandOut(i)

RemoteStores(i, v) ==
    /\ remote' = [remote EXCEPT ![i] = v] /\ UNCHANGED local
    /\ hidden' = hidden \ {i} /\ userGone' = userGone \ {i} /\ HandOut(i)

(* The first of the names that is not taken.                               *)
unique_filename(names, i, taken) ==
    \E n \in DOMAIN names : names[n] = i /\ i \notin taken /\ \A m \in 1..n-1 : names[m] \in taken

(* The database hands out an oid; the folder store takes a file name that  *)
(* was not there when it listed the folder, and overwrites whatever is.    *)
FreeLocal(v, i) ==
    IF Folder THEN unique_filename(FileNames[v], i, Present(raw)) ELSE local[i] = None /\ MayHandOut(i)
FreeRemote(i) == remote[i] = None /\ MayHandOut(i)

device_create(a, i) ==
    /\ a.kind = "create_local" /\ i \in LocalIds /\ FreeLocal(a.rec, i)
    /\ ensure_snapshot
    /\ DeviceStores(i, LocalForm[i][a.rec]) /\ Carry(a, i, a.rec, LocalForm[i][a.rec])

refuses_update(a) == ~Folder /\ raw[a.l] # None /\ raw[a.l] \in ReadOnly

(* Mutant: update() writes without making sure of a snapshot.              *)
device_update_NoSnapshot(a, i) ==
    /\ a.kind = "update_local" /\ i = a.l
    /\ ~refuses_update(a) /\ (Folder \/ local[i] # None)
    /\ DeviceStores(i, LocalForm[i][a.rec]) /\ Carry(a, i, a.rec, LocalForm[i][a.rec])
    /\ UNCHANGED archive

(* Writing to an oid that is gone fails; uploading a file creates it.      *)
device_update(a, i) ==
    /\ a.kind = "update_local" /\ i = a.l
    /\ ~refuses_update(a) /\ (Folder \/ local[i] # None)
    /\ ensure_snapshot
    /\ DeviceStores(i, LocalForm[i][a.rec]) /\ Carry(a, i, a.rec, LocalForm[i][a.rec])

device_delete(a, i) ==
    /\ a.kind = "delete_local" /\ i = a.l /\ local[i] # None
    /\ ensure_snapshot
    /\ local' = [local EXCEPT ![i] = None] /\ hidden' = hidden \ {i}
    /\ UNCHANGED <<remote, used, userGone, carried>>

remote_create(a, i) ==
    /\ a.kind = "create_remote" /\ i \in RemoteIds /\ FreeRemote(i)
    /\ RemoteStores(i, RemoteForm[a.rec]) /\ Carry(a, i, a.rec, RemoteForm[a.rec])
    /\ UNCHANGED archive

remote_update(a, i) ==
    /\ a.kind = "update_remote" /\ i = a.r /\ remote[i] # None
    /\ RemoteStores(i, RemoteForm[a.rec]) /\ Carry(a, i, a.rec, RemoteForm[a.rec])
    /\ UNCHANGED archive

(* Deleting a note that is already gone is no error for Apple Notes.       *)
remote_delete(a, i) ==
    /\ a.kind = "delete_remote" /\ i = a.r
    /\ remote' = [remote EXCEPT ![i] = None] /\ hidden' = hidden \ {i}
    /\ UNCHANGED <<local, used, userGone, carried, archive>>

StoreCall(a, i) ==
    \/ device_create(a, i) \/ device_update(a, i) \/ device_delete(a, i)
    \/ remote_create(a, i) \/ remote_update(a, i) \/ remote_delete(a, i)

(* link, unlink and skip call no store.  Linking makes the device record   *)
(* known under the remote id, and the other way round if they are equal.   *)
NoStoreCall(a, i) ==
    /\ a.kind \notin StoreKinds /\ i = None
    /\ carried' = carried \cup
         {x \in {<<a.r, a.rec>>, <<a.l, a.rec>>} :
            a.kind = "link" /\ (x[1] = a.r \/ remote[a.r] = a.rec)}
    /\ UNCHANGED <<local, remote, hidden, used, userGone, archive>>

(* What the device store remembers of its own creates and deletes.         *)
remember(a, i) ==
    raw' = CASE a.kind = "create_local" -> [raw EXCEPT ![i] = LocalForm[i][a.rec]]
             [] a.kind = "delete_local" -> [raw EXCEPT ![i] = None]
             [] a.kind \notin {"create_local", "delete_local"} -> raw

Done(a) ==
    /\ pending' = pending \ {a}
    /\ UNCHANGED <<saved, phase, args, localItems, quiet, settled, userOps>>

(* One action applied: the store call returned and its link is recorded.   *)
Apply(a) ==
    /\ Ready(a) /\ Done(a)
    /\ \E i \in Maybe(Ids) :
         /\ StoreCall(a, i) \/ NoStoreCall(a, i)
         /\ links' = apply_one(a, links, i)
         /\ touched' = touched \cup touch(a, i)
         /\ remember(a, i)
    /\ UNCHANGED <<errors, faults>>

(* The action ends in the except clause of apply: its link stays as it is. *)
Error(a) ==
    /\ Ready(a) /\ Done(a) /\ errors' = TRUE
    /\ UNCHANGED <<links, touched, raw>>

(* The store refuses: a recurring record, a record that is gone, no room.  *)
Refuse(a) ==
    /\ Error(a) /\ UNCHANGED <<stores, faults>>
    /\ \/ a.kind = "update_local" /\ refuses_update(a) /\ UNCHANGED archive
       \/ a.kind = "update_local" /\ ~refuses_update(a) /\ ~Folder /\ local[a.l] = None /\ ensure_snapshot
       \/ a.kind = "delete_local" /\ local[a.l] = None /\ ensure_snapshot
       \/ a.kind \in {"update_remote", "delete_remote"} /\ remote[a.r] = None /\ UNCHANGED archive
       \/ a.kind = "create_local" /\ (\A i \in LocalIds : ~FreeLocal(a.rec, i)) /\ ensure_snapshot
       \/ a.kind = "create_remote" /\ (\A i \in RemoteIds : ~FreeRemote(i)) /\ UNCHANGED archive

(* A store call fails without effect, before or after the snapshot.        *)
Fail(a) ==
    /\ Fault("fail") /\ Error(a) /\ a.kind \in StoreKinds /\ UNCHANGED stores
    /\ UNCHANGED archive \/ (a.kind \in {"create_local", "update_local", "delete_local"} /\ ensure_snapshot)

(* A store call takes effect but its answer is lost or comes too late.     *)
LoseAnswer(a) ==
    /\ Fault("lost") /\ Error(a)
    /\ \E i \in Maybe(Ids) : StoreCall(a, i)

(* An upload is cut short: the file has been truncated and holds a part.   *)
CutUpload(a) ==
    /\ Fault("torn") /\ Error(a) /\ Folder
    /\ \E i \in LocalIds :
         /\ \/ a.kind = "create_local" /\ FreeLocal(a.rec, i)
            \/ a.kind = "update_local" /\ i = a.l
         /\ DeviceStores(i, TornForm[i][a.rec])
    /\ UNCHANGED <<carried, archive>>

-------------------------------------------------------------------------------
(* run_sync after apply: list both sides again if something was written,   *)
(* record what they hold, and only then replace the state file.            *)
Relist ==
    /\ phase = "apply" /\ pending = {} /\ touched # {} /\ phase' = "relisted"
    /\ localItems' = Listing(local) /\ raw' = local
    /\ UNCHANGED <<stores, saved, args, links, pending, touched, errors, archive, quiet, settled, bounds>>

Complete(o) == o.direction = "both" /\ o.propagate_deletes /\ ~o.dry_run
Settles == quiet /\ ~errors /\ Complete(args)

SaveRefreshed ==
    /\ phase = "relisted"
    /\ saved' = refresh_hashes(links, localItems, Listing(remote), touched)
    /\ settled' = (settled \/ Settles)
    /\ Exit /\ UNCHANGED faults

SaveUntouched ==
    /\ phase = "apply" /\ pending = {} /\ touched = {}
    /\ saved' = links
    /\ settled' = (settled \/ Settles)
    /\ Exit /\ UNCHANGED faults

(* The process dies, or an error outside apply ends it: nothing is saved.  *)
Crash ==
    /\ Fault("crash") /\ phase # "idle"
    /\ Exit /\ UNCHANGED <<saved, settled>>

(* The state file is missing or unreadable: load_state starts from nothing. *)
StateLost ==
    /\ Fault("state") /\ phase = "idle" /\ saved # {} /\ saved' = {}
    /\ settled' = FALSE
    /\ UNCHANGED <<stores, phase, memory, archive, quiet, userOps>>

Sync ==
    \/ \E o \in Runs : Start(o)
    \/ Plan \/ DryRun
    \/ \E a \in pending : Apply(a) \/ Refuse(a)
    \/ Relist \/ SaveRefreshed \/ SaveUntouched

Trouble ==
    \/ \E a \in pending : Fail(a) \/ LoseAnswer(a) \/ CutUpload(a)
    \/ Crash \/ StateLost

Next == User \/ Sync \/ Trouble

Spec == Init /\ [][Next]_vars

(* Fairness: a run that has begun goes on (its calls return or fail), and  *)
(* the user, or the app, keeps starting complete runs beside any others.   *)
Progress ==
    \/ Plan \/ Relist \/ SaveRefreshed \/ SaveUntouched
    \/ \E a \in pending : Apply(a) \/ Refuse(a)

LiveSpec == Spec /\ WF_vars(Progress) /\ SF_vars(\E o \in Runs : Complete(o) /\ Start(o))

-------------------------------------------------------------------------------
(* Properties.                                                             *)

(* Every variable stays within its type: in particular a planned action    *)
(* carries the ids and the record that _apply_one needs for its kind.      *)
TypeOK ==
    /\ local \in Listings(LocalIds) /\ remote \in Listings(RemoteIds)
    /\ hidden \subseteq Ids /\ used \subseteq Ids /\ userGone \subseteq Ids
    /\ carried \subseteq Ids \X Values
    /\ saved \subseteq Link /\ links \subseteq Link
    /\ phase \in {"idle", "listed", "apply", "relisted"} /\ args \in Options
    /\ localItems \in Listings(LocalIds) /\ raw \in Listings(LocalIds)
    /\ pending \subseteq Action /\ \A a \in pending : WellFormed(a)
    /\ touched \subseteq Ids /\ errors \in BOOLEAN
    /\ snapTaken \in BOOLEAN /\ quiet \in BOOLEAN /\ settled \in BOOLEAN
    /\ snapshots \subseteq Values
    /\ userOps \in 0..MaxUserOps /\ faults \in 0..MaxFaults

(* No record is ever linked twice, in memory or in the state file: the     *)
(* engine's replacement of links (SyncState.with_link) keeps them          *)
(* one-to-one through reused ids, failed actions and re-pairing.           *)
OneToOne(ks) == \A x, y \in ks : (x.l = y.l \/ x.r = y.r) => x = y
LinksOneToOne == OneToOne(saved) /\ OneToOne(links)

(* After a two-way run without errors and without interference the next    *)
(* plan is empty, whatever its options: refresh_hashes has recorded what   *)
(* each side really stored, so the sync does not echo its own writes.      *)
SettledPlanIsEmpty ==
    settled /\ phase = "idle" =>
      LET L == Listing(local)
          R == Listing(remote)
      IN \A o \in Options, P \in Pairings(L, R, saved) : plan(L, R, saved, P, o) = {}

(* ... and then every listed record has its counterpart, with the same     *)
(* content up to what the two stores make of it: an earlier failed, torn,  *)
(* lost or crashed run leaves no pair silently out of step.                *)
SameContent(l, x, y) == x = y \/ x = LocalForm[l][y] \/ y = RemoteForm[x]

SettledInStep ==
    settled =>
      LET L == Listing(local)
          R == Listing(remote)
      IN /\ \A l \in Present(L) : \E k \in saved : k.l = l /\ R[k.r] # None /\ SameContent(l, L[l], R[k.r])
         /\ \A r \in Present(R) : \E k \in saved : k.r = r /\ L[k.l] # None

(* A step of the sync, as opposed to one of the user.                      *)
SyncStep == userOps' = userOps

(* Conflicts follow `--prefer remote': a two-way run overwrites a remote   *)
(* record only when the device side has known that very content.           *)
RemoteContentKept ==
    [][\A r \in RemoteIds :
         SyncStep /\ args.prefer = "remote" /\ args.direction = "both"
           /\ remote[r] # None /\ remote'[r] \notin {None, remote[r]}
         => <<r, remote[r]>> \in carried]_vars

(* Conflicts follow `--prefer local': a two-way run overwrites a device    *)
(* record only when the remote side has known that very content.           *)
DeviceContentKept ==
    [][\A l \in LocalIds :
         SyncStep /\ args.prefer = "local" /\ args.direction = "both"
           /\ local[l] # None /\ local'[l] \notin {None, local[l]}
         => <<l, local[l]>> \in carried]_vars

(* The sync deletes a record only because the user deleted its counterpart *)
(* ("deleted on the device", "deleted remotely").                          *)
DeletesFollowTheUser ==
    [][SyncStep =>
         /\ \A r \in RemoteIds : remote[r] # None /\ remote'[r] = None
              => \E k \in links : k.r = r /\ k.l \in userGone
         /\ \A l \in LocalIds : local[l] # None /\ local'[l] = None
              => \E k \in links : k.l = l /\ k.r \in userGone]_vars

(* No device content is overwritten or deleted by the sync before a        *)
(* snapshot holds it: "a sync must never be the only copy of a record".    *)
DeviceCopyInSnapshot ==
    [][\A l \in LocalIds :
         SyncStep /\ local[l] # None /\ local'[l] # local[l] => local[l] \in snapshots']_vars

(* Records are paired by their natural key, so that neither a first sync   *)
(* nor a repeated, crashed or unanswered one duplicates a record.          *)
UniqueKeys(s) == \A i, j \in Present(s) : match_key[s[i]] = match_key[s[j]] => i = j
NoDuplicates == UniqueKeys(local) /\ UniqueKeys(remote)

(* What an interrupted upload left on the device is repaired by the next   *)
(* clean run and is not left, or spread, as if the user had written it.    *)
TornValues ==
    LET torn == {TornForm[i][v] : i \in LocalIds, v \in Values}
    IN torn \cup {RemoteForm[v] : v \in torn}
TornIsRepaired ==
    settled => \A i \in Ids : (IF i \in LocalIds THEN local[i] ELSE remote[i]) \notin TornValues

(* Whatever failed, was lost or crashed, runs repeated long enough bring   *)
(* both sides in step for good once the user and the faults are done.      *)
Converges == <>[]settled
-------------------------------------------------------------------------------
(***************************************************************************)
(* What two theorems about folders (SyncRunProofs) take for granted of the *)
(* records.  The first name tried for a file is its title, which is the    *)
(* key; no store and no edit changes it, and the user makes no new record. *)
(***************************************************************************)
Title(v) == FileNames[v][1]

TitlesAreNames ==
    /\ \A v \in Values : FileNames[v] # <<>> /\ Title(RemoteForm[v]) = Title(v)
    /\ \A v, w \in Values : match_key[v] = match_key[w] <=> Title(v) = Title(w)
    /\ \A l \in LocalIds, v \in Values : Title(LocalForm[l][v]) = l /\ Title(TornForm[l][v]) = l
    /\ \A e \in Edits : Title(e[1]) = Title(e[2])
    /\ \A s \in InitLocal : \A l \in Present(s) : Title(s[l]) = l
    /\ \A s \in InitRemote : UniqueKeys(s)
    /\ Creates = {}

(***************************************************************************)
(* No store lists a whole record as what an interrupted upload leaves of   *)
(* one, nor the device a record quite as the modern store does.  An edit   *)
(* is newer than what it replaces: `age' does not depend on the form.  The *)
(* user deletes files only, and every run lets the modern side win.        *)
(***************************************************************************)
TornIsKnown(age) ==
    /\ \A v \in Values : age[v] \in Nat
    /\ \A v \in Values \ TornValues :
         /\ RemoteForm[v] \notin TornValues /\ age[RemoteForm[v]] = age[v]
         /\ \A l \in LocalIds : LocalForm[l][v] \notin TornValues /\ age[LocalForm[l][v]] = age[v]
    /\ \A l \in LocalIds, v \in Values : RemoteForm[LocalForm[l][v]] # LocalForm[l][v] /\ RemoteForm[TornForm[l][v]] # TornForm[l][v]
    /\ \A e \in Edits : e[2] \notin TornValues /\ age[e[1]] < age[e[2]]
    /\ \A s \in InitLocal : \A l \in Present(s) : \E v \in Values \ TornValues : s[l] = LocalForm[l][v]
    /\ \A s \in InitRemote : \A r \in Present(s) : \E v \in Values \ TornValues : s[r] = RemoteForm[v]
    /\ Deletable \subseteq LocalIds
    /\ \A o \in Runs : writes_local(o) /\ o.prefer = "remote"
===============================================================================
