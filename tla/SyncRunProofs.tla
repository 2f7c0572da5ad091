---------------------------- MODULE SyncRunProofs ----------------------------
(***************************************************************************)
(* Theorems about SyncRun, for all ids, records, stores, command lines and *)
(* bounds.                                                                 *)
(***************************************************************************)
EXTENDS SyncRun, TLAPS

-------------------------------------------------------------------------------
(* Lemmas about the operators of SyncEngine.                               *)

(* The actions for one link are well formed.                               *)
LEMMA PlanLinkType ==
    ASSUME NEW L \in Listings(LocalIds), NEW R \in Listings(RemoteIds),
           NEW k \in Link, NEW o \in Options
    PROVE  \A a \in plan_link(k, L, R, o) : a \in Action /\ WellFormed(a)
  BY IdsAssumption DEF plan_link, push, pull, resolve_conflict, Act, Action, WellFormed, Kinds, StoreKinds,
     Link, Listings, Maybe

(* The actions for new records are well formed.                            *)
LEMMA PairNewType ==
    ASSUME NEW L \in Listings(LocalIds), NEW R \in Listings(RemoteIds),
           NEW ks \in SUBSET Link, NEW P \in Pairings(L, R, ks), NEW o \in Options
    PROVE  \A a \in pair_new(L, R, ks, P, o) : a \in Action /\ WellFormed(a)
<1> DEFINE newL == new_local(L, ks)
           newR == new_remote(R, ks)
<1>1. /\ \A l \in newL : l \in LocalIds /\ L[l] \in Values
      /\ \A r \in newR : r \in RemoteIds /\ R[r] \in Values
      /\ \A p \in P : p[1] \in newL /\ p[2] \in newR
  BY DEF new_local, new_remote, Present, Listings, Maybe, Pairings
<1>2. ASSUME NEW p \in P
      PROVE  \A a \in pair(p[1], p[2], L[p[1]], R[p[2]], o) : a \in Action /\ WellFormed(a)
  BY <1>1 DEF pair, resolve_conflict, Act, Action, WellFormed, Kinds, StoreKinds, Maybe
<1>3. ASSUME NEW l \in newL
      PROVE  unpaired_local(l, L[l], o) \in Action /\ WellFormed(unpaired_local(l, L[l], o))
  BY <1>1 DEF unpaired_local, Act, Action, WellFormed, Kinds, StoreKinds, Maybe
<1>4. ASSUME NEW r \in newR
      PROVE  unpaired_remote(r, R[r], o) \in Action /\ WellFormed(unpaired_remote(r, R[r], o))
  BY <1>1 DEF unpaired_remote, Act, Action, WellFormed, Kinds, StoreKinds, Maybe
<1>5. SUFFICES ASSUME NEW a \in pair_new(L, R, ks, P, o)
               PROVE  a \in Action /\ WellFormed(a)
  OBVIOUS
<1>6. \/ \E p \in P : a \in pair(p[1], p[2], L[p[1]], R[p[2]], o)
      \/ \E l \in newL : a = unpaired_local(l, L[l], o)
      \/ \E r \in newR : a = unpaired_remote(r, R[r], o)
  <2> DEFINE paired(p) == pair(p[1], p[2], L[p[1]], R[p[2]], o)
             fromL(l) == unpaired_local(l, L[l], o)
             fromR(r) == unpaired_remote(r, R[r], o)
             Paired == UNION {paired(p) : p \in P}
             FromL == {fromL(l) : l \in newL \ {p[1] : p \in P}}
             FromR == {fromR(r) : r \in newR \ {p[2] : p \in P}}
  <2>1. pair_new(L, R, ks, P, o) = Paired \cup FromL \cup FromR
    BY DEF pair_new
  <2> HIDE DEF paired, fromL, fromR, newL, newR
  <2>2. /\ a \in Paired => \E p \in P : a \in paired(p)
        /\ a \in FromL => \E l \in newL : a = fromL(l)
        /\ a \in FromR => \E r \in newR : a = fromR(r)
    OBVIOUS
  <2> HIDE DEF Paired, FromL, FromR
  <2>3. QED
    BY <1>5, <2>1, <2>2 DEF paired, fromL, fromR
<1>7. QED
  BY <1>2, <1>3, <1>4, <1>6

(* So is the whole plan.                                                   *)
LEMMA PlanType ==
    ASSUME NEW L \in Listings(LocalIds), NEW R \in Listings(RemoteIds),
           NEW ks \in SUBSET Link, NEW P \in Pairings(L, R, ks), NEW o \in Options
    PROVE  \A a \in plan(L, R, ks, P, o) : a \in Action /\ WellFormed(a)
<1> DEFINE forLinks == UNION {plan_link(k, L, R, o) : k \in ks}
<1>1. plan(L, R, ks, P, o) = forLinks \cup pair_new(L, R, ks, P, o)
  BY DEF plan
<1>2. \A a \in forLinks : \E k \in ks : a \in plan_link(k, L, R, o)
  OBVIOUS
<1> HIDE DEF forLinks
<1>3. QED
  BY <1>1, <1>2, PlanLinkType, PairNewType

(* Recording a link keeps the links one-to-one.                            *)
LEMMA WithLinkOneToOne ==
    ASSUME NEW ks \in SUBSET Link, NEW k \in Link, OneToOne(ks)
    PROVE  with_link(ks, k) \in SUBSET Link /\ OneToOne(with_link(ks, k))
  BY DEF with_link, OneToOne

(* Dropping links does too.                                                *)
LEMMA WithoutOneToOne ==
    ASSUME NEW ks \in SUBSET Link, NEW l, NEW r, OneToOne(ks)
    PROVE  without(ks, l, r) \in SUBSET Link /\ OneToOne(without(ks, l, r))
  BY DEF without, OneToOne

(* Refreshing hashes leaves the ids of the links alone.                    *)
LEMMA RefreshOneToOne ==
    ASSUME NEW ks \in SUBSET Link, NEW L \in Listings(LocalIds), NEW R \in Listings(RemoteIds), NEW t,
           OneToOne(ks)
    PROVE  refresh_hashes(ks, L, R, t) \in SUBSET Link /\ OneToOne(refresh_hashes(ks, L, R, t))
<1> DEFINE f(k) == [k EXCEPT !.lh = IF k.l \in t /\ L[k.l] # None THEN L[k.l] ELSE @,
                             !.rh = IF k.r \in t /\ R[k.r] # None THEN R[k.r] ELSE @]
<1>1. ASSUME NEW k \in ks
      PROVE  f(k) \in Link /\ f(k).l = k.l /\ f(k).r = k.r
  BY DEF Link, Listings, Maybe
<1>2. refresh_hashes(ks, L, R, t) = {f(k) : k \in ks}
  BY DEF refresh_hashes
<1> HIDE DEF f
<1>3. QED
  BY <1>1, <1>2 DEF OneToOne

(* A well-formed action turns links into links, and touches ids.           *)
LEMMA ApplyOneType ==
    ASSUME NEW ks \in SUBSET Link, NEW a \in Action, WellFormed(a), NEW i,
           a.kind = "create_local" => i \in LocalIds, a.kind = "create_remote" => i \in RemoteIds,
           OneToOne(ks)
    PROVE  apply_one(a, ks, i) \in SUBSET Link /\ OneToOne(apply_one(a, ks, i))
<1>1. CASE a.kind \in {"create_local", "create_remote", "update_local", "update_remote", "link"}
  <2>1. PICK k \in Link : apply_one(a, ks, i) = with_link(ks, k)
    BY <1>1 DEF apply_one, Agreed, Link, WellFormed
  <2>2. QED
    BY <2>1, WithLinkOneToOne
<1>2. CASE a.kind \in {"delete_local", "delete_remote", "unlink"}
  <2>1. \E l, r : apply_one(a, ks, i) = without(ks, l, r)
    BY <1>2 DEF apply_one
  <2>2. QED
    BY <2>1, WithoutOneToOne
<1>3. CASE a.kind = "skip"
  BY <1>3 DEF apply_one
<1>4. QED
  BY <1>1, <1>2, <1>3 DEF Action, Kinds, StoreKinds

-------------------------------------------------------------------------------
(* Type correctness and one-to-one links.                                  *)
IInv == TypeOK /\ LinksOneToOne

StoresOK ==
    /\ local \in Listings(LocalIds) /\ remote \in Listings(RemoteIds)
    /\ hidden \subseteq Ids /\ used \subseteq Ids /\ userGone \subseteq Ids
    /\ carried \subseteq Ids \X Values

ArchiveOK == snapTaken \in BOOLEAN /\ snapshots \subseteq Values

(* A store's listing is a listing.                                         *)
LEMMA ListingType ==
    ASSUME TypeOK
    PROVE  Listing(local) \in Listings(LocalIds) /\ Listing(remote) \in Listings(RemoteIds)
  BY DEF TypeOK, Listing, Listings, Maybe

(* What a store makes of a record is a record.                             *)
LEMMA FormsType ==
    /\ \A i \in LocalIds, v \in Values : LocalForm[i][v] \in Values /\ TornForm[i][v] \in Values
    /\ \A v \in Values : RemoteForm[v] \in Values
  BY FormsAssumption

(* A name or an oid that is free is taken by nothing the store knows of.   *)
LEMMA FreeIsFree ==
    ASSUME TypeOK, NEW v, NEW i \in LocalIds, FreeLocal(v, i)
    PROVE  IF Folder THEN raw[i] = None ELSE local[i] = None /\ MayHandOut(i)
<1>1. CASE Folder
  <2>1. i \notin Present(raw)
    BY <1>1 DEF FreeLocal, unique_filename
  <2> QED BY <1>1, <2>1 DEF Present, TypeOK, Listings
<1>2. CASE ~Folder
  BY <1>2 DEF FreeLocal
<1> QED BY <1>1, <1>2

(* Writing into a store keeps the stores well typed.                       *)
LEMMA PutsType ==
    ASSUME TypeOK, NEW v \in Values
    PROVE  /\ \A i \in LocalIds : DeviceStores(i, v) /\ carried' \subseteq Ids \X Values => StoresOK'
           /\ \A i \in RemoteIds : RemoteStores(i, v) /\ carried' \subseteq Ids \X Values => StoresOK'
  BY DEF TypeOK, StoresOK, DeviceStores, RemoteStores, HandOut, Listings, Maybe, Ids

(* Taking the snapshot keeps the archive well typed.                       *)
LEMMA SnapshotType ==
    ASSUME TypeOK, ensure_snapshot
    PROVE  ArchiveOK'
<1>1. CASE UNCHANGED archive
  BY <1>1 DEF TypeOK, ArchiveOK, archive
<1>2. ASSUME NEW s \in Listings(LocalIds)
      PROVE  {s[i] : i \in Present(s)} \subseteq Values
  BY DEF Present, Listings, Maybe
<1>3. CASE ~(Folder \/ snapTaken)
  <2>1. \E s \in {local, raw} : snapTaken' = TRUE /\ snapshots' = snapshots \cup {s[i] : i \in Present(s)}
    BY <1>3 DEF ensure_snapshot
  <2>2. QED
    BY <1>2, <2>1 DEF TypeOK, ArchiveOK
<1>4. QED
  BY <1>1, <1>3 DEF ensure_snapshot

(* So does recording what is now known on both sides.                      *)
LEMMA CarryType ==
    ASSUME TypeOK, NEW a \in Action, NEW i \in Ids, NEW v \in Values, NEW w \in Values, Carry(a, i, v, w)
    PROVE  carried' \subseteq Ids \X Values
<1>1. a.l \in Maybe(LocalIds) /\ a.r \in Maybe(RemoteIds) /\ None \notin Ids
  BY IdsAssumption DEF Action, Ids
<1>2. QED
  BY <1>1 DEF TypeOK, Carry, Ids, Maybe

(* A store call keeps the stores and the archive well typed, and a create  *)
(* returns an id of its store.                                             *)
LEMMA StoreCallType ==
    ASSUME TypeOK, NEW a \in Action, WellFormed(a), NEW i \in Maybe(Ids), StoreCall(a, i)
    PROVE  /\ StoresOK' /\ ArchiveOK' /\ a.kind \in StoreKinds
           /\ a.kind = "create_local" => i \in LocalIds
           /\ a.kind = "create_remote" => i \in RemoteIds
<1> USE FormsAssumption
<1>1. CASE device_create(a, i)
  BY <1>1, PutsType, SnapshotType, CarryType DEF device_create, WellFormed, Ids, StoreKinds
<1>2. CASE device_update(a, i)
  BY <1>2, PutsType, SnapshotType, CarryType DEF device_update, WellFormed, Ids, StoreKinds
<1>3. CASE device_delete(a, i)
  BY <1>3, SnapshotType DEF device_delete, WellFormed, StoreKinds, StoresOK, TypeOK, Listings, Maybe
<1>4. CASE remote_create(a, i)
  BY <1>4, PutsType, CarryType DEF remote_create, WellFormed, Ids, StoreKinds, ArchiveOK, archive, TypeOK
<1>5. CASE remote_update(a, i)
  BY <1>5, PutsType, CarryType DEF remote_update, WellFormed, Ids, StoreKinds, ArchiveOK, archive, TypeOK
<1>6. CASE remote_delete(a, i)
  BY <1>6 DEF remote_delete, WellFormed, StoreKinds, StoresOK, ArchiveOK, archive, TypeOK, Listings, Maybe
<1>7. QED
  BY <1>1, <1>2, <1>3, <1>4, <1>5, <1>6 DEF StoreCall

(* What an action that calls no store leaves well typed.                   *)
LEMMA NoStoreCallType ==
    ASSUME TypeOK, NEW a \in Action, WellFormed(a), NEW i, NoStoreCall(a, i)
    PROVE  StoresOK' /\ ArchiveOK' /\ a.kind \notin StoreKinds
<1>1. carried' \subseteq Ids \X Values
  BY DEF NoStoreCall, TypeOK, WellFormed, Ids
<1>2. QED
  BY <1>1 DEF NoStoreCall, TypeOK, StoresOK, ArchiveOK, archive

(* The invariant of the parts of the state that Exit resets.               *)
LEMMA ExitType ==
    ASSUME TypeOK, Exit, saved' \in SUBSET Link, OneToOne(saved'), settled' \in BOOLEAN, faults' \in 0..MaxFaults
    PROVE  IInv'
<1>1. DefaultOptions \in Options
  BY DEF DefaultOptions, Options, Directions, Prefers
<1>2. NoItems(LocalIds) \in Listings(LocalIds)
  BY DEF NoItems, Listings, Maybe
<1>3. QED
  BY <1>1, <1>2 DEF Exit, stores, IInv, TypeOK, LinksOneToOne, OneToOne, WellFormed

(* A step of the user keeps the invariant.                                 *)
LEMMA UserType ==
    ASSUME IInv, User
    PROVE  IInv'
<1> USE SwitchesAssumption, StoresAssumption, FormsAssumption DEF IInv
<1>1. StoresOK' => IInv'
  <2>1. UserStep
    BY DEF User, UserCreates, UserEdits, UserDeletesRecord, ReadabilityChanges
  <2>2. /\ UNCHANGED <<saved, phase, args, localItems, raw, links, pending, touched, errors>>
        /\ UNCHANGED <<snapTaken, snapshots, faults>>
        /\ userOps' \in 0..MaxUserOps
    BY <2>1 DEF UserStep, memory, archive, TypeOK
  <2>3. quiet' \in BOOLEAN /\ settled' \in BOOLEAN
    BY <2>1, Zenon DEF UserStep
  <2>4. QED
    BY <2>2, <2>3 DEF TypeOK, StoresOK, LinksOneToOne, OneToOne
<1>2. StoresOK'
  <2>1. UserStep
    BY DEF User, UserCreates, UserEdits, UserDeletesRecord, ReadabilityChanges
  <2>2. ASSUME NEW v \in Values
        PROVE  /\ \A i \in LocalIds : UserPutsLocal(i, v) => StoresOK'
               /\ \A i \in RemoteIds : UserPutsRemote(i, v) => StoresOK'
    <3>1. RemoteForm[v] \in Values /\ \A i \in LocalIds : LocalForm[i][v] \in Values
      BY FormsType
    <3> HIDE FormsAssumption
    <3> QED BY <2>1, <3>1 DEF UserStep, UserPutsLocal, UserPutsRemote, HandOut, TypeOK, StoresOK, Listings, Maybe, Ids
  <2>3. CASE UserCreates
    BY <2>2, <2>3 DEF UserCreates
  <2>4. CASE UserEdits
    <3>1. \E v \in Values : \/ \E i \in LocalIds : UserPutsLocal(i, v)
                            \/ \E i \in RemoteIds : UserPutsRemote(i, v)
      BY <2>4, \A e \in Edits : e[2] \in Values DEF UserEdits
    <3>2. QED
      BY <2>2, <3>1
  <2>5. CASE UserDeletesRecord
    BY <2>1, <2>5 DEF UserDeletesRecord, UserStep, TypeOK, StoresOK, Listings, Maybe, Present, Ids
  <2>6. CASE ReadabilityChanges
    BY <2>1, <2>6 DEF ReadabilityChanges, UserStep, TypeOK, StoresOK, Listings, Present, Ids
  <2>7. QED
    BY <2>3, <2>4, <2>5, <2>6 DEF User
<1>3. QED
  BY <1>1, <1>2

(* Carrying out, refusing or failing an action keeps the invariant.        *)
LEMMA ActionType ==
    ASSUME IInv, NEW a \in pending,
           Apply(a) \/ Refuse(a) \/ Fail(a) \/ LoseAnswer(a) \/ CutUpload(a)
    PROVE  IInv'
<1> USE SwitchesAssumption, FormsAssumption DEF IInv
<1>1. a \in Action /\ WellFormed(a)
  BY DEF TypeOK
<1>2. Done(a)
  BY DEF Apply, Refuse, Fail, LoseAnswer, CutUpload, Error
<1>3. ASSUME StoresOK', ArchiveOK', links' \in SUBSET Link, OneToOne(links'), raw' \in Listings(LocalIds),
             touched' \subseteq Ids, errors' \in BOOLEAN, faults' \in 0..MaxFaults
      PROVE  IInv'
  BY <1>2, <1>3 DEF Done, TypeOK, StoresOK, ArchiveOK, LinksOneToOne, OneToOne
<1>4. CASE Apply(a)
  <2>1. PICK i \in Maybe(Ids) :
          /\ StoreCall(a, i) \/ NoStoreCall(a, i)
          /\ links' = apply_one(a, links, i)
          /\ touched' = touched \cup touch(a, i)
          /\ remember(a, i)
    BY <1>4 DEF Apply
  <2>2. /\ StoresOK' /\ ArchiveOK'
        /\ a.kind = "create_local" => i \in LocalIds
        /\ a.kind = "create_remote" => i \in RemoteIds
    BY <1>1, <2>1, StoreCallType, NoStoreCallType DEF StoreKinds
  <2>3. links' \in SUBSET Link /\ OneToOne(links')
    BY <1>1, <2>1, <2>2, ApplyOneType DEF TypeOK, LinksOneToOne
  <2>4. raw' \in Listings(LocalIds)
    <3>1. a.kind = "create_local" => LocalForm[i][a.rec] \in Values
      BY <1>1, <2>2, FormsType DEF WellFormed
    <3> QED BY <1>1, <2>1, <2>2, <3>1 DEF remember, TypeOK, Listings, Maybe, WellFormed
  <2>5. touched' \subseteq Ids
    BY <1>1, <2>1, <2>2 DEF touch, TypeOK, Ids, WellFormed
  <2>6. QED
    BY <1>3, <1>4, <2>2, <2>3, <2>4, <2>5 DEF Apply, TypeOK
<1>5. ASSUME Error(a)
      PROVE  /\ links' \in SUBSET Link /\ OneToOne(links') /\ raw' \in Listings(LocalIds)
             /\ touched' \subseteq Ids /\ errors' \in BOOLEAN
  BY <1>5 DEF Error, TypeOK, LinksOneToOne, OneToOne
<1>6. UNCHANGED stores => StoresOK'
  BY DEF stores, StoresOK, TypeOK
<1>7. UNCHANGED archive \/ ensure_snapshot => ArchiveOK'
  BY SnapshotType DEF archive, ArchiveOK, TypeOK
<1>8. ASSUME NEW f, Fault(f)
      PROVE  faults' \in 0..MaxFaults
  BY <1>8 DEF Fault, TypeOK
<1>9. CASE Refuse(a)
  BY <1>3, <1>5, <1>6, <1>7, <1>9 DEF Refuse, TypeOK
<1>10. CASE Fail(a)
  BY <1>3, <1>5, <1>6, <1>7, <1>8, <1>10 DEF Fail
<1>11. CASE LoseAnswer(a)
  BY <1>1, <1>3, <1>5, <1>8, <1>11, StoreCallType DEF LoseAnswer
<1>12. CASE CutUpload(a)
  <2>1. \E i \in LocalIds : DeviceStores(i, TornForm[i][a.rec])
    BY <1>12 DEF CutUpload
  <2>2. \A i \in LocalIds : TornForm[i][a.rec] \in Values
    BY <1>1, <1>12, FormsAssumption DEF CutUpload, WellFormed
  <2>3. StoresOK'
    BY <1>12, <2>1, <2>2, PutsType DEF CutUpload, TypeOK
  <2>4. QED
    BY <1>3, <1>5, <1>7, <1>8, <1>12, <2>3 DEF CutUpload
<1>13. QED
  BY <1>4, <1>9, <1>10, <1>11, <1>12

(* Every step keeps the invariant.                                         *)
LEMMA StepType == IInv /\ [Next]_vars => IInv'
<1> SUFFICES ASSUME IInv, [Next]_vars PROVE IInv'
  OBVIOUS
<1> USE SwitchesAssumption, StoresAssumption DEF IInv
<1>1. CASE User
  BY <1>1, UserType
<1>2. ASSUME NEW o \in Runs, Start(o)
      PROVE  IInv'
  BY <1>2, ListingType DEF Start, stores, archive, bounds, TypeOK, LinksOneToOne, OneToOne
<1>3. CASE Plan
  <2>1. \A a \in pending' : a \in Action /\ WellFormed(a)
    BY <1>3, ListingType, PlanType DEF Plan, TypeOK
  <2>2. QED
    BY <1>3, <2>1 DEF Plan, stores, archive, bounds, TypeOK, LinksOneToOne, OneToOne
<1>4. CASE DryRun
  BY <1>4, ExitType DEF DryRun, TypeOK, LinksOneToOne, OneToOne
<1>5. ASSUME NEW a \in pending, Apply(a) \/ Refuse(a) \/ Fail(a) \/ LoseAnswer(a) \/ CutUpload(a)
      PROVE  IInv'
  BY <1>5, ActionType
<1>6. CASE Relist
  BY <1>6, ListingType DEF Relist, stores, archive, bounds, TypeOK, LinksOneToOne, OneToOne
<1>7. (settled \/ Settles) \in BOOLEAN
  BY Zenon
<1>8. CASE SaveRefreshed
  BY <1>7, <1>8, ExitType, ListingType, RefreshOneToOne DEF SaveRefreshed, TypeOK, LinksOneToOne
<1>9. CASE SaveUntouched
  BY <1>7, <1>9, ExitType DEF SaveUntouched, TypeOK, LinksOneToOne
<1>10. CASE Crash
  BY <1>10, ExitType DEF Crash, Fault, TypeOK, LinksOneToOne, OneToOne
<1>11. CASE StateLost
  <2>1. faults' \in 0..MaxFaults
    BY <1>11 DEF StateLost, Fault, TypeOK
  <2>2. saved' = {} /\ settled' \in BOOLEAN
    BY <1>11 DEF StateLost
  <2>3. UNCHANGED <<local, remote, hidden, used, userGone, carried, phase, args, localItems, raw, links,
                    pending, touched, errors, snapTaken, snapshots, quiet, userOps>>
    BY <1>11 DEF StateLost, stores, memory, archive
  <2>4. QED
    BY <2>1, <2>2, <2>3 DEF TypeOK, LinksOneToOne, OneToOne
<1>12. CASE UNCHANGED vars
  BY <1>12 DEF vars, stores, memory, archive, bounds, TypeOK, LinksOneToOne, OneToOne
<1>13. QED
  BY <1>1, <1>2, <1>3, <1>4, <1>5, <1>6, <1>8, <1>9, <1>10, <1>11, <1>12 DEF Next, Sync, Trouble

(* The invariant holds initially.                                          *)
LEMMA InitType == Init => IInv
<1> SUFFICES ASSUME Init PROVE IInv
  OBVIOUS
<1>1. DefaultOptions \in Options
  BY DEF DefaultOptions, Options, Directions, Prefers
<1>2. NoItems(LocalIds) \in Listings(LocalIds)
  BY DEF NoItems, Listings, Maybe
<1>3. Present(local) \cup Present(remote) \subseteq Ids
  BY StoresAssumption DEF Init, Present, Listings, Ids
<1>4. userOps \in 0..MaxUserOps /\ faults \in 0..MaxFaults
  BY SwitchesAssumption DEF Init
<1>5. LinksOneToOne
  BY DEF Init, LinksOneToOne, OneToOne
<1>6. QED
  BY <1>1, <1>2, <1>3, <1>4, <1>5, StoresAssumption DEF Init, IInv, TypeOK

(* The type invariant holds in every reachable state, for all stores,      *)
(* command lines, faults and bounds.                                       *)
THEOREM TypeCorrect == Spec => []TypeOK
<1>1. Init => IInv
  BY InitType
<1>2. IInv => TypeOK
  BY DEF IInv
<1>3. QED
  BY <1>1, <1>2, StepType, PTL DEF Spec

(* No record is ever linked twice, in memory or in the state file.         *)
THEOREM LinksStayOneToOne == Spec => []LinksOneToOne
<1>1. Init => IInv
  BY InitType
<1>2. IInv => LinksOneToOne
  BY DEF IInv
<1>3. QED
  BY <1>1, <1>2, StepType, PTL DEF Spec

-------------------------------------------------------------------------------
(***************************************************************************)
(* The snapshot.  DeviceStore writes it from the records it listed when    *)
(* the run began, not from the database, so it covers what is overwritten  *)
(* only as long as nobody else writes to the device.                       *)
(***************************************************************************)
IsDeviceTarget(a) == a.kind \in {"update_local", "delete_local"}
DeviceTargets == {a \in pending : IsDeviceTarget(a)}

SnapInv ==
    /\ phase # "apply" => pending = {}
    /\ phase \in {"idle", "listed"} => ~snapTaken
    /\ phase = "listed" => \A l \in LocalIds : localItems[l] # None => local[l] # None
    /\ phase \in {"listed", "apply"} /\ ~snapTaken => raw = local
    /\ \A a \in DeviceTargets : local[a.l] # None /\ (snapTaken => local[a.l] \in snapshots)
    /\ \A a, b \in DeviceTargets : a.l = b.l => a = b

(* A plan writes each device record at most once, and only listed ones.    *)
LEMMA PlanTargets ==
    ASSUME NEW L \in Listings(LocalIds), NEW R \in Listings(RemoteIds),
           NEW ks \in SUBSET Link, OneToOne(ks), NEW P \in Pairings(L, R, ks), NEW o \in Options
    PROVE  \A a, b \in plan(L, R, ks, P, o) :
             IsDeviceTarget(a) /\ IsDeviceTarget(b) => L[a.l] # None /\ (a.l = b.l => a = b)
<1> DEFINE forLinks == UNION {plan_link(k, L, R, o) : k \in ks}
           paired(p) == pair(p[1], p[2], L[p[1]], R[p[2]], o)
           Linked == {k.l : k \in ks}
<1>1. ASSUME NEW k \in ks, NEW a \in plan_link(k, L, R, o), IsDeviceTarget(a)
      PROVE  a.l = k.l /\ L[a.l] # None /\ plan_link(k, L, R, o) = {a}
  BY <1>1, IdsAssumption DEF plan_link, push, pull, resolve_conflict, Act, IsDeviceTarget, Link, Listings, Maybe
<1>2. ASSUME NEW p \in P, NEW a \in paired(p), IsDeviceTarget(a)
      PROVE  /\ a.l = p[1] /\ L[a.l] # None /\ a.l \notin Linked
             /\ a = resolve_conflict(p[1], p[2], L[p[1]], R[p[2]], o, 2)
  <2>1. p[1] \in new_local(L, ks)
    BY DEF Pairings
  <2>2. a = resolve_conflict(p[1], p[2], L[p[1]], R[p[2]], o, 2)
    BY <1>2 DEF pair, Act, IsDeviceTarget
  <2>3. QED
    BY <2>1, <2>2 DEF new_local, Present, resolve_conflict, Act
<1>3. ASSUME NEW a \in plan(L, R, ks, P, o), IsDeviceTarget(a)
      PROVE  (\E k \in ks : a \in plan_link(k, L, R, o)) \/ (\E p \in P : a \in paired(p))
  <2>1. a \in forLinks => \E k \in ks : a \in plan_link(k, L, R, o)
    OBVIOUS
  <2>2. a \in forLinks \/ a \in pair_new(L, R, ks, P, o)
    BY DEF plan
  <2>3. CASE a \in pair_new(L, R, ks, P, o)
    <3>1. ASSUME NEW l, NEW r, NEW v
          PROVE  a # unpaired_local(l, v, o) /\ a # unpaired_remote(r, v, o)
      BY <1>3 DEF IsDeviceTarget, unpaired_local, unpaired_remote, Act
    <3>2. QED
      BY <2>3, <3>1 DEF pair_new
  <2>4. QED
    BY <2>1, <2>2, <2>3
<1>4. \A p, q \in P : p[1] = q[1] => p = q
  BY DEF Pairings, IsPairing
<1>5. \A j, k \in ks : j.l = k.l => j = k
  BY DEF OneToOne
<1> HIDE DEF paired, forLinks
<1>6. ASSUME NEW a \in plan(L, R, ks, P, o), IsDeviceTarget(a)
      PROVE  \/ \E k \in ks : a.l = k.l /\ L[a.l] # None /\ plan_link(k, L, R, o) = {a}
             \/ \E p \in P : /\ a.l = p[1] /\ L[a.l] # None /\ a.l \notin Linked
                            /\ a = resolve_conflict(p[1], p[2], L[p[1]], R[p[2]], o, 2)
  BY <1>1, <1>2, <1>3, <1>6
<1>7. QED
  BY <1>4, <1>5, <1>6

(* After _ensure_snapshot every record the plan still writes to is safe.   *)
LEMMA SnapshotCovers ==
    ASSUME IInv, SnapInv, ~Folder, phase = "apply", ensure_snapshot
    PROVE  snapTaken' = TRUE /\ \A a \in DeviceTargets : local[a.l] \in snapshots'
<1>1. CASE snapTaken
  BY <1>1 DEF ensure_snapshot, archive, SnapInv, IInv, TypeOK
<1>2. CASE ~snapTaken
  <2>1. snapTaken' = TRUE /\ snapshots' = snapshots \cup {local[i] : i \in Present(local)}
    BY <1>2 DEF ensure_snapshot, SnapInv
  <2>2. \A a \in DeviceTargets : a.l \in Present(local)
    BY DEF DeviceTargets, IsDeviceTarget, SnapInv, IInv, TypeOK, WellFormed, Present, Listings
  <2>3. QED
    BY <2>1, <2>2
<1>3. QED
  BY <1>1, <1>2

(* What an action of the plan does to the device store and the archive: it *)
(* leaves the store alone, or writes a free id or its own record, after    *)
(* the snapshot.                                                           *)
Writes(b, i, v) ==
    local' = [local EXCEPT ![i] = v] /\ (local[i] = None \/ (IsDeviceTarget(b) /\ i = b.l))

DeviceWrite(b) == ensure_snapshot /\ \E i \in LocalIds, v \in Maybe(Values) : Writes(b, i, v)

DeviceRest == local' = local /\ (UNCHANGED archive \/ ensure_snapshot) /\ (raw' = raw \/ snapTaken' = TRUE)

(* A store call on the device writes, one on the remote does not.          *)
LEMMA StoreCallOnDevice ==
    ASSUME IInv, ~Folder, NEW b \in pending, NEW i \in Maybe(Ids), StoreCall(b, i)
    PROVE  \/ DeviceWrite(b)
           \/ local' = local /\ UNCHANGED archive /\ b.kind \notin {"create_local", "delete_local"}
<1>1. WellFormed(b)
  BY DEF IInv, TypeOK
<1>2. CASE device_create(b, i)
  <2>1. LocalForm[i][b.rec] \in Maybe(Values) /\ local' = [local EXCEPT ![i] = LocalForm[i][b.rec]]
    BY <1>1, <1>2, FormsAssumption DEF device_create, DeviceStores, WellFormed, Maybe
  <2>2. i \in LocalIds /\ local[i] = None /\ ensure_snapshot
    BY <1>2 DEF device_create, FreeLocal, unique_filename
  <2>3. QED
    BY <2>1, <2>2 DEF DeviceWrite, Writes
<1>3. CASE device_update(b, i)
  <2>1. LocalForm[i][b.rec] \in Maybe(Values) /\ local' = [local EXCEPT ![i] = LocalForm[i][b.rec]]
    BY <1>1, <1>3, FormsAssumption DEF device_update, DeviceStores, WellFormed, Maybe
  <2>2. i \in LocalIds /\ i = b.l /\ IsDeviceTarget(b) /\ ensure_snapshot
    BY <1>1, <1>3 DEF device_update, WellFormed, IsDeviceTarget
  <2>3. QED
    BY <2>1, <2>2 DEF DeviceWrite, Writes
<1>4. CASE device_delete(b, i)
  <2>1. i \in LocalIds /\ i = b.l /\ IsDeviceTarget(b) /\ ensure_snapshot /\ local' = [local EXCEPT ![i] = None]
    BY <1>1, <1>4 DEF device_delete, WellFormed, IsDeviceTarget
  <2>2. QED
    BY <2>1 DEF DeviceWrite, Writes, Maybe
<1>5. CASE remote_create(b, i) \/ remote_update(b, i) \/ remote_delete(b, i)
  BY <1>5 DEF remote_create, remote_update, remote_delete, RemoteStores
<1>6. QED
  BY <1>2, <1>3, <1>4, <1>5 DEF StoreCall

(* So is every way an action of the plan can end.                          *)
LEMMA ActionOnDevice ==
    ASSUME IInv, SnapInv, ~Folder, NEW b \in pending,
           Apply(b) \/ Refuse(b) \/ Fail(b) \/ LoseAnswer(b) \/ CutUpload(b)
    PROVE  /\ DeviceWrite(b) \/ DeviceRest
           /\ phase = "apply" /\ phase' = "apply" /\ pending' = pending \ {b}
<1>1. phase = "apply" /\ phase' = "apply" /\ pending' = pending \ {b}
  BY DEF Apply, Refuse, Fail, LoseAnswer, CutUpload, Error, Done, Ready
<1>2. DeviceWrite(b) \/ DeviceRest
  <2>1. CASE Apply(b)
    <3>1. PICK i \in Maybe(Ids) : (StoreCall(b, i) \/ NoStoreCall(b, i)) /\ remember(b, i)
      BY <2>1 DEF Apply
    <3>2. b.kind \notin {"create_local", "delete_local"} => raw' = raw
      BY <3>1 DEF remember
    <3>3. CASE StoreCall(b, i)
      BY <3>2, <3>3, StoreCallOnDevice DEF DeviceRest
    <3>4. CASE NoStoreCall(b, i)
      BY <3>2, <3>4 DEF NoStoreCall, StoreKinds, DeviceRest
    <3>5. QED
      BY <3>1, <3>3, <3>4
  <2>2. CASE Refuse(b) \/ Fail(b)
    <3>1. local' = local /\ raw' = raw
      BY <2>2 DEF Refuse, Fail, Error, stores
    <3>2. UNCHANGED archive \/ ensure_snapshot
      BY <2>2 DEF Refuse, Fail
    <3>3. QED
      BY <3>1, <3>2 DEF DeviceRest
  <2>3. CASE LoseAnswer(b)
    <3>1. PICK i \in Maybe(Ids) : StoreCall(b, i)
      BY <2>3 DEF LoseAnswer
    <3>2. raw' = raw
      BY <2>3 DEF LoseAnswer, Error
    <3>3. QED
      BY <3>1, <3>2, StoreCallOnDevice DEF DeviceRest
  <2>4. CASE CutUpload(b)
    BY <2>4 DEF CutUpload
  <2>5. QED
    BY <2>1, <2>2, <2>3, <2>4
<1>3. QED
  BY <1>1, <1>2

(* An action of the plan keeps the invariant and overwrites no device      *)
(* record that is not in the snapshot.                                     *)
Covered == \A l \in LocalIds : local[l] # None /\ local'[l] # local[l] => local[l] \in snapshots'

LEMMA ActionSnap ==
    ASSUME IInv, SnapInv, ~Folder, NEW b \in pending, DeviceWrite(b) \/ DeviceRest,
           phase = "apply", phase' = "apply", pending' = pending \ {b}
    PROVE  SnapInv' /\ Covered
<1>1. \A a \in DeviceTargets : a.l \in LocalIds
  BY DEF DeviceTargets, IsDeviceTarget, IInv, TypeOK, WellFormed
<1>2. DeviceTargets' = DeviceTargets \ {b}
  BY DEF DeviceTargets
<1>3. \A a, c \in DeviceTargets' : a.l = c.l => a = c
  BY <1>2 DEF SnapInv
<1>4. CASE DeviceWrite(b)
  <2>1. snapTaken' = TRUE /\ \A a \in DeviceTargets : local[a.l] \in snapshots'
    BY <1>4, SnapshotCovers DEF DeviceWrite
  <2>2. PICK i \in LocalIds, v \in Maybe(Values) : Writes(b, i, v)
    BY <1>4 DEF DeviceWrite
  <2>3. \A l \in LocalIds : l # i => local'[l] = local[l]
    BY <2>2 DEF Writes, IInv, TypeOK, Listings
  <2>4. ASSUME NEW a \in DeviceTargets, a # b
        PROVE  a.l # i
    BY <2>2, <2>4 DEF Writes, SnapInv, DeviceTargets
  <2>5. \A a \in DeviceTargets' : local'[a.l] # None /\ local'[a.l] \in snapshots'
    BY <1>1, <1>2, <2>1, <2>3, <2>4 DEF SnapInv
  <2>6. Covered
    BY <2>1, <2>2, <2>3 DEF Covered, Writes, DeviceTargets
  <2>7. QED
    BY <1>3, <2>1, <2>5, <2>6 DEF SnapInv
<1>5. CASE DeviceRest
  <2>1. local' = local /\ (raw' = raw \/ snapTaken' = TRUE)
    BY <1>5 DEF DeviceRest
  <2>2. CASE UNCHANGED archive
    BY <1>2, <1>3, <2>1, <2>2 DEF archive, SnapInv, Covered
  <2>3. CASE ensure_snapshot
    <3>1. snapTaken' = TRUE /\ \A a \in DeviceTargets : local[a.l] \in snapshots'
      BY <2>3, SnapshotCovers
    <3>2. QED
      BY <1>2, <1>3, <2>1, <3>1 DEF SnapInv, Covered
  <2>4. QED
    BY <1>5, <2>2, <2>3 DEF DeviceRest
<1>6. QED
  BY <1>4, <1>5

(* A step that leaves the device alone and no action pending is safe.      *)
LEMMA QuietSnap ==
    ASSUME UNCHANGED local, pending' = {}, phase' \in {"idle", "relisted"}, phase' = "idle" => ~snapTaken'
    PROVE  SnapInv' /\ Covered
  BY DEF SnapInv, Covered, DeviceTargets

(* Every step of a database account without interference is safe.          *)
LEMMA StepSnap ==
    ASSUME IInv, SnapInv, [Next]_vars, ~Folder, ~Interfere
    PROVE  SnapInv' /\ (SyncStep => Covered)
<1>1. CASE User
  <2>1. UserStep
    BY <1>1 DEF User, UserCreates, UserEdits, UserDeletesRecord, ReadabilityChanges
  <2>2. ~SyncStep
    BY <2>1 DEF UserStep, SyncStep, IInv, TypeOK
  <2>3. phase' = "idle" /\ pending' = {} /\ ~snapTaken'
    BY <2>1 DEF UserStep, memory, archive, SnapInv
  <2>4. QED
    BY <2>2, <2>3 DEF SnapInv, DeviceTargets
<1>2. ASSUME NEW o \in Runs, Start(o)
      PROVE  SnapInv' /\ Covered
  <2>1. \A l \in LocalIds : localItems'[l] # None => local[l] # None
    BY <1>2 DEF Start, Listing, IInv, TypeOK, Listings
  <2>2. ~snapTaken
    BY <1>2 DEF Start, SnapInv
  <2>3. QED
    BY <1>2, <2>1, <2>2 DEF Start, SnapInv, Covered, stores, archive, DeviceTargets
<1>3. CASE Plan
  <2>1. PICK R \in Listings(RemoteIds) :
          \E P \in Pairings(localItems, R, links) : pending' = plan(localItems, R, links, P, args)
    BY <1>3, ListingType DEF Plan, IInv
  <2>2. \A a, b \in pending' : IsDeviceTarget(a) /\ IsDeviceTarget(b) =>
          localItems[a.l] # None /\ (a.l = b.l => a = b)
    BY <2>1, PlanTargets DEF IInv, TypeOK, LinksOneToOne
  <2>3. \A a \in pending' : IsDeviceTarget(a) => a.l \in LocalIds
    BY <1>3, StepType DEF IInv, TypeOK, WellFormed, IsDeviceTarget
  <2>4. QED
    BY <1>3, <2>2, <2>3 DEF Plan, SnapInv, Covered, stores, archive, DeviceTargets
<1>4. CASE DryRun \/ SaveRefreshed \/ SaveUntouched \/ Crash
  BY <1>4, QuietSnap DEF DryRun, SaveRefreshed, SaveUntouched, Crash, Exit, stores
<1>5. ASSUME NEW b \in pending, Apply(b) \/ Refuse(b) \/ Fail(b) \/ LoseAnswer(b) \/ CutUpload(b)
      PROVE  SnapInv' /\ Covered
  BY <1>5, ActionOnDevice, ActionSnap
<1>6. CASE Relist
  BY <1>6, QuietSnap DEF Relist, stores
<1>7. CASE StateLost
  <2>1. phase' = "idle" /\ pending' = {} /\ ~snapTaken' /\ UNCHANGED local
    BY <1>7 DEF StateLost, stores, memory, archive, SnapInv
  <2>2. QED
    BY <2>1, QuietSnap
<1>8. CASE UNCHANGED vars
  BY <1>8 DEF vars, stores, memory, archive, SnapInv, Covered, DeviceTargets
<1>9. QED
  BY <1>1, <1>2, <1>3, <1>4, <1>5, <1>6, <1>7, <1>8 DEF Next, Sync, Trouble

(* With a database on the device and nobody writing to it during a run,    *)
(* whatever the sync overwrites or deletes there is in a snapshot first.   *)
THEOREM SnapshotHoldsDeviceCopy ==
    ASSUME ~Folder, ~Interfere
    PROVE  Spec => DeviceCopyInSnapshot
<1>1. Init => IInv /\ SnapInv
  BY InitType DEF Init, SnapInv, DeviceTargets
<1>2. IInv /\ SnapInv /\ [Next]_vars => (IInv /\ SnapInv)' /\ (SyncStep => Covered)
  BY StepType, StepSnap
<1>3. (SyncStep => Covered) <=>
        \A l \in LocalIds :
          SyncStep /\ local[l] # None /\ local'[l] # local[l] => local[l] \in snapshots'
  BY DEF Covered
<1>4. QED
  BY <1>1, <1>2, <1>3, PTL DEF Spec, DeviceCopyInSnapshot

-------------------------------------------------------------------------------
(***************************************************************************)
(* Conflicts.  A link holds the content last known to be on both sides, so *)
(* a run that pushes a device record over a remote one that still is as    *)
(* its link says overwrites nothing the device side has not seen.          *)
(***************************************************************************)
Knows(r, v) == <<r, v>> \in carried
FollowsRemote == args.prefer = "remote" /\ args.direction = "both"

KnownInv ==
    /\ phase # "apply" => pending = {}
    /\ phase \in {"idle", "listed"} => touched = {}
    /\ \A k \in saved \cup links : Knows(k.r, k.rh)
    /\ \A r \in touched \cap RemoteIds : remote[r] # None => Knows(r, remote[r])
    /\ FollowsRemote => \A a \in pending : a.kind = "update_remote" /\ remote[a.r] # None => Knows(a.r, remote[a.r])


(* Where the actions of a plan come from.                                  *)
LEMMA PlanCases ==
    ASSUME NEW L, NEW R, NEW ks, NEW P, NEW o, NEW a \in plan(L, R, ks, P, o)
    PROVE  \/ \E k \in ks : a \in plan_link(k, L, R, o)
           \/ \E p \in P : a \in pair(p[1], p[2], L[p[1]], R[p[2]], o)
           \/ \E l \in new_local(L, ks) : a = unpaired_local(l, L[l], o)
           \/ \E r \in new_remote(R, ks) : a = unpaired_remote(r, R[r], o)
<1>1. (\E k \in ks : a \in plan_link(k, L, R, o)) \/ a \in pair_new(L, R, ks, P, o)
  BY DEF plan
<1>2. ASSUME a \in pair_new(L, R, ks, P, o)
      PROVE  \/ \E p \in P : a \in pair(p[1], p[2], L[p[1]], R[p[2]], o)
             \/ \E l \in new_local(L, ks) : a = unpaired_local(l, L[l], o)
             \/ \E r \in new_remote(R, ks) : a = unpaired_remote(r, R[r], o)
  BY <1>2 DEF pair_new
<1> QED BY <1>1, <1>2

(* With `--prefer remote' a plan overwrites a remote record only if that   *)
(* is as its link has it.                                                  *)
LEMMA PlanPushes ==
    ASSUME NEW L \in Listings(LocalIds), NEW R \in Listings(RemoteIds), NEW ks \in SUBSET Link,
           NEW P, NEW o, o.prefer = "remote", o.direction = "both",
           NEW a \in plan(L, R, ks, P, o), a.kind = "update_remote"
    PROVE  \E k \in ks : k.r = a.r /\ R[a.r] = k.rh
<1>1. ASSUME NEW k \in ks, a \in plan_link(k, L, R, o)
      PROVE  k.r = a.r /\ R[a.r] = k.rh
  BY <1>1 DEF plan_link, push, pull, resolve_conflict, Act, writes_local, writes_remote
<1>2. ASSUME NEW p \in P PROVE a \notin pair(p[1], p[2], L[p[1]], R[p[2]], o)
  BY DEF pair, resolve_conflict, Act, writes_local, writes_remote
<1>3. ASSUME NEW i, NEW v PROVE a # unpaired_local(i, v, o) /\ a # unpaired_remote(i, v, o)
  BY DEF unpaired_local, unpaired_remote, Act
<1> QED BY <1>1, <1>2, <1>3, PlanCases

(* What an action of the plan does to the remote store: what it writes     *)
(* there is known to the device side, and what it overwrites is its own    *)
(* record.                                                                 *)
RemoteStep(b) ==
    /\ carried \subseteq carried'
    /\ \A r \in RemoteIds : remote'[r] \notin {remote[r], None} =>
          Knows(r, remote[r])' /\ (remote[r] = None \/ (b.kind = "update_remote" /\ r = b.r))

LEMMA RemotePut ==
    ASSUME IInv, NEW b \in pending, NEW i \in RemoteIds, b.rec \in Values,
           RemoteStores(i, RemoteForm[b.rec]), Carry(b, i, b.rec, RemoteForm[b.rec]),
           remote[i] = None \/ (b.kind = "update_remote" /\ i = b.r)
    PROVE  RemoteStep(b) /\ Knows(i, b.rec)' /\ Knows(i, remote[i])'
<1>1. i # None
  BY IdsAssumption
<1>2. Knows(i, b.rec)' /\ Knows(i, RemoteForm[b.rec])' /\ carried \subseteq carried'
  BY <1>1 DEF Carry, Knows
<1>3. remote'[i] = RemoteForm[b.rec] /\ \A r \in RemoteIds \ {i} : remote'[r] = remote[r]
  BY DEF RemoteStores, IInv, TypeOK, Listings
<1> QED BY <1>2, <1>3 DEF RemoteStep, Knows

LEMMA CallOnRemote ==
    ASSUME IInv, NEW b \in pending, NEW i \in Maybe(Ids), StoreCall(b, i) \/ NoStoreCall(b, i)
    PROVE  /\ RemoteStep(b)
           /\ \A r \in touch(b, i) \cap RemoteIds : Knows(r, remote[r])'
           /\ \A k \in apply_one(b, links, i) : k \in links \/ Knows(k.r, k.rh)'
<1>1. b \in Action /\ WellFormed(b)
  BY DEF IInv, TypeOK
<1>2. LocalIds \cap RemoteIds = {} /\ None \notin RemoteIds /\ None \notin LocalIds
  BY IdsAssumption
<1>3. ASSUME NEW l, NEW r, NEW v, Knows(r, v)'
      PROVE  \A k \in with_link(links, Agreed(l, r, v)) : k \in links \/ Knows(k.r, k.rh)'
  BY <1>3 DEF with_link, Agreed
<1>4. CASE device_create(b, i) \/ device_update(b, i)
  <2>1. i \in LocalIds /\ b.r \in RemoteIds /\ b.kind \in {"create_local", "update_local"} /\ (b.kind = "update_local" => i = b.l)
    BY <1>1, <1>4 DEF device_create, device_update, WellFormed
  <2>2. UNCHANGED remote /\ carried \subseteq carried' /\ Knows(b.r, b.rec)'
    BY <1>2, <1>4, <2>1 DEF device_create, device_update, DeviceStores, Carry, Knows
  <2>3. touch(b, i) = {i}
    BY <2>1 DEF touch
  <2>4. apply_one(b, links, i) \in {with_link(links, Agreed(i, b.r, b.rec)), with_link(links, Agreed(b.l, b.r, b.rec))}
    BY <2>1 DEF apply_one
  <2> QED BY <1>2, <1>3, <2>1, <2>2, <2>3, <2>4 DEF RemoteStep
<1>5. CASE device_delete(b, i) \/ remote_delete(b, i)
  <2>1. b.kind \in {"delete_local", "delete_remote"} /\ carried' = carried
        /\ (remote' = remote \/ remote' = [remote EXCEPT ![b.r] = None])
    BY <1>5 DEF device_delete, remote_delete
  <2>2. touch(b, i) = {} /\ apply_one(b, links, i) \subseteq links
    BY <2>1 DEF touch, apply_one, without
  <2>3. \A r \in RemoteIds : remote'[r] \in {remote[r], None}
    BY <2>1 DEF IInv, TypeOK, Listings
  <2> QED BY <2>1, <2>2, <2>3 DEF RemoteStep
<1>6. CASE remote_create(b, i)
  <2>1. i \in RemoteIds /\ b.kind = "create_remote" /\ b.rec \in Values /\ remote[i] = None
    BY <1>1, <1>6 DEF remote_create, FreeRemote, WellFormed
  <2>2. RemoteStep(b) /\ Knows(i, b.rec)' /\ Knows(i, remote[i])'
    BY <1>6, <2>1, RemotePut DEF remote_create
  <2>3. touch(b, i) = {i} /\ apply_one(b, links, i) = with_link(links, Agreed(b.l, i, b.rec))
    BY <2>1 DEF touch, apply_one
  <2> QED BY <1>3, <2>2, <2>3
<1>7. CASE remote_update(b, i)
  <2>1. i \in RemoteIds /\ b.kind = "update_remote" /\ b.rec \in Values /\ i = b.r
    BY <1>1, <1>7 DEF remote_update, WellFormed
  <2>2. RemoteStep(b) /\ Knows(i, b.rec)' /\ Knows(i, remote[i])'
    BY <1>7, <2>1, RemotePut DEF remote_update
  <2>3. touch(b, i) = {i} /\ apply_one(b, links, i) = with_link(links, Agreed(b.l, i, b.rec))
    BY <2>1 DEF touch, apply_one
  <2> QED BY <1>3, <2>2, <2>3
<1>8. CASE NoStoreCall(b, i)
  <2>1. UNCHANGED remote /\ carried \subseteq carried' /\ b.kind \in {"link", "unlink", "skip"}
    BY <1>1, <1>8 DEF NoStoreCall, Action, Kinds
  <2>2. b.kind = "link" => Knows(b.r, b.rec)'
    BY <1>8 DEF NoStoreCall, Knows
  <2>3. touch(b, i) = {}
    BY <2>1 DEF touch
  <2>4. IF b.kind = "link" THEN apply_one(b, links, i) = with_link(links, Agreed(b.l, b.r, b.rec))
                           ELSE apply_one(b, links, i) \subseteq links
    BY <2>1 DEF apply_one, without
  <2> QED BY <1>3, <2>1, <2>2, <2>3, <2>4 DEF RemoteStep
<1> QED BY <1>4, <1>5, <1>6, <1>7, <1>8 DEF StoreCall

LEMMA ActionKnown ==
    ASSUME IInv, KnownInv, NEW b \in pending, Apply(b) \/ Refuse(b) \/ Fail(b) \/ LoseAnswer(b) \/ CutUpload(b)
    PROVE  KnownInv' /\ RemoteStep(b)
<1>1. phase = "apply" /\ phase' = "apply" /\ pending' \subseteq pending /\ UNCHANGED <<args, saved>>
  BY DEF Apply, Refuse, Fail, LoseAnswer, CutUpload, Error, Done, Ready
<1>2. ASSUME RemoteStep(b),
             \A r \in (touched' \ touched) \cap RemoteIds : Knows(r, remote[r])',
             \A k \in links' : k \in links \/ Knows(k.r, k.rh)'
      PROVE  KnownInv'
  <2>1. \A r, v : Knows(r, v) => Knows(r, v)'
    BY <1>2 DEF RemoteStep, Knows
  <2>2. \A r \in RemoteIds : remote'[r] # None =>
          Knows(r, remote[r])' \/ (remote'[r] = remote[r] /\ remote[r] # None)
    BY <1>2 DEF RemoteStep
  <2>3. \A k \in saved' \cup links' : Knows(k.r, k.rh)'
    BY <1>1, <1>2, <2>1 DEF KnownInv
  <2>4. \A r \in touched' \cap RemoteIds : remote'[r] # None => Knows(r, remote[r])'
    BY <1>2, <2>1, <2>2 DEF KnownInv
  <2>5. \A a \in pending' : FollowsRemote' /\ a.kind = "update_remote" /\ remote'[a.r] # None => Knows(a.r, remote[a.r])'
    <3>1. \A a \in pending : a.kind = "update_remote" => a.r \in RemoteIds
      BY DEF IInv, TypeOK, WellFormed
    <3> QED BY <1>1, <2>1, <2>2, <3>1 DEF KnownInv, FollowsRemote
  <2> QED BY <1>1, <2>3, <2>4, <2>5 DEF KnownInv
<1>3. CASE Apply(b)
  <2>1. PICK i \in Maybe(Ids) : /\ StoreCall(b, i) \/ NoStoreCall(b, i)
                                /\ links' = apply_one(b, links, i) /\ touched' = touched \cup touch(b, i)
    BY <1>3 DEF Apply
  <2> QED BY <1>2, <2>1, CallOnRemote
<1>4. CASE LoseAnswer(b)
  BY <1>2, <1>4, CallOnRemote DEF LoseAnswer, Error
<1>5. CASE Refuse(b) \/ Fail(b) \/ CutUpload(b)
  <2>1. UNCHANGED <<remote, carried, links, touched>>
    BY <1>5 DEF Refuse, Fail, CutUpload, Error, stores, DeviceStores
  <2>2. RemoteStep(b)
    BY <2>1 DEF RemoteStep
  <2> QED BY <1>2, <2>1, <2>2
<1> QED BY <1>3, <1>4, <1>5

LEMMA StepKnown ==
    ASSUME IInv, KnownInv, [Next]_vars, ~Interfere
    PROVE  /\ KnownInv'
           /\ \A r \in RemoteIds : SyncStep /\ remote'[r] \notin {remote[r], None} =>
                remote[r] = None \/ \E b \in pending : b.kind = "update_remote" /\ r = b.r
<1>1. CASE User
  <2>1. UserStep /\ phase = "idle"
    BY <1>1 DEF User, UserCreates, UserEdits, UserDeletesRecord, ReadabilityChanges, UserStep
  <2>2. pending' = {} /\ touched' = {} /\ UNCHANGED <<saved, links, phase, carried>> /\ ~SyncStep
    BY <2>1 DEF UserStep, KnownInv, memory, SyncStep, IInv, TypeOK
  <2> QED BY <2>2 DEF KnownInv, Knows
<1>2. ASSUME UNCHANGED <<remote, carried>>, pending' = {},
             touched' = {} \/ (touched' = touched /\ phase' \notin {"idle", "listed"}),
             \A k \in saved' \cup links' : Knows(k.r, k.rh)
      PROVE  KnownInv'
  BY <1>2 DEF KnownInv, Knows
<1>3. CASE \E o \in Runs : Start(o)
  BY <1>2, <1>3 DEF Start, KnownInv, stores
<1>4. CASE Plan
  <2>1. UNCHANGED <<remote, carried, saved, links, touched, args>> /\ phase = "listed" /\ phase' = "apply"
    BY <1>4 DEF Plan, stores
  <2>2. ASSUME NEW a \in pending', FollowsRemote, a.kind = "update_remote", remote[a.r] # None
        PROVE  Knows(a.r, remote[a.r])
    <3>1. PICK P : pending' = plan(localItems, Listing(remote), links, P, args)
      BY <1>4 DEF Plan
    <3>2. PICK k \in links : k.r = a.r /\ Listing(remote)[a.r] = k.rh
      BY <2>2, <3>1, PlanPushes, ListingType DEF FollowsRemote, IInv, TypeOK
    <3>3. k.rh \in Values /\ a.r \in RemoteIds
      BY <3>2 DEF IInv, TypeOK, Link
    <3>4. remote[a.r] = k.rh
      BY <3>2, <3>3, IdsAssumption DEF Listing, IInv, TypeOK, Listings
    <3> QED BY <3>2, <3>4 DEF KnownInv
  <2> QED BY <2>1, <2>2 DEF KnownInv, Knows, FollowsRemote
<1>5. CASE DryRun \/ Crash \/ SaveUntouched
  <2>1. UNCHANGED <<remote, carried>> /\ pending' = {} /\ touched' = {} /\ links' = {} /\ saved' \subseteq saved \cup links
    BY <1>5 DEF DryRun, Crash, SaveUntouched, Exit, stores
  <2> QED BY <1>2, <2>1 DEF KnownInv
<1>6. CASE SaveRefreshed
  <2>1. UNCHANGED <<remote, carried>> /\ pending' = {} /\ touched' = {} /\ links' = {}
    BY <1>6 DEF SaveRefreshed, Exit, stores
  <2>2. ASSUME NEW k \in saved' PROVE Knows(k.r, k.rh)
    <3>1. PICK j \in links :
            k = [j EXCEPT !.lh = IF j.l \in touched /\ localItems[j.l] # None THEN localItems[j.l] ELSE @,
                          !.rh = IF j.r \in touched /\ Listing(remote)[j.r] # None THEN Listing(remote)[j.r] ELSE @]
      BY <1>6 DEF SaveRefreshed, refresh_hashes
    <3>2. j \in Link
      BY DEF IInv, TypeOK
    <3>3. k.r = j.r /\ k.rh = IF j.r \in touched /\ Listing(remote)[j.r] # None THEN Listing(remote)[j.r] ELSE j.rh
      BY <3>1, <3>2 DEF Link
    <3>4. Listing(remote)[j.r] # None => Listing(remote)[j.r] = remote[j.r]
      BY <3>2 DEF Link, Listing, IInv, TypeOK, Listings
    <3> QED BY <3>2, <3>3, <3>4 DEF KnownInv, Link
  <2> QED BY <1>2, <2>1, <2>2
<1>7. CASE Relist
  <2>1. UNCHANGED <<remote, carried, saved, links, touched>> /\ pending' = {} /\ phase' = "relisted"
    BY <1>7 DEF Relist, stores
  <2> QED BY <1>2, <2>1 DEF KnownInv
<1>8. CASE StateLost
  <2>1. UNCHANGED <<remote, carried, links, pending, touched, phase>> /\ saved' = {} /\ phase = "idle"
    BY <1>8 DEF StateLost, stores, memory
  <2> QED BY <1>2, <2>1 DEF KnownInv
<1>9. CASE UNCHANGED vars
  BY <1>9 DEF vars, stores, memory, KnownInv, Knows, FollowsRemote
<1>10. ASSUME NEW b \in pending, Apply(b) \/ Refuse(b) \/ Fail(b) \/ LoseAnswer(b) \/ CutUpload(b)
       PROVE  KnownInv' /\ RemoteStep(b)
  BY <1>10, ActionKnown
<1>11. User => ~SyncStep
  BY DEF User, UserCreates, UserEdits, UserDeletesRecord, ReadabilityChanges, UserStep, SyncStep, IInv, TypeOK
<1>12. \/ User \/ remote' = remote
       \/ \E b \in pending : Apply(b) \/ Refuse(b) \/ Fail(b) \/ LoseAnswer(b) \/ CutUpload(b)
  BY DEF Next, Sync, Trouble, Start, Plan, DryRun, SaveRefreshed, SaveUntouched, Crash, Exit, Relist, StateLost, stores, vars
<1> QED BY <1>1, <1>3, <1>4, <1>5, <1>6, <1>7, <1>8, <1>9, <1>10, <1>11, <1>12 DEF Next, Sync, Trouble, RemoteStep

(* With `--prefer remote', and nobody writing during a run, no content of  *)
(* the modern application is overwritten that the device side has not had: *)
(* whatever failed, was lost or crashed before (engine.py, _plan_link).    *)
THEOREM RemoteContentIsKept ==
    ASSUME ~Interfere
    PROVE  Spec => RemoteContentKept
<1>1. Init => IInv /\ KnownInv
  BY InitType DEF Init, KnownInv
<1> DEFINE Kept == \A r \in RemoteIds :
                     SyncStep /\ args.prefer = "remote" /\ args.direction = "both"
                       /\ remote[r] # None /\ remote'[r] \notin {None, remote[r]}
                     => <<r, remote[r]>> \in carried
<1>2. IInv /\ KnownInv /\ [Next]_vars => (IInv /\ KnownInv)' /\ Kept
  <2> SUFFICES ASSUME IInv, KnownInv, [Next]_vars PROVE (IInv /\ KnownInv)' /\ Kept
    OBVIOUS
  <2>1. IInv' /\ KnownInv'
    BY StepType, StepKnown
  <2>2. Kept
    BY StepKnown DEF KnownInv, FollowsRemote, Knows
  <2> QED BY <2>1, <2>2
<1> QED BY <1>1, <1>2, PTL DEF Spec, RemoteContentKept
(***************************************************************************)
(* Deletions.  Ids are handed out once, so what is gone stays gone; of two *)
(* linked records the first to go was deleted by the user.                 *)
(***************************************************************************)
Deletes(a) == a.kind \in {"delete_local", "delete_remote"}
Pairs(ks) == {<<k.l, k.r>> : k \in ks}
GoneByUser(l, r) ==
    /\ local[l] = None /\ remote[r] # None => l \in userGone
    /\ remote[r] = None /\ local[l] # None => r \in userGone
UsedInv ==
    /\ hidden = {} /\ Present(local) \cup Present(remote) \cup Present(localItems) \subseteq used
    /\ \A k \in saved \cup links : k.l \in used /\ k.r \in used /\ GoneByUser(k.l, k.r)
    /\ \A a \in pending : {a.l, a.r} \ {None} \subseteq used
ListedInv ==
    phase = "listed" =>
      /\ links = saved
      /\ \A l \in LocalIds : localItems[l] # None /\ local[l] = None => l \in userGone
      /\ \A k \in saved : localItems[k.l] = None => local[k.l] = None
DeletionInv(a) ==
    /\ a.stage = 1 /\ <<a.l, a.r>> \in Pairs(links) \cap Pairs(saved)
    /\ a.kind = "delete_local" => remote[a.r] = None
    /\ a.kind = "delete_remote" => local[a.l] = None
    /\ \A b \in pending : a.l = b.l \/ a.r = b.r => a = b
StandsFor(a) ==
    /\ a.kind \in {"create_remote", "update_local", "update_remote", "link"} /\ local[a.l] = None => a.l \in userGone
    /\ a.kind \in {"create_local", "update_local", "update_remote", "link"} /\ remote[a.r] = None => a.r \in userGone
PendingInv ==
    /\ phase # "apply" => pending = {}
    /\ \A a \in pending : a.stage = 1 => a.kind \notin {"create_local", "create_remote"}
    /\ \A a \in pending : IF Deletes(a) THEN DeletionInv(a) ELSE StandsFor(a)
DeleteInv == UsedInv /\ ListedInv /\ PendingInv

(* A plan deletes only for a link one of whose records is gone, and plans  *)
(* nothing else for either record.                                         *)
LEMMA LinkActions ==
    ASSUME NEW L \in Listings(LocalIds), NEW R \in Listings(RemoteIds), NEW k \in Link, NEW o,
           NEW a \in plan_link(k, L, R, o)
    PROVE  /\ a.l = k.l /\ a.r = k.r /\ a.stage = 1 /\ plan_link(k, L, R, o) = {a}
           /\ a.kind \notin {"create_local", "create_remote"}
           /\ a.kind = "delete_local" => R[k.r] = None
           /\ a.kind = "delete_remote" => L[k.l] = None
           /\ a.kind \in {"update_local", "update_remote", "link"} => L[k.l] # None /\ R[k.r] # None
  BY DEF plan_link, push, pull, resolve_conflict, Act

LEMMA NewActions ==
    ASSUME NEW L, NEW R, NEW ks, NEW P \in Pairings(L, R, ks), NEW o,
           NEW a \in plan(L, R, ks, P, o), ~\E k \in ks : a \in plan_link(k, L, R, o)
    PROVE  /\ a.stage \in {2, 3} /\ ~Deletes(a) /\ a.l \in new_local(L, ks) \cup {None} /\ a.r \in new_remote(R, ks) \cup {None}
           /\ a.kind \in {"create_remote", "update_local", "update_remote", "link"} => a.l \in new_local(L, ks)
           /\ a.kind \in {"create_local", "update_local", "update_remote", "link"} => a.r \in new_remote(R, ks)
<1>1. CASE \E p \in P : a \in pair(p[1], p[2], L[p[1]], R[p[2]], o)
  <2>1. PICK p \in P : a \in pair(p[1], p[2], L[p[1]], R[p[2]], o)
    BY <1>1
  <2>2. p[1] \in new_local(L, ks) /\ p[2] \in new_remote(R, ks)
    BY DEF Pairings
  <2>3. a.l = p[1] /\ a.r = p[2] /\ a.stage = 2 /\ a.kind \in {"link", "update_local", "update_remote"}
    BY <2>1 DEF pair, resolve_conflict, Act
  <2> QED BY <2>2, <2>3 DEF Deletes
<1>2. CASE \E l \in new_local(L, ks) : a = unpaired_local(l, L[l], o)
  <2>1. PICK l \in new_local(L, ks) : a = unpaired_local(l, L[l], o)
    BY <1>2
  <2>2. a.l = l /\ a.r = None /\ a.stage = 2 /\ a.kind \in {"create_remote", "skip"}
    BY <2>1 DEF unpaired_local, Act
  <2> QED BY <2>2 DEF Deletes
<1>3. CASE \E r \in new_remote(R, ks) : a = unpaired_remote(r, R[r], o)
  <2>1. PICK r \in new_remote(R, ks) : a = unpaired_remote(r, R[r], o)
    BY <1>3
  <2>2. a.l = None /\ a.r = r /\ a.stage = 3 /\ a.kind \in {"create_local", "skip"}
    BY <2>1 DEF unpaired_remote, Act
  <2> QED BY <2>2 DEF Deletes
<1> QED BY <1>1, <1>2, <1>3, PlanCases

(* One step of anyone: what is gone stays gone, and what goes was deleted  *)
(* by the user or by an action of the plan.                                *)
Steady ==
    /\ used \subseteq used' /\ hidden' = {} /\ Present(local') \cup Present(remote') \subseteq used'
    /\ \A l \in LocalIds :
         /\ local[l] = None /\ l \in used => local'[l] = None
         /\ local'[l] = None => IF local[l] = None THEN l \in userGone => l \in userGone'
                                ELSE (~SyncStep /\ l \in userGone') \/ \E b \in pending : b.kind = "delete_local" /\ b.l = l
    /\ \A r \in RemoteIds :
         /\ remote[r] = None /\ r \in used => remote'[r] = None
         /\ remote'[r] = None => IF remote[r] = None THEN r \in userGone => r \in userGone'
                                 ELSE (~SyncStep /\ r \in userGone') \/ \E b \in pending : b.kind = "delete_remote" /\ b.r = r

LEMMA PutIsSteady ==
    ASSUME IInv, UsedInv, ~Reuse, NEW i \in Ids, NEW v \in Values,
           hidden' = hidden \ {i}, userGone' = userGone \ {i}, HandOut(i),
           \/ /\ local' = [local EXCEPT ![i] = v] /\ UNCHANGED remote
              /\ i \in LocalIds /\ (local[i] # None \/ i \notin used)
           \/ /\ remote' = [remote EXCEPT ![i] = v] /\ UNCHANGED local
              /\ i \in RemoteIds /\ (remote[i] # None \/ i \notin used)
    PROVE  Steady
<1>1. v # None /\ LocalIds \cap RemoteIds = {}
  BY IdsAssumption
<1>2. used' = used \cup {i} /\ hidden' = {}
  BY DEF HandOut, UsedInv
<1>3. local \in Listings(LocalIds) /\ remote \in Listings(RemoteIds)
  BY DEF IInv, TypeOK
<1>4. Present(local') \cup Present(remote') \subseteq Present(local) \cup Present(remote) \cup {i}
  BY <1>3 DEF Present, Listings
<1>5. \A l \in LocalIds : (l # i /\ local'[l] = local[l]) \/ (l = i /\ local'[l] = v /\ (local[i] # None \/ i \notin used))
  BY <1>1, <1>3 DEF Listings
<1>6. \A r \in RemoteIds : (r # i /\ remote'[r] = remote[r]) \/ (r = i /\ remote'[r] = v /\ (remote[i] # None \/ i \notin used))
  BY <1>1, <1>3 DEF Listings
<1>7. \A j \in userGone : j # i => j \in userGone'
  OBVIOUS
<1>8. used \subseteq used' /\ hidden' = {} /\ Present(local') \cup Present(remote') \subseteq used'
  BY <1>2, <1>4 DEF UsedInv
<1>9. \A l \in LocalIds : /\ local[l] = None /\ l \in used => local'[l] = None
                          /\ local'[l] = None => local[l] = None /\ (l \in userGone => l \in userGone')
  <2> SUFFICES ASSUME NEW l \in LocalIds
               PROVE  /\ local[l] = None /\ l \in used => local'[l] = None
                      /\ local'[l] = None => local[l] = None /\ (l \in userGone => l \in userGone')
    OBVIOUS
  <2>1. CASE local'[l] = local[l] /\ l # i
    BY <1>7, <2>1
  <2>2. CASE l = i /\ local'[i] = v /\ (local[i] # None \/ i \notin used)
    BY <1>1, <2>2
  <2> QED BY <1>5, <2>1, <2>2
<1>10. \A r \in RemoteIds : /\ remote[r] = None /\ r \in used => remote'[r] = None
                            /\ remote'[r] = None => remote[r] = None /\ (r \in userGone => r \in userGone')
  <2> SUFFICES ASSUME NEW r \in RemoteIds
               PROVE  /\ remote[r] = None /\ r \in used => remote'[r] = None
                      /\ remote'[r] = None => remote[r] = None /\ (r \in userGone => r \in userGone')
    OBVIOUS
  <2>1. CASE remote'[r] = remote[r] /\ r # i
    BY <1>7, <2>1
  <2>2. CASE r = i /\ remote'[i] = v /\ (remote[i] # None \/ i \notin used)
    BY <1>1, <2>2
  <2> QED BY <1>6, <2>1, <2>2
<1> QED BY <1>8, <1>9, <1>10 DEF Steady

LEMMA StillIsSteady ==
    ASSUME UsedInv, UNCHANGED <<local, remote, hidden, used, userGone>>
    PROVE  Steady
  BY DEF Steady, UsedInv

LEMMA UserIsSteady ==
    ASSUME IInv, UsedInv, ~Reuse, ~Folder, ~Unreadable, User
    PROVE  Steady /\ ~SyncStep
<1>1. UserStep /\ ~SyncStep
  BY DEF User, UserCreates, UserEdits, UserDeletesRecord, ReadabilityChanges, UserStep, SyncStep, IInv, TypeOK
<1>2. ASSUME NEW v \in Values, NEW i \in LocalIds, UserPutsLocal(i, v), local[i] # None \/ i \notin used
      PROVE  Steady
  BY <1>2, PutIsSteady, FormsType DEF UserPutsLocal, Ids
<1>3. ASSUME NEW v \in Values, NEW i \in RemoteIds, UserPutsRemote(i, v), remote[i] # None \/ i \notin used
      PROVE  Steady
  BY <1>3, PutIsSteady, FormsAssumption DEF UserPutsRemote, Ids
<1>4. CASE UserCreates
  <2>1. PICK v \in Creates : \/ \E i \in LocalIds : MayHandOut(i) /\ UserPutsLocal(i, v)
                             \/ \E i \in RemoteIds : MayHandOut(i) /\ UserPutsRemote(i, v)
    BY <1>4 DEF UserCreates
  <2>2. v \in Values /\ \A i : MayHandOut(i) => i \notin used
    BY StoresAssumption DEF MayHandOut
  <2>3. ASSUME NEW i \in LocalIds, MayHandOut(i), UserPutsLocal(i, v) PROVE Steady
    BY <1>2, <2>2, <2>3
  <2>4. ASSUME NEW i \in RemoteIds, MayHandOut(i), UserPutsRemote(i, v) PROVE Steady
    BY <1>3, <2>2, <2>4
  <2> QED BY <1>1, <2>1, <2>3, <2>4
<1>5. CASE UserEdits
  <2>1. PICK e \in Edits : \/ \E i \in LocalIds : local[i] = e[1] /\ UserPutsLocal(i, e[2])
                           \/ \E i \in RemoteIds : remote[i] = e[1] /\ UserPutsRemote(i, e[2])
    BY <1>5 DEF UserEdits
  <2>2. e[2] \in Values /\ e[1] # None
    BY StoresAssumption, IdsAssumption
  <2>3. ASSUME NEW i \in LocalIds, local[i] = e[1], UserPutsLocal(i, e[2]) PROVE Steady
    BY <1>2, <2>2, <2>3
  <2>4. ASSUME NEW i \in RemoteIds, remote[i] = e[1], UserPutsRemote(i, e[2]) PROVE Steady
    BY <1>3, <2>2, <2>4
  <2> QED BY <1>1, <2>1, <2>3, <2>4
<1>6. CASE UserDeletesRecord
  <2>1. PICK i : /\ local' = [j \in LocalIds |-> IF j = i THEN None ELSE local[j]]
                 /\ remote' = [j \in RemoteIds |-> IF j = i THEN None ELSE remote[j]]
                 /\ hidden' = hidden \ {i} /\ userGone' = userGone \cup {i} /\ used' = used
    BY <1>6 DEF UserDeletesRecord
  <2>2. Present(local') \subseteq Present(local) /\ Present(remote') \subseteq Present(remote)
    BY <2>1 DEF Present, IInv, TypeOK, Listings
  <2> QED BY <1>1, <2>1, <2>2 DEF Steady, UsedInv
<1> QED BY <1>1, <1>4, <1>5, <1>6 DEF User, ReadabilityChanges

LEMMA CallIsSteady ==
    ASSUME IInv, UsedInv, ~Reuse, ~Folder, NEW b \in pending, NEW i \in Maybe(Ids), StoreCall(b, i) \/ NoStoreCall(b, i)
    PROVE  /\ Steady
           /\ b.kind = "create_local" => i \in LocalIds /\ i \in used' /\ local'[i] # None
           /\ b.kind = "create_remote" => i \in RemoteIds /\ i \in used' /\ remote'[i] # None
<1>1. b \in Action /\ WellFormed(b)
  BY DEF IInv, TypeOK
<1>2. LocalIds \cap RemoteIds = {} /\ None \notin Ids /\ None \notin Values
  BY IdsAssumption DEF Ids
<1>3. local \in Listings(LocalIds) /\ remote \in Listings(RemoteIds) /\ hidden = {}
  BY DEF IInv, TypeOK, UsedInv
<1>4. CASE device_create(b, i)
  <2>1. i \in LocalIds /\ i \notin used /\ LocalForm[i][b.rec] \in Values /\ b.kind = "create_local"
    BY <1>1, <1>4, FormsAssumption DEF device_create, FreeLocal, unique_filename, MayHandOut, WellFormed
  <2>2. local' = [local EXCEPT ![i] = LocalForm[i][b.rec]] /\ UNCHANGED remote
        /\ hidden' = hidden \ {i} /\ userGone' = userGone \ {i} /\ HandOut(i)
    BY <1>4 DEF device_create, DeviceStores
  <2>3. Steady
    BY <2>1, <2>2, PutIsSteady DEF Ids
  <2> QED BY <1>2, <1>3, <2>1, <2>2, <2>3 DEF HandOut, Listings
<1>5. CASE device_update(b, i)
  <2>1. i \in LocalIds /\ local[i] # None /\ LocalForm[i][b.rec] \in Values /\ b.kind = "update_local"
    BY <1>1, <1>5, FormsAssumption DEF device_update, WellFormed
  <2>2. local' = [local EXCEPT ![i] = LocalForm[i][b.rec]] /\ UNCHANGED remote
        /\ hidden' = hidden \ {i} /\ userGone' = userGone \ {i} /\ HandOut(i)
    BY <1>5 DEF device_update, DeviceStores
  <2>3. Steady
    BY <2>1, <2>2, PutIsSteady DEF Ids
  <2> QED BY <2>1, <2>3
<1>6. CASE device_delete(b, i)
  <2>1. b.kind = "delete_local" /\ i = b.l /\ local' = [local EXCEPT ![i] = None] /\ hidden' = hidden \ {i}
        /\ UNCHANGED <<remote, used, userGone>>
    BY <1>6 DEF device_delete
  <2>2. Present(local') \subseteq Present(local)
    BY <1>3, <2>1 DEF Present, Listings
  <2>3. \A l \in LocalIds : local'[l] = IF l = i THEN None ELSE local[l]
    BY <1>3, <2>1 DEF Listings
  <2> QED BY <1>3, <2>1, <2>2, <2>3 DEF Steady, UsedInv
<1>7. CASE remote_create(b, i)
  <2>1. i \in RemoteIds /\ i \notin used /\ RemoteForm[b.rec] \in Values /\ b.kind = "create_remote"
    BY <1>1, <1>7, FormsAssumption DEF remote_create, FreeRemote, MayHandOut, WellFormed
  <2>2. remote' = [remote EXCEPT ![i] = RemoteForm[b.rec]] /\ UNCHANGED local
        /\ hidden' = hidden \ {i} /\ userGone' = userGone \ {i} /\ HandOut(i)
    BY <1>7 DEF remote_create, RemoteStores
  <2>3. Steady
    BY <2>1, <2>2, PutIsSteady DEF Ids
  <2> QED BY <1>2, <1>3, <2>1, <2>2, <2>3 DEF HandOut, Listings
<1>8. CASE remote_update(b, i)
  <2>1. i \in RemoteIds /\ remote[i] # None /\ RemoteForm[b.rec] \in Values /\ b.kind = "update_remote"
    BY <1>1, <1>8, FormsAssumption DEF remote_update, WellFormed
  <2>2. remote' = [remote EXCEPT ![i] = RemoteForm[b.rec]] /\ UNCHANGED local
        /\ hidden' = hidden \ {i} /\ userGone' = userGone \ {i} /\ HandOut(i)
    BY <1>8 DEF remote_update, RemoteStores
  <2>3. Steady
    BY <2>1, <2>2, PutIsSteady DEF Ids
  <2> QED BY <2>1, <2>3
<1>9. CASE remote_delete(b, i)
  <2>1. b.kind = "delete_remote" /\ i = b.r /\ remote' = [remote EXCEPT ![i] = None] /\ hidden' = hidden \ {i}
        /\ UNCHANGED <<local, used, userGone>>
    BY <1>9 DEF remote_delete
  <2>2. Present(remote') \subseteq Present(remote)
    BY <1>3, <2>1 DEF Present, Listings
  <2>3. \A r \in RemoteIds : remote'[r] = IF r = i THEN None ELSE remote[r]
    BY <1>3, <2>1 DEF Listings
  <2> QED BY <1>3, <2>1, <2>2, <2>3 DEF Steady, UsedInv
<1>10. CASE NoStoreCall(b, i)
  BY <1>10, StillIsSteady DEF NoStoreCall, StoreKinds
<1> QED BY <1>4, <1>5, <1>6, <1>7, <1>8, <1>9, <1>10 DEF StoreCall

(* Two linked records: the first to go is still one the user deleted.      *)
LEMMA GoneStays ==
    ASSUME PendingInv, Steady, NEW l \in LocalIds \cap used, NEW r \in RemoteIds \cap used, GoneByUser(l, r),
           \A b \in pending : Deletes(b) /\ (b.l = l \/ b.r = r) => b.l = l /\ b.r = r
    PROVE  GoneByUser(l, r)'
<1>1. /\ local[l] = None => local'[l] = None
      /\ remote[r] = None => remote'[r] = None
  BY DEF Steady
<1>2. \A b \in pending : Deletes(b) => DeletionInv(b)
  BY DEF PendingInv
<1>3. ASSUME local'[l] = None, remote'[r] # None PROVE l \in userGone'
  <2>1. CASE local[l] = None
    BY <1>1, <1>3, <2>1 DEF GoneByUser, Steady
  <2>2. CASE local[l] # None
    <3>1. \A b \in pending : b.kind = "delete_local" => b.l # l
      BY <1>1, <1>2, <1>3 DEF DeletionInv, Deletes
    <3> QED BY <1>3, <2>2, <3>1 DEF Steady
  <2> QED BY <2>1, <2>2
<1>4. ASSUME remote'[r] = None, local'[l] # None PROVE r \in userGone'
  <2>1. CASE remote[r] = None
    BY <1>1, <1>4, <2>1 DEF GoneByUser, Steady
  <2>2. CASE remote[r] # None
    <3>1. \A b \in pending : b.kind = "delete_remote" => b.r # r
      BY <1>1, <1>2, <1>4 DEF DeletionInv, Deletes
    <3> QED BY <1>4, <2>2, <3>1 DEF Steady
  <2> QED BY <2>1, <2>2
<1> QED BY <1>3, <1>4 DEF GoneByUser

(* So for every link, in memory or saved, ...                              *)
LEMMA LinksStay ==
    ASSUME IInv, UsedInv, PendingInv, Steady, NEW k \in saved \cup links
    PROVE  k.l \in used' /\ k.r \in used' /\ GoneByUser(k.l, k.r)'
<1>1. k.l \in LocalIds \cap used /\ k.r \in RemoteIds \cap used /\ GoneByUser(k.l, k.r)
  BY DEF IInv, TypeOK, Link, UsedInv
<1>2. ASSUME NEW b \in pending, Deletes(b), b.l = k.l \/ b.r = k.r
      PROVE  b.l = k.l /\ b.r = k.r
  <2>1. PICK x \in links, y \in saved : x.l = b.l /\ x.r = b.r /\ y.l = b.l /\ y.r = b.r
    BY <1>2 DEF PendingInv, DeletionInv, Pairs
  <2> QED BY <1>2, <2>1 DEF IInv, LinksOneToOne, OneToOne
<1>3. GoneByUser(k.l, k.r)'
  BY <1>1, <1>2, GoneStays
<1> QED BY <1>1, <1>3 DEF Steady

(* ... and so for every action that is to come.                            *)
LEMMA ActionsStay ==
    ASSUME IInv, UsedInv, PendingInv, Steady, NEW a \in pending
    PROVE  /\ {a.l, a.r} \ {None} \subseteq used'
           /\ ~Deletes(a) => StandsFor(a)'
           /\ a.kind = "delete_local" => remote'[a.r] = None
           /\ a.kind = "delete_remote" => local'[a.l] = None
<1>1. WellFormed(a) /\ a.l \in Maybe(LocalIds) /\ a.r \in Maybe(RemoteIds) /\ {a.l, a.r} \ {None} \subseteq used
  BY DEF IInv, TypeOK, UsedInv, Action
<1>2. None \notin LocalIds \cup RemoteIds
  BY IdsAssumption
<1>3. \A b \in pending : Deletes(b) => DeletionInv(b)
  BY DEF PendingInv
<1>4. ASSUME ~Deletes(a) PROVE StandsFor(a)'
  <2>1. StandsFor(a)
    BY <1>4 DEF PendingInv
  <2>2. \A b \in pending : Deletes(b) => b.l # a.l /\ b.r # a.r
    BY <1>3, <1>4 DEF DeletionInv
  <2>3. a.kind \in {"create_remote", "update_local", "update_remote", "link"} /\ local'[a.l] = None => a.l \in userGone'
    BY <1>1, <2>1, <2>2 DEF StandsFor, WellFormed, Steady, Deletes
  <2>4. a.kind \in {"create_local", "update_local", "update_remote", "link"} /\ remote'[a.r] = None => a.r \in userGone'
    BY <1>1, <2>1, <2>2 DEF StandsFor, WellFormed, Steady, Deletes
  <2> QED BY <2>3, <2>4 DEF StandsFor
<1>5. ASSUME Deletes(a) PROVE /\ a.kind = "delete_local" => remote'[a.r] = None
                              /\ a.kind = "delete_remote" => local'[a.l] = None
  <2>1. \E k \in links : k.l = a.l /\ k.r = a.r
    BY <1>3, <1>5 DEF DeletionInv, Pairs
  <2>2. a.l \in LocalIds \cap used /\ a.r \in RemoteIds \cap used
    BY <2>1 DEF IInv, TypeOK, Link, UsedInv
  <2> QED BY <1>3, <1>5, <2>2 DEF DeletionInv, Steady
<1> QED BY <1>1, <1>4, <1>5 DEF Steady, Deletes

(* A link made for an action stands for what the action stood for.         *)
LEMMA LinkMade ==
    ASSUME IInv, UsedInv, PendingInv, ~Reuse, ~Folder, NEW b \in pending, NEW i \in Maybe(Ids),
           StoreCall(b, i) \/ NoStoreCall(b, i), NEW k \in apply_one(b, links, i), k \notin links
    PROVE  k.l \in used' /\ k.r \in used' /\ GoneByUser(k.l, k.r)'
<1>1. Steady /\ WellFormed(b) /\ b.kind \in Kinds
  BY CallIsSteady DEF IInv, TypeOK, Action
<1>2. None \notin LocalIds \cup RemoteIds
  BY IdsAssumption
<1>3. /\ {b.l, b.r} \ {None} \subseteq used'
      /\ ~Deletes(b) => StandsFor(b)'
  BY <1>1, ActionsStay
<1>4. ASSUME NEW ks, NEW l, NEW r, NEW v, k \in with_link(links, Agreed(l, r, v))
      PROVE  k.l = l /\ k.r = r
  BY <1>4 DEF with_link, Agreed
<1>5. CASE b.kind \in {"update_local", "update_remote", "link"}
  <2>1. k.l = b.l /\ k.r = b.r
    BY <1>4, <1>5 DEF apply_one
  <2>2. b.l # None /\ b.r # None
    BY <1>1, <1>2, <1>5 DEF WellFormed
  <2> QED BY <1>3, <1>5, <2>1, <2>2 DEF StandsFor, GoneByUser, Deletes
<1>6. CASE b.kind = "create_remote"
  <2>1. k.l = b.l /\ k.r = i
    BY <1>4, <1>6 DEF apply_one
  <2>2. b.l # None /\ i \in used' /\ remote'[i] # None
    BY <1>1, <1>2, <1>6, CallIsSteady DEF WellFormed
  <2> QED BY <1>3, <1>6, <2>1, <2>2 DEF StandsFor, GoneByUser, Deletes
<1>7. CASE b.kind = "create_local"
  <2>1. k.l = i /\ k.r = b.r
    BY <1>4, <1>7 DEF apply_one
  <2>2. b.r # None /\ i \in used' /\ local'[i] # None
    BY <1>1, <1>2, <1>7, CallIsSteady DEF WellFormed
  <2> QED BY <1>3, <1>7, <2>1, <2>2 DEF StandsFor, GoneByUser, Deletes
<1>8. CASE b.kind \in {"delete_local", "delete_remote", "unlink", "skip"}
  BY <1>8 DEF apply_one, without
<1> QED BY <1>1, <1>5, <1>6, <1>7, <1>8 DEF Kinds, StoreKinds

(* The links of deletions still to come outlive the actions before them.   *)
LEMMA LinkKept ==
    ASSUME IInv, PendingInv, NEW a \in pending, Deletes(a), NEW b \in pending, b # a, b.stage <= a.stage, NEW i
    PROVE  <<a.l, a.r>> \in Pairs(apply_one(b, links, i))
<1>1. DeletionInv(a) /\ b.l # a.l /\ b.r # a.r
  BY DEF PendingInv, DeletionInv
<1>2. b.stage = 1 /\ b.kind \in Kinds \ {"create_local", "create_remote"}
  BY <1>1 DEF DeletionInv, IInv, TypeOK, Action, PendingInv
<1>3. PICK k \in links : k.l = a.l /\ k.r = a.r
  BY <1>1 DEF DeletionInv, Pairs
<1>4. k.l # None /\ k.r # None
  BY IdsAssumption DEF IInv, TypeOK, Link
<1>5. k \in apply_one(b, links, i)
  <2>1. CASE b.kind \in {"update_local", "update_remote", "link"}
    BY <1>1, <1>3, <2>1 DEF apply_one, with_link, Agreed
  <2>2. CASE b.kind \in {"delete_local", "delete_remote", "unlink", "skip"}
    BY <1>1, <1>3, <1>4, <2>2 DEF apply_one, without
  <2> QED BY <1>2, <2>1, <2>2 DEF Kinds, StoreKinds
<1> QED BY <1>3, <1>5 DEF Pairs

LEMMA ActionDeletes ==
    ASSUME IInv, DeleteInv, ~Reuse, ~Folder, NEW b \in pending,
           Apply(b) \/ Refuse(b) \/ Fail(b) \/ LoseAnswer(b) \/ CutUpload(b)
    PROVE  DeleteInv' /\ Steady
<1>1. /\ phase = "apply" /\ phase' = "apply" /\ pending' = pending \ {b} /\ UNCHANGED <<saved, localItems>>
      /\ \A a \in pending : b.stage <= a.stage
  BY DEF Apply, Refuse, Fail, LoseAnswer, CutUpload, Error, Done, Ready
<1>2. ASSUME Steady,
             \A k \in links' : k \in links \/ (k.l \in used' /\ k.r \in used' /\ GoneByUser(k.l, k.r)'),
             \A a \in pending' : Deletes(a) => <<a.l, a.r>> \in Pairs(links')
      PROVE  DeleteInv'
  <2>1. UsedInv'
    <3>1. \A k \in saved' \cup links' : k.l \in used' /\ k.r \in used' /\ GoneByUser(k.l, k.r)'
      BY <1>1, <1>2, LinksStay DEF DeleteInv
    <3>2. \A a \in pending' : {a.l, a.r} \ {None} \subseteq used'
      BY <1>1, <1>2, ActionsStay DEF DeleteInv
    <3>3. hidden' = {} /\ Present(local') \cup Present(remote') \cup Present(localItems') \subseteq used'
      BY <1>1, <1>2 DEF Steady, DeleteInv, UsedInv
    <3> QED BY <3>1, <3>2, <3>3 DEF UsedInv
  <2>2. ListedInv'
    BY <1>1 DEF ListedInv
  <2>3. ASSUME NEW a \in pending' PROVE IF Deletes(a) THEN DeletionInv(a)' ELSE StandsFor(a)'
    BY <1>1, <1>2, ActionsStay DEF DeleteInv, PendingInv, DeletionInv
  <2>4. PendingInv'
    BY <1>1, <2>3 DEF DeleteInv, PendingInv
  <2> QED BY <2>1, <2>2, <2>4 DEF DeleteInv
<1>3. \A a \in pending : Deletes(a) => <<a.l, a.r>> \in Pairs(links)
  BY DEF DeleteInv, PendingInv, DeletionInv
<1>4. CASE Apply(b)
  <2>1. PICK i \in Maybe(Ids) : (StoreCall(b, i) \/ NoStoreCall(b, i)) /\ links' = apply_one(b, links, i)
    BY <1>4 DEF Apply
  <2>2. Steady
    BY <2>1, CallIsSteady DEF DeleteInv
  <2>3. \A k \in links' : k \in links \/ (k.l \in used' /\ k.r \in used' /\ GoneByUser(k.l, k.r)')
    BY <2>1, LinkMade DEF DeleteInv
  <2>4. \A a \in pending' : Deletes(a) => <<a.l, a.r>> \in Pairs(links')
    BY <1>1, <2>1, LinkKept DEF DeleteInv
  <2> QED BY <1>2, <2>2, <2>3, <2>4
<1>5. CASE LoseAnswer(b)
  <2>1. links' = links /\ Steady
    BY <1>5, CallIsSteady DEF LoseAnswer, Error, DeleteInv
  <2> QED BY <1>1, <1>2, <1>3, <2>1
<1>6. CASE Refuse(b) \/ Fail(b)
  <2>1. links' = links /\ UNCHANGED <<local, remote, hidden, used, userGone>>
    BY <1>6 DEF Refuse, Fail, Error, stores
  <2> QED BY <1>1, <1>2, <1>3, <2>1, StillIsSteady DEF DeleteInv
<1> QED BY <1>4, <1>5, <1>6 DEF CutUpload

(* What a plan lines up may be carried out.                                *)
LEMMA PlanDeletes ==
    ASSUME IInv, DeleteInv, Plan
    PROVE  DeleteInv' /\ Steady
<1>1. PICK P \in Pairings(localItems, remote, links) : pending' = plan(localItems, remote, links, P, args)
  <2>1. Listing(remote) = remote
    BY DEF Listing, DeleteInv, UsedInv, IInv, TypeOK, Listings
  <2> QED BY <2>1 DEF Plan
<1>2. /\ UNCHANGED <<local, remote, hidden, used, userGone, saved, links, localItems>>
      /\ phase = "listed" /\ phase' = "apply" /\ links = saved
  BY DEF Plan, stores, DeleteInv, ListedInv
<1>3. localItems \in Listings(LocalIds) /\ remote \in Listings(RemoteIds) /\ links \subseteq Link /\ args \in Options
  BY DEF IInv, TypeOK
<1>4. None \notin LocalIds \cup RemoteIds
  BY IdsAssumption
<1>5. \A l \in new_local(localItems, links) :
        l \in LocalIds /\ l \in used /\ localItems[l] # None /\ \A k \in links : k.l # l
  BY <1>3 DEF new_local, Present, Listings, DeleteInv, UsedInv
<1>6. \A r \in new_remote(remote, links) :
        r \in RemoteIds /\ r \in used /\ remote[r] # None /\ \A k \in links : k.r # r
  BY <1>3 DEF new_remote, Present, Listings, DeleteInv, UsedInv
<1>7. ASSUME NEW a \in pending'
      PROVE  \/ \E k \in links : a \in plan_link(k, localItems, remote, args)
             \/ /\ a.stage \in {2, 3} /\ ~Deletes(a)
                /\ a.l \in new_local(localItems, links) \cup {None} /\ a.r \in new_remote(remote, links) \cup {None}
                /\ a.kind \in {"create_remote", "update_local", "update_remote", "link"} => a.l \in new_local(localItems, links)
                /\ a.kind \in {"create_local", "update_local", "update_remote", "link"} => a.r \in new_remote(remote, links)
  BY <1>1, NewActions
<1>8. \A l \in LocalIds : localItems[l] # None /\ local[l] = None => l \in userGone
  BY <1>2 DEF DeleteInv, ListedInv
<1>9. ASSUME NEW a \in pending'
      PROVE  /\ {a.l, a.r} \ {None} \subseteq used
             /\ a.stage = 1 => a.kind \notin {"create_local", "create_remote"}
             /\ ~Deletes(a) => StandsFor(a)
  <2>1. CASE \E k \in links : a \in plan_link(k, localItems, remote, args)
    <3>1. PICK k \in links : a \in plan_link(k, localItems, remote, args)
      BY <2>1
    <3>2. k \in Link /\ k.l \in LocalIds /\ k.r \in RemoteIds /\ k.l \in used /\ k.r \in used
      BY <1>3 DEF Link, DeleteInv, UsedInv
    <3>3. /\ a.l = k.l /\ a.r = k.r /\ a.kind \notin {"create_local", "create_remote"}
          /\ a.kind \in {"update_local", "update_remote", "link"} => localItems[k.l] # None /\ remote[k.r] # None
      BY <1>3, <3>1, <3>2, LinkActions
    <3> QED BY <1>8, <3>2, <3>3 DEF StandsFor
  <2>2. CASE ~\E k \in links : a \in plan_link(k, localItems, remote, args)
    BY <1>5, <1>6, <1>7, <1>8, <2>2 DEF StandsFor
  <2> QED BY <2>1, <2>2
<1>10. ASSUME NEW a \in pending', Deletes(a)
       PROVE  DeletionInv(a)'
  <2>1. PICK k \in links : a \in plan_link(k, localItems, remote, args)
    BY <1>7, <1>10
  <2>2. k \in Link /\ k.l \in LocalIds /\ k.r \in RemoteIds
    BY <1>3 DEF Link
  <2>3. /\ a.l = k.l /\ a.r = k.r /\ a.stage = 1 /\ plan_link(k, localItems, remote, args) = {a}
        /\ a.kind = "delete_local" => remote[k.r] = None
        /\ a.kind = "delete_remote" => localItems[k.l] = None
    BY <1>3, <2>1, <2>2, LinkActions
  <2>4. localItems[k.l] = None => local[k.l] = None
    BY <1>2 DEF DeleteInv, ListedInv
  <2>5. ASSUME NEW b \in pending', a.l = b.l \/ a.r = b.r PROVE a = b
    <3>1. PICK j \in links : b \in plan_link(j, localItems, remote, args)
      BY <1>4, <1>5, <1>6, <1>7, <2>2, <2>3, <2>5
    <3>2. j \in Link /\ b.l = j.l /\ b.r = j.r
      BY <1>3, <3>1, LinkActions
    <3>3. j = k
      BY <2>3, <2>5, <3>2 DEF IInv, LinksOneToOne, OneToOne
    <3> QED BY <2>3, <3>1, <3>3
  <2>6. <<a.l, a.r>> \in Pairs(links') \cap Pairs(saved')
    BY <1>2, <2>3 DEF Pairs
  <2> QED BY <1>2, <2>3, <2>4, <2>5, <2>6 DEF DeletionInv
<1>11. UsedInv'
  BY <1>2, <1>9 DEF DeleteInv, UsedInv, GoneByUser
<1>12. ListedInv'
  BY <1>2 DEF ListedInv
<1>13. PendingInv'
  BY <1>2, <1>9, <1>10 DEF PendingInv, StandsFor
<1> QED BY <1>2, <1>11, <1>12, <1>13, StillIsSteady DEF DeleteInv

(* Between two plans nothing is pending.                                   *)
LEMMA RestDeletes ==
    ASSUME IInv, DeleteInv, UNCHANGED <<local, remote, hidden, used, userGone>>, pending' = {},
           phase' # "listed", Present(localItems') \subseteq used,
           \A k \in saved' \cup links' : \E j \in saved \cup links : k.l = j.l /\ k.r = j.r
    PROVE  DeleteInv' /\ Steady
<1>1. Steady
  BY StillIsSteady DEF DeleteInv
<1>2. UsedInv'
  BY DEF DeleteInv, UsedInv, GoneByUser
<1>3. ListedInv' /\ PendingInv'
  BY DEF ListedInv, PendingInv
<1> QED BY <1>1, <1>2, <1>3 DEF DeleteInv

LEMMA StepDeletes ==
    ASSUME IInv, DeleteInv, [Next]_vars, ~Folder, ~Reuse, ~Unreadable
    PROVE  DeleteInv' /\ Steady
<1>1. /\ local \in Listings(LocalIds) /\ hidden = {} /\ Listing(local) = local
      /\ Present(local) \subseteq used /\ Present(localItems) \subseteq used
  BY DEF DeleteInv, UsedInv, IInv, TypeOK, Listing, Listings
<1>2. Present(NoItems(LocalIds)) = {}
  BY DEF Present, NoItems
<1>3. CASE User
  <2>1. Steady
    BY <1>3, UserIsSteady DEF DeleteInv
  <2>2. UNCHANGED <<saved, links, pending, phase, localItems>>
    BY <1>3 DEF User, UserCreates, UserEdits, UserDeletesRecord, ReadabilityChanges, UserStep, memory
  <2>3. UsedInv'
    <3>1. \A k \in saved' \cup links' : k.l \in used' /\ k.r \in used' /\ GoneByUser(k.l, k.r)'
      BY <2>1, <2>2, LinksStay DEF DeleteInv
    <3>2. \A a \in pending' : {a.l, a.r} \ {None} \subseteq used'
      BY <2>1, <2>2, ActionsStay DEF DeleteInv
    <3> QED BY <2>1, <2>2, <3>1, <3>2 DEF UsedInv, DeleteInv, Steady
  <2>4. ListedInv'
    <3>1. ASSUME phase = "listed"
          PROVE  /\ links' = saved' /\ pending = {}
                 /\ \A l \in LocalIds : localItems'[l] # None /\ local'[l] = None => l \in userGone'
      BY <2>1, <2>2, <3>1 DEF DeleteInv, ListedInv, PendingInv, Steady
    <3>2. ASSUME phase = "listed", NEW k \in saved, localItems[k.l] = None
          PROVE  local'[k.l] = None
      <4>1. k.l \in LocalIds /\ k.l \in used /\ local[k.l] = None
        BY <3>2 DEF IInv, TypeOK, Link, DeleteInv, UsedInv, ListedInv
      <4> QED BY <2>1, <4>1 DEF Steady
    <3> QED BY <2>2, <3>1, <3>2 DEF ListedInv
  <2>5. PendingInv'
    <3>1. ASSUME NEW a \in pending' PROVE IF Deletes(a) THEN DeletionInv(a)' ELSE StandsFor(a)'
      BY <2>1, <2>2, ActionsStay DEF DeleteInv, PendingInv, DeletionInv
    <3> QED BY <2>2, <3>1 DEF DeleteInv, PendingInv
  <2> QED BY <2>1, <2>3, <2>4, <2>5 DEF DeleteInv
<1>4. CASE \E o \in Runs : Start(o)
  <2>1. UNCHANGED <<local, remote, hidden, used, userGone, saved, pending>> /\ links' = saved
        /\ localItems' = local /\ phase = "idle" /\ phase' = "listed"
    BY <1>1, <1>4 DEF Start, stores
  <2>2. pending' = {}
    BY <2>1 DEF DeleteInv, PendingInv
  <2>3. UsedInv'
    BY <1>1, <2>1, <2>2 DEF DeleteInv, UsedInv, GoneByUser
  <2>4. ListedInv'
    BY <2>1 DEF ListedInv
  <2>5. PendingInv'
    BY <2>2 DEF PendingInv
  <2>6. Steady
    BY <2>1, StillIsSteady DEF DeleteInv
  <2> QED BY <2>3, <2>4, <2>5, <2>6 DEF DeleteInv
<1>5. CASE Plan
  BY <1>5, PlanDeletes
<1>6. CASE DryRun \/ Crash \/ SaveUntouched
  <2>1. UNCHANGED <<local, remote, hidden, used, userGone>> /\ pending' = {} /\ phase' = "idle"
        /\ localItems' = NoItems(LocalIds) /\ links' = {} /\ saved' \subseteq saved \cup links
    BY <1>6 DEF DryRun, Crash, SaveUntouched, Exit, stores
  <2> QED BY <1>2, <2>1, RestDeletes
<1>7. CASE SaveRefreshed
  <2>1. UNCHANGED <<local, remote, hidden, used, userGone>> /\ pending' = {} /\ phase' = "idle"
        /\ localItems' = NoItems(LocalIds) /\ links' = {}
    BY <1>7 DEF SaveRefreshed, Exit, stores
  <2>2. ASSUME NEW k \in saved' PROVE \E j \in links : k.l = j.l /\ k.r = j.r
    <3>1. PICK j \in links :
            k = [j EXCEPT !.lh = IF j.l \in touched /\ localItems[j.l] # None THEN localItems[j.l] ELSE @,
                          !.rh = IF j.r \in touched /\ Listing(remote)[j.r] # None THEN Listing(remote)[j.r] ELSE @]
      BY <1>7 DEF SaveRefreshed, refresh_hashes
    <3>2. j \in Link
      BY DEF IInv, TypeOK
    <3> QED BY <3>1, <3>2 DEF Link
  <2> QED BY <1>2, <2>1, <2>2, RestDeletes
<1>8. CASE Relist
  BY <1>1, <1>8, RestDeletes DEF Relist, stores
<1>9. CASE StateLost
  <2>1. UNCHANGED <<local, remote, hidden, used, userGone, pending, links, localItems, phase>> /\ saved' = {} /\ phase = "idle"
    BY <1>9 DEF StateLost, stores, memory
  <2>2. pending' = {}
    BY <2>1 DEF DeleteInv, PendingInv
  <2> QED BY <1>1, <2>1, <2>2, RestDeletes
<1>10. CASE UNCHANGED vars
  <2>1. UNCHANGED <<local, remote, hidden, used, userGone, pending, links, saved, localItems, phase>>
    BY <1>10 DEF vars, stores, memory
  <2> QED BY <2>1, StillIsSteady DEF DeleteInv, UsedInv, ListedInv, PendingInv, GoneByUser, StandsFor, DeletionInv
<1>11. ASSUME NEW b \in pending, Apply(b) \/ Refuse(b) \/ Fail(b) \/ LoseAnswer(b) \/ CutUpload(b)
       PROVE  DeleteInv' /\ Steady
  BY <1>11, ActionDeletes
<1> QED BY <1>3, <1>4, <1>5, <1>6, <1>7, <1>8, <1>9, <1>10, <1>11 DEF Next, Sync, Trouble

(* On a database account, where ids are never handed out twice and list()  *)
(* skips no record, the sync deletes a record only because the user did    *)
(* delete its counterpart: also when the user works on both sides during   *)
(* the run, and whatever failed, was lost or crashed before                *)
(* (engine.py, _plan_link).                                                *)
THEOREM DeletesAreTheUsers ==
    ASSUME ~Folder, ~Reuse, ~Unreadable
    PROVE  Spec => DeletesFollowTheUser
<1> DEFINE Follow ==
      SyncStep =>
         /\ \A r \in RemoteIds : remote[r] # None /\ remote'[r] = None
              => \E k \in links : k.r = r /\ k.l \in userGone
         /\ \A l \in LocalIds : local[l] # None /\ local'[l] = None
              => \E k \in links : k.l = l /\ k.r \in userGone
<1>1. Init => IInv /\ DeleteInv
  <2> SUFFICES ASSUME Init PROVE DeleteInv
    BY InitType
  <2>1. Present(localItems) = {}
    BY DEF Init, Present, NoItems
  <2> QED BY <2>1 DEF Init, DeleteInv, UsedInv, ListedInv, PendingInv
<1>2. IInv /\ DeleteInv /\ [Next]_vars => (IInv /\ DeleteInv)' /\ Follow
  <2> SUFFICES ASSUME IInv, DeleteInv, [Next]_vars PROVE (IInv /\ DeleteInv)' /\ Follow
    OBVIOUS
  <2>1. IInv' /\ DeleteInv' /\ Steady
    BY StepType, StepDeletes
  <2>2. \A b \in pending : Deletes(b) => \E k \in links : k.l = b.l /\ k.r = b.r /\ GoneByUser(k.l, k.r)
    BY DEF DeleteInv, PendingInv, DeletionInv, Pairs, UsedInv
  <2>3. \A b \in pending : /\ b.kind = "delete_local" => remote[b.r] = None
                           /\ b.kind = "delete_remote" => local[b.l] = None
    BY DEF DeleteInv, PendingInv, DeletionInv, Deletes
  <2>4. ASSUME SyncStep, NEW r \in RemoteIds, remote[r] # None, remote'[r] = None
        PROVE  \E k \in links : k.r = r /\ k.l \in userGone
    <3>1. PICK b \in pending : b.kind = "delete_remote" /\ b.r = r
      BY <2>1, <2>4 DEF Steady
    <3> QED BY <2>2, <2>3, <2>4, <3>1 DEF Deletes, GoneByUser
  <2>5. ASSUME SyncStep, NEW l \in LocalIds, local[l] # None, local'[l] = None
        PROVE  \E k \in links : k.l = l /\ k.r \in userGone
    <3>1. PICK b \in pending : b.kind = "delete_local" /\ b.l = l
      BY <2>1, <2>5 DEF Steady
    <3> QED BY <2>2, <2>3, <2>5, <3>1 DEF Deletes, GoneByUser
  <2> QED BY <2>1, <2>4, <2>5
<1> QED BY <1>1, <1>2, PTL DEF Spec, DeletesFollowTheUser

-------------------------------------------------------------------------------
(***************************************************************************)
(* Settling.  While a complete run goes on undisturbed and without errors, *)
(* every link is either as both sides list it, but for what the refresh    *)
(* will record, or has an action to come; and so has every listed record   *)
(* that is not linked.  L and R are the listings, ks the links, Q the      *)
(* actions to come and T the ids written so far.                           *)
(***************************************************************************)
AsListed(k, L, R, T) ==
    /\ L[k.l] # None /\ (k.l \in T \/ L[k.l] = k.lh)
    /\ R[k.r] # None /\ (k.r \in T \/ R[k.r] = k.rh)

Linked(L, R, ks) ==
    /\ \A l \in Present(L) : \E k \in ks : k.l = l
    /\ \A r \in Present(R) : \E k \in ks : k.r = r

InStep(L, R, ks) == Linked(L, R, ks) /\ \A k \in ks : AsListed(k, L, R, {})

(* An action to come fits what is listed now.                              *)
Fits(a, L, R, Q) ==
    \/ /\ a.l \in LocalIds /\ a.r \in RemoteIds
       /\ \/ a.kind = "update_local" /\ a.stage \in {1, 2} /\ L[a.l] # None /\ R[a.r] = a.rec
          \/ a.kind = "update_remote" /\ a.stage \in {1, 2} /\ R[a.r] # None /\ L[a.l] = a.rec
          \/ /\ a.kind = "link" /\ a.stage \in {1, 2} /\ L[a.l] = a.rec /\ R[a.r] # None
             /\ R[a.r] = a.rec \/ \E b \in Q : b # a /\ b.l = a.l /\ b.r = a.r
          \/ a.kind = "delete_local" /\ a.stage = 1 /\ R[a.r] = None
          \/ a.kind = "delete_remote" /\ a.stage = 1 /\ L[a.l] = None
          \/ a.kind = "unlink" /\ a.stage = 1 /\ L[a.l] = None /\ R[a.r] = None
    \/ a.kind = "create_remote" /\ a.stage = 2 /\ a.l \in LocalIds /\ a.r = None /\ L[a.l] = a.rec
    \/ a.kind = "create_local" /\ a.stage = 3 /\ a.l = None /\ a.r \in RemoteIds /\ R[a.r] = a.rec

(* Two actions for one record are the link of a new pair and its conflict. *)
Meet(a, b) == (a.l = b.l /\ a.l # None) \/ (a.r = b.r /\ a.r # None)
PairAndConflict(a, b) ==
    /\ a.l = b.l /\ a.r = b.r /\ a.stage = 2 /\ b.stage = 2
    /\ \/ a.kind = "link" /\ b.kind \in {"update_local", "update_remote"}
       \/ b.kind = "link" /\ a.kind \in {"update_local", "update_remote"}
Apart(Q) == \A a, b \in Q : Meet(a, b) => a = b \/ PairAndConflict(a, b)

OnTheWay(L, R, ks, Q, T) ==
    /\ \A k \in ks : AsListed(k, L, R, T) \/ \E a \in Q : a.l = k.l /\ a.r = k.r
    /\ \A l \in Present(L) : (\E k \in ks : k.l = l) \/ \E a \in Q : a.l = l
    /\ \A r \in Present(R) : (\E k \in ks : k.r = r) \/ \E a \in Q : a.r = r
    /\ \A a \in Q : Fits(a, L, R, Q) /\ \A k \in ks : a.l = k.l <=> a.r = k.r
    /\ Apart(Q)

Going == quiet /\ ~errors /\ Complete(args)
OnDevice == Listing(local)
OnRemote == Listing(remote)

SettleInv ==
    /\ phase # "apply" => pending = {}
    /\ phase \in {"idle", "listed"} => touched = {}
    /\ phase = "listed" => links = saved
    /\ Going /\ phase = "listed" => localItems = OnDevice /\ raw = local
    /\ Going /\ phase = "apply" => /\ OnTheWay(OnDevice, OnRemote, links, pending, touched)
                                   /\ \A l \in LocalIds : raw[l] = None => local[l] = None
    /\ Going /\ phase = "relisted" => /\ localItems = OnDevice /\ Linked(OnDevice, OnRemote, links)
                                      /\ \A k \in links : AsListed(k, OnDevice, OnRemote, touched)
    /\ settled => /\ InStep(OnDevice, OnRemote, saved) /\ phase # "relisted"
                  /\ phase = "listed" => localItems = OnDevice
                  /\ phase = "apply" => pending = {} /\ touched = {} /\ links = saved

(* In step means that there is nothing to plan, ...                        *)
LEMMA NothingToPlan ==
    ASSUME NEW L, NEW R, NEW ks \in SUBSET Link, InStep(L, R, ks), NEW P \in Pairings(L, R, ks), NEW o
    PROVE  plan(L, R, ks, P, o) = {}
<1>1. new_local(L, ks) = {} /\ new_remote(R, ks) = {}
  BY DEF InStep, Linked, new_local, new_remote
<1>2. P = {}
  BY <1>1 DEF Pairings
<1>3. ASSUME NEW k \in ks PROVE plan_link(k, L, R, o) = {}
  BY <1>3 DEF InStep, AsListed, plan_link
<1>4. ASSUME NEW a \in plan(L, R, ks, P, o) PROVE FALSE
  BY <1>1, <1>2, <1>3, <1>4, PlanCases
<1> QED BY <1>4

(* ... and it is what the refresh of the hashes makes of links that are    *)
(* all as listed.                                                          *)
LEMMA RefreshedInStep ==
    ASSUME NEW L \in Listings(LocalIds), NEW R \in Listings(RemoteIds), NEW ks \in SUBSET Link, NEW T,
           Linked(L, R, ks), \A k \in ks : AsListed(k, L, R, T)
    PROVE  InStep(L, R, refresh_hashes(ks, L, R, T))
<1> DEFINE f(k) == [k EXCEPT !.lh = IF k.l \in T /\ L[k.l] # None THEN L[k.l] ELSE @,
                             !.rh = IF k.r \in T /\ R[k.r] # None THEN R[k.r] ELSE @]
<1>1. ASSUME NEW k \in ks
      PROVE  f(k).l = k.l /\ f(k).r = k.r /\ AsListed(f(k), L, R, {})
  BY DEF Link, AsListed
<1>2. refresh_hashes(ks, L, R, T) = {f(k) : k \in ks}
  BY DEF refresh_hashes
<1> HIDE DEF f
<1> QED BY <1>1, <1>2 DEF InStep, Linked

(* What an action does to the listings.                                    *)
Effect(b, i, L, R, L2, R2) ==
    \/ /\ b.kind = "create_local" /\ i \in LocalIds /\ L[i] = None /\ R2 = R
       /\ \E v \in Values : L2 = [L EXCEPT ![i] = v]
    \/ /\ b.kind = "create_remote" /\ i \in RemoteIds /\ R[i] = None /\ L2 = L
       /\ \E v \in Values : R2 = [R EXCEPT ![i] = v]
    \/ b.kind = "update_local" /\ R2 = R /\ \E v \in Values : L2 = [L EXCEPT ![b.l] = v]
    \/ b.kind = "update_remote" /\ L2 = L /\ \E v \in Values : R2 = [R EXCEPT ![b.r] = v]
    \/ b.kind = "delete_local" /\ R2 = R /\ L2 = [L EXCEPT ![b.l] = None]
    \/ b.kind = "delete_remote" /\ L2 = L /\ R2 = [R EXCEPT ![b.r] = None]
    \/ b.kind \in {"link", "unlink"} /\ L2 = L /\ R2 = R

First(b, Q) == \A a \in Q : b.stage <= a.stage /\ (a.kind = "link" /\ a.l = b.l /\ a.r = b.r => a = b)

(* It leaves the records of the other actions to come alone.               *)
LEMMA OthersFit ==
    ASSUME NEW L \in Listings(LocalIds), NEW R \in Listings(RemoteIds), NEW ks \in SUBSET Link,
           NEW Q \in SUBSET Action, \A a \in Q : WellFormed(a), NEW T, OnTheWay(L, R, ks, Q, T),
           NEW b \in Q, First(b, Q), NEW i, NEW L2, NEW R2, Effect(b, i, L, R, L2, R2), NEW a \in Q \ {b}
    PROVE  /\ Fits(a, L2, R2, Q \ {b})
           /\ Meet(a, b) => b.kind = "link" /\ PairAndConflict(a, b)
           /\ b.kind = "create_local" => a.l # i
           /\ b.kind = "create_remote" => a.r # i
<1>1. Fits(a, L, R, Q) /\ Fits(b, L, R, Q) /\ b.stage <= a.stage
  BY DEF OnTheWay, First
<1> WellFormed(a)
  OBVIOUS
<1>2. None \notin LocalIds \cup RemoteIds \cup Values
  BY IdsAssumption
<1>3. Meet(a, b) => b.kind = "link" /\ PairAndConflict(a, b)
  BY DEF OnTheWay, Apart, First, PairAndConflict
<1>4. b.kind = "create_local" => a.l = None /\ i # None
  BY <1>1, <1>2 DEF Fits, Effect
<1>5. b.kind = "create_remote" => a.r # i
  BY <1>1, <1>2 DEF Fits, Effect, WellFormed
<1>6. a.l \in LocalIds => L2[a.l] = L[a.l]
  BY <1>2, <1>3, <1>4 DEF Effect, Meet, Listings
<1>7. a.r \in RemoteIds => R2[a.r] = R[a.r]
  BY <1>2, <1>3, <1>5 DEF Effect, Meet, Listings
<1>8. ASSUME a.kind = "link", NEW c \in Q, c # a, c.l = a.l, c.r = a.r
      PROVE  c # b
  BY <1>8 DEF First
<1>9. Fits(a, L2, R2, Q \ {b})
  BY <1>1, <1>6, <1>7, <1>8 DEF Fits
<1> QED BY <1>3, <1>4, <1>5, <1>9

(* An action carried out leaves the run on its way.                        *)
LEMMA StillOnTheWay ==
    ASSUME NEW L \in Listings(LocalIds), NEW R \in Listings(RemoteIds), NEW ks \in SUBSET Link,
           NEW Q \in SUBSET Action, \A a \in Q : WellFormed(a), NEW T, OnTheWay(L, R, ks, Q, T),
           NEW b \in Q, First(b, Q), NEW i, NEW L2, NEW R2, Effect(b, i, L, R, L2, R2)
    PROVE  OnTheWay(L2, R2, apply_one(b, ks, i), Q \ {b}, T \cup touch(b, i))
<1> DEFINE ks2 == apply_one(b, ks, i)
           Q2 == Q \ {b}
           T2 == T \cup touch(b, i)
<1> WellFormed(b)
  OBVIOUS
<1>1. /\ Fits(b, L, R, Q)
      /\ \A k \in ks : b.l = k.l <=> b.r = k.r
      /\ \A k \in ks : AsListed(k, L, R, T) \/ \E a \in Q : a.l = k.l /\ a.r = k.r
      /\ \A l \in Present(L) : (\E k \in ks : k.l = l) \/ \E a \in Q : a.l = l
      /\ \A r \in Present(R) : (\E k \in ks : k.r = r) \/ \E a \in Q : a.r = r
      /\ \A a \in Q : \A k \in ks : a.l = k.l <=> a.r = k.r
      /\ Apart(Q)
  BY DEF OnTheWay
<1>2. None \notin LocalIds \cup RemoteIds \cup Values
  BY IdsAssumption
<1>3. \A a \in Q2 : /\ Fits(a, L2, R2, Q2)
                    /\ Meet(a, b) => b.kind = "link" /\ PairAndConflict(a, b)
                    /\ b.kind = "create_local" => a.l # i
                    /\ b.kind = "create_remote" => a.r # i
  BY OthersFit
<1>4. \A k \in ks : k.l \in LocalIds /\ k.r \in RemoteIds
  BY DEF Link
<1>5. Apart(Q2)
  BY <1>1 DEF Apart
<1> SUFFICES OnTheWay(L2, R2, ks2, Q2, T2)
  OBVIOUS
<1> HIDE DEF ks2, Q2, T2
<1>10. CASE b.kind \in {"delete_local", "delete_remote", "unlink"}
  <2>1. b.l \in LocalIds /\ b.r \in RemoteIds /\ T2 = T
    BY <1>1, <1>10 DEF Fits, touch, T2
  <2>2. \A k \in ks : k \in ks2 <=> k.l # b.l
    BY <1>1, <1>2, <1>4, <1>10 DEF apply_one, without, ks2
  <2>3. ks2 \subseteq ks
    BY <1>10 DEF apply_one, without, ks2
  <2>4. L2[b.l] = None /\ R2[b.r] = None
        /\ (\A l \in LocalIds : l # b.l => L2[l] = L[l]) /\ (\A r \in RemoteIds : r # b.r => R2[r] = R[r])
        /\ DOMAIN L2 = LocalIds /\ DOMAIN R2 = RemoteIds
    BY <1>1, <1>10, <2>1 DEF Effect, Fits, Listings
  <2>5. ASSUME NEW k \in ks2 PROVE AsListed(k, L2, R2, T2) \/ \E a \in Q2 : a.l = k.l /\ a.r = k.r
    <3>1. k \in ks /\ k.l # b.l /\ k.r # b.r
      BY <1>1, <2>2, <2>3
    <3> QED BY <1>1, <1>4, <2>1, <2>4, <3>1 DEF AsListed, Q2
  <2>6. ASSUME NEW l \in Present(L2) PROVE (\E k \in ks2 : k.l = l) \/ \E a \in Q2 : a.l = l
    <3>1. l \in Present(L) /\ l # b.l
      BY <2>4 DEF Present, Listings
    <3> QED BY <1>1, <2>2, <3>1 DEF Q2
  <2>7. ASSUME NEW r \in Present(R2) PROVE (\E k \in ks2 : k.r = r) \/ \E a \in Q2 : a.r = r
    <3>1. r \in Present(R) /\ r # b.r
      BY <2>4 DEF Present, Listings
    <3> QED BY <1>1, <2>2, <3>1 DEF Q2
  <2>8. \A a \in Q2 : \A k \in ks2 : a.l = k.l <=> a.r = k.r
    BY <1>1, <2>3 DEF Q2
  <2> QED BY <1>3, <1>5, <2>5, <2>6, <2>7, <2>8 DEF OnTheWay
<1>11. CASE b.kind \in {"update_local", "update_remote", "link"}
  <2> DEFINE n == Agreed(b.l, b.r, b.rec)
  <2>1. b.l \in LocalIds /\ b.r \in RemoteIds /\ b.rec \in Values /\ n.l = b.l /\ n.r = b.r /\ n.lh = b.rec /\ n.rh = b.rec
    BY <1>11 DEF WellFormed, Agreed
  <2>2. ks2 = with_link(ks, n)
    BY <1>11 DEF apply_one, ks2
  <2>3. \A k \in ks : k.l # b.l => k \in ks2
    BY <1>1, <2>1, <2>2 DEF with_link
  <2>4. n \in ks2 /\ \A k \in ks2 : k = n \/ (k \in ks /\ k.l # b.l /\ k.r # b.r)
    BY <2>1, <2>2 DEF with_link
  <2> HIDE DEF n
  <2>5. /\ \A l \in LocalIds : l # b.l => L2[l] = L[l]
        /\ \A r \in RemoteIds : r # b.r => R2[r] = R[r]
        /\ DOMAIN L2 = LocalIds /\ DOMAIN R2 = RemoteIds
    BY <1>11 DEF Effect, Listings
  <2>6. L2[b.l] # None /\ R2[b.r] # None
    BY <1>1, <1>2, <1>11, <2>1 DEF Effect, Fits, Listings
  <2>7. (b.l \in T2 \/ L2[b.l] = b.rec) /\ (b.r \in T2 \/ R2[b.r] = b.rec \/ \E a \in Q2 : a.l = b.l /\ a.r = b.r)
    <3>1. CASE b.kind = "update_local"
      BY <1>1, <3>1 DEF Effect, Fits, touch, T2
    <3>2. CASE b.kind = "update_remote"
      BY <1>1, <3>2 DEF Effect, Fits, touch, T2
    <3>3. CASE b.kind = "link"
      BY <1>1, <3>3 DEF Effect, Fits, Q2
    <3> QED BY <1>11, <3>1, <3>2, <3>3
  <2>8. ASSUME NEW k \in ks2 PROVE AsListed(k, L2, R2, T2) \/ \E a \in Q2 : a.l = k.l /\ a.r = k.r
    <3>1. CASE k = n
      BY <2>1, <2>6, <2>7, <3>1 DEF AsListed
    <3>2. CASE k \in ks /\ k.l # b.l /\ k.r # b.r
      BY <1>1, <1>4, <2>5, <3>2 DEF AsListed, Q2, T2
    <3> QED BY <2>4, <3>1, <3>2
  <2>9. ASSUME NEW l \in Present(L2) PROVE (\E k \in ks2 : k.l = l) \/ \E a \in Q2 : a.l = l
    <3>1. CASE l = b.l
      BY <2>1, <2>4, <3>1
    <3>2. CASE l # b.l
      <4>1. l \in Present(L)
        BY <2>5, <3>2 DEF Present, Listings
      <4> QED BY <1>1, <2>3, <3>2, <4>1 DEF Q2
    <3> QED BY <3>1, <3>2
  <2>10. ASSUME NEW r \in Present(R2) PROVE (\E k \in ks2 : k.r = r) \/ \E a \in Q2 : a.r = r
    <3>1. CASE r = b.r
      BY <2>1, <2>4, <3>1
    <3>2. CASE r # b.r
      <4>1. r \in Present(R)
        BY <2>5, <3>2 DEF Present, Listings
      <4> QED BY <1>1, <2>3, <3>2, <4>1 DEF Q2
    <3> QED BY <3>1, <3>2
  <2>11. ASSUME NEW a \in Q2, NEW k \in ks2 PROVE a.l = k.l <=> a.r = k.r
    <3>1. (a.l = b.l <=> a.r = b.r)
      BY <1>2, <1>3, <2>1 DEF Meet, PairAndConflict
    <3> QED BY <1>1, <2>1, <2>4, <3>1 DEF Q2
  <2> QED BY <1>3, <1>5, <2>8, <2>9, <2>10, <2>11 DEF OnTheWay
<1>12. CASE b.kind \in {"create_local", "create_remote"}
  <2> DEFINE n == IF b.kind = "create_local" THEN Agreed(i, b.r, b.rec) ELSE Agreed(b.l, i, b.rec)
  <2>1. /\ n.l \in LocalIds /\ n.r \in RemoteIds /\ n.lh = b.rec /\ n.rh = b.rec /\ b.rec \in Values
        /\ IF b.kind = "create_local" THEN n.l = i /\ n.r = b.r /\ b.l = None ELSE n.l = b.l /\ n.r = i /\ b.r = None
    BY <1>1, <1>12 DEF WellFormed, Agreed, Fits, Effect
  <2>2. ks2 = with_link(ks, n)
    BY <1>12 DEF apply_one, ks2
  <2> HIDE DEF n
  <2>3. /\ \A l \in LocalIds : L2[l] = L[l] \/ (l = n.l /\ L[l] = None /\ b.kind = "create_local")
        /\ \A r \in RemoteIds : R2[r] = R[r] \/ (r = n.r /\ R[r] = None /\ b.kind = "create_remote")
        /\ DOMAIN L2 = LocalIds /\ DOMAIN R2 = RemoteIds
    BY <1>12, <2>1 DEF Effect, Listings
  <2>4. L2[n.l] # None /\ R2[n.r] # None /\ (n.l \in T2 \/ L2[n.l] = b.rec) /\ (n.r \in T2 \/ R2[n.r] = b.rec)
    <3>1. CASE b.kind = "create_local"
      BY <1>1, <1>2, <2>1, <3>1 DEF Effect, Fits, touch, T2, Listings
    <3>2. CASE b.kind = "create_remote"
      BY <1>1, <1>2, <2>1, <3>2 DEF Effect, Fits, touch, T2, Listings
    <3> QED BY <1>12, <3>1, <3>2
  <2>5. ASSUME NEW k \in ks PROVE k.l # n.l /\ k.r # n.r
    <3>1. CASE b.kind = "create_local"
      <4>1. k.r # b.r /\ L[i] = None
        BY <1>1, <1>2, <1>4, <2>1, <3>1 DEF Effect
      <4>2. \A a \in Q : a.l # i
        BY <1>2, <1>3, <2>1, <3>1 DEF Q2
      <4> QED BY <1>1, <2>1, <3>1, <4>1, <4>2 DEF AsListed
    <3>2. CASE b.kind = "create_remote"
      <4>1. k.l # b.l /\ R[i] = None
        BY <1>1, <1>2, <1>4, <2>1, <3>2 DEF Effect
      <4>2. \A a \in Q : a.r # i
        BY <1>2, <1>3, <2>1, <3>2 DEF Q2
      <4> QED BY <1>1, <2>1, <3>2, <4>1, <4>2 DEF AsListed
    <3> QED BY <1>12, <3>1, <3>2
  <2>6. ks2 = ks \cup {n}
    BY <2>2, <2>5 DEF with_link
  <2>7. ASSUME NEW k \in ks2 PROVE AsListed(k, L2, R2, T2) \/ \E a \in Q2 : a.l = k.l /\ a.r = k.r
    <3>1. CASE k = n
      BY <2>1, <2>4, <3>1 DEF AsListed
    <3>2. CASE k \in ks
      <4>2. L2[k.l] = L[k.l] /\ R2[k.r] = R[k.r]
        BY <1>4, <2>3, <2>5, <3>2
      <4>3. k.l # b.l \/ k.r # b.r
        BY <1>2, <1>4, <2>1, <3>2
      <4> QED BY <1>1, <3>2, <4>2, <4>3 DEF AsListed, Q2, T2
    <3> QED BY <2>6, <3>1, <3>2
  <2>8. ASSUME NEW l \in Present(L2) PROVE (\E k \in ks2 : k.l = l) \/ \E a \in Q2 : a.l = l
    <3>1. CASE l = n.l
      BY <2>6, <3>1
    <3>2. CASE l # n.l
      <4>1. l \in Present(L) /\ l # None
        BY <1>2, <2>3, <3>2 DEF Present, Listings
      <4>2. l # b.l
        BY <2>1, <3>2, <4>1
      <4> QED BY <1>1, <2>6, <4>1, <4>2 DEF Q2
    <3> QED BY <3>1, <3>2
  <2>9. ASSUME NEW r \in Present(R2) PROVE (\E k \in ks2 : k.r = r) \/ \E a \in Q2 : a.r = r
    <3>1. CASE r = n.r
      BY <2>6, <3>1
    <3>2. CASE r # n.r
      <4>1. r \in Present(R) /\ r # None
        BY <1>2, <2>3, <3>2 DEF Present, Listings
      <4>2. r # b.r
        BY <2>1, <3>2, <4>1
      <4> QED BY <1>1, <2>6, <4>1, <4>2 DEF Q2
    <3> QED BY <3>1, <3>2
  <2>10. ASSUME NEW a \in Q2, NEW k \in ks2 PROVE a.l = k.l <=> a.r = k.r
    <3>1. a.l # n.l /\ a.r # n.r
      BY <1>2, <1>3, <1>12, <2>1 DEF Meet
    <3> QED BY <1>1, <2>6, <3>1 DEF Q2
  <2> QED BY <1>3, <1>5, <2>7, <2>8, <2>9, <2>10 DEF OnTheWay
<1> QED BY <1>10, <1>11, <1>12 DEF Effect

(* The parts of a plan.                                                    *)
LEMMA PlanParts ==
    ASSUME NEW L, NEW R, NEW ks, NEW P, NEW o, NEW a
    PROVE  a \in plan(L, R, ks, P, o) <=>
             \/ \E k \in ks : a \in plan_link(k, L, R, o)
             \/ \E p \in P : a \in pair(p[1], p[2], L[p[1]], R[p[2]], o)
             \/ \E l \in new_local(L, ks) : (\A p \in P : p[1] # l) /\ a = unpaired_local(l, L[l], o)
             \/ \E r \in new_remote(R, ks) : (\A p \in P : p[2] # r) /\ a = unpaired_remote(r, R[r], o)
<1> DEFINE ofLink(k) == plan_link(k, L, R, o)
           ofPair(p) == pair(p[1], p[2], L[p[1]], R[p[2]], o)
           ofL(l) == unpaired_local(l, L[l], o)
           ofR(r) == unpaired_remote(r, R[r], o)
           newL == new_local(L, ks)
           newR == new_remote(R, ks)
           Ls == newL \ {p[1] : p \in P}
           Rs == newR \ {p[2] : p \in P}
<1>1. plan(L, R, ks, P, o) = (UNION {ofLink(k) : k \in ks}) \cup
        ((UNION {ofPair(p) : p \in P}) \cup {ofL(l) : l \in Ls} \cup {ofR(r) : r \in Rs})
  BY DEF plan, pair_new
<1> HIDE DEF ofLink, ofPair, ofL, ofR, newL, newR
<1>2. /\ \A l : l \in Ls <=> l \in newL /\ \A p \in P : p[1] # l
      /\ \A r : r \in Rs <=> r \in newR /\ \A p \in P : p[2] # r
  OBVIOUS
<1> HIDE DEF Ls, Rs
<1>3. a \in plan(L, R, ks, P, o) <=>
        \/ \E k \in ks : a \in ofLink(k)
        \/ \E p \in P : a \in ofPair(p)
        \/ \E l \in Ls : a = ofL(l)
        \/ \E r \in Rs : a = ofR(r)
  BY <1>1
<1>4. /\ (\E l \in Ls : a = ofL(l)) <=> \E l \in newL : (\A p \in P : p[1] # l) /\ a = ofL(l)
      /\ (\E r \in Rs : a = ofR(r)) <=> \E r \in newR : (\A p \in P : p[2] # r) /\ a = ofR(r)
  BY <1>2
<1> QED BY <1>3, <1>4 DEF ofLink, ofPair, ofL, ofR, newL, newR

(* Two planned actions meet only in the link of a new pair and its         *)
(* conflict.                                                               *)
LEMMA PlanApart ==
    ASSUME NEW L \in Listings(LocalIds), NEW R \in Listings(RemoteIds), NEW ks \in SUBSET Link, OneToOne(ks),
           NEW P \in Pairings(L, R, ks), NEW o
    PROVE  Apart(plan(L, R, ks, P, o))
<1> DEFINE Q == plan(L, R, ks, P, o)
           newL == new_local(L, ks)
           newR == new_remote(R, ks)
           OfLink(a, k) == k \in ks /\ a \in plan_link(k, L, R, o)
           OfPair(a, p) == p \in P /\ a \in pair(p[1], p[2], L[p[1]], R[p[2]], o)
           OfLocal(a, l) == l \in newL /\ (\A p \in P : p[1] # l) /\ a = unpaired_local(l, L[l], o)
           OfRemote(a, r) == r \in newR /\ (\A p \in P : p[2] # r) /\ a = unpaired_remote(r, R[r], o)
<1>2. None \notin LocalIds \cup RemoteIds \cup Values
  BY IdsAssumption
<1>3. /\ \A l \in newL : l \in LocalIds /\ L[l] \in Values /\ \A k \in ks : k.l # l
      /\ \A r \in newR : r \in RemoteIds /\ R[r] \in Values /\ \A k \in ks : k.r # r
      /\ \A p \in P : p[1] \in newL /\ p[2] \in newR
      /\ \A p, q \in P : p[1] = q[1] \/ p[2] = q[2] => p = q
      /\ \A k \in ks : k \in Link /\ k.l \in LocalIds /\ k.r \in RemoteIds /\ k.lh \in Values /\ k.rh \in Values
  BY DEF new_local, new_remote, Present, Listings, Maybe, Pairings, IsPairing, Link
<1>4. \A a : a \in Q <=> (\E k : OfLink(a, k)) \/ (\E p : OfPair(a, p)) \/ (\E l : OfLocal(a, l)) \/ (\E r : OfRemote(a, r))
  BY PlanParts
<1> HIDE DEF Q, newL, newR
<1>5. ASSUME NEW a, NEW k, OfLink(a, k)
      PROVE  a.l = k.l /\ a.r = k.r /\ plan_link(k, L, R, o) = {a}
  BY <1>3, <1>5, LinkActions
<1>6. ASSUME NEW a, NEW p, OfPair(a, p)
      PROVE  /\ a.l = p[1] /\ a.r = p[2] /\ a.stage = 2 /\ a.kind \in {"link", "update_local", "update_remote"}
             /\ a.kind = "link" => a = Act("link", p[1], p[2], L[p[1]], 2)
             /\ a.kind # "link" => a = resolve_conflict(p[1], p[2], L[p[1]], R[p[2]], o, 2)
  BY <1>6 DEF pair, resolve_conflict, Act
<1>7. ASSUME NEW a, NEW l, OfLocal(a, l)
      PROVE  a = unpaired_local(l, L[l], o) /\ a.l = l /\ a.r = None
  BY <1>7 DEF unpaired_local, Act
<1>8. ASSUME NEW a, NEW r, OfRemote(a, r)
      PROVE  a = unpaired_remote(r, R[r], o) /\ a.l = None /\ a.r = r
  BY <1>8 DEF unpaired_remote, Act
<1>13. ASSUME NEW a \in Q, NEW b \in Q, Meet(a, b)
       PROVE  a = b \/ PairAndConflict(a, b)
  <2>1. ASSUME NEW c, NEW d, NEW j, OfLink(c, j), d \in Q, Meet(c, d)
        PROVE  c = d
    <3>1. c.l = j.l /\ c.r = j.r /\ c.l # None /\ c.r # None
      BY <1>2, <1>3, <1>5, <2>1
    <3>2. CASE \E k : OfLink(d, k)
      <4>1. PICK k : OfLink(d, k)
        BY <3>2
      <4>2. j = k
        BY <1>5, <2>1, <3>1, <4>1 DEF Meet, OneToOne
      <4> QED BY <1>5, <2>1, <4>1, <4>2
    <3>3. CASE (\E p : OfPair(d, p)) \/ (\E l : OfLocal(d, l)) \/ (\E r : OfRemote(d, r))
      <4>1. (d.l = None \/ d.l \in newL) /\ (d.r = None \/ d.r \in newR)
        BY <1>3, <1>6, <1>7, <1>8, <3>3
      <4> QED BY <1>3, <2>1, <3>1, <4>1 DEF Meet
    <3> QED BY <1>4, <2>1, <3>2, <3>3
  <2>2. ASSUME NEW c, NEW d, NEW p, OfPair(c, p), Meet(c, d),
               (\E q : OfPair(d, q)) \/ (\E l : OfLocal(d, l)) \/ (\E r : OfRemote(d, r))
        PROVE  c = d \/ PairAndConflict(c, d)
    <3>1. c.l = p[1] /\ c.r = p[2] /\ c.l # None /\ c.r # None
      BY <1>2, <1>3, <1>6, <2>2
    <3>2. CASE \E q : OfPair(d, q)
      <4>1. PICK q : OfPair(d, q)
        BY <3>2
      <4>2. p = q
        BY <1>3, <1>6, <2>2, <3>1, <4>1 DEF Meet
      <4>3. /\ c.l = d.l /\ c.r = d.r /\ c.stage = 2 /\ d.stage = 2
            /\ c.kind \in {"link", "update_local", "update_remote"} /\ d.kind \in {"link", "update_local", "update_remote"}
            /\ (c.kind = "link" <=> d.kind = "link") => c = d
        BY <1>6, <2>2, <4>1, <4>2
      <4> QED BY <4>3 DEF PairAndConflict
    <3>3. CASE \E l : OfLocal(d, l)
      BY <1>7, <2>2, <3>1, <3>3 DEF Meet
    <3>4. CASE \E r : OfRemote(d, r)
      BY <1>8, <2>2, <3>1, <3>4 DEF Meet
    <3> QED BY <2>2, <3>2, <3>3, <3>4
  <2>3. ASSUME NEW c, NEW d, (\E l : OfLocal(c, l)) \/ (\E r : OfRemote(c, r)),
               (\E l : OfLocal(d, l)) \/ (\E r : OfRemote(d, r)), Meet(c, d)
        PROVE  c = d
    BY <1>7, <1>8, <2>3 DEF Meet
  <2>4. Meet(b, a) /\ (PairAndConflict(b, a) => PairAndConflict(a, b))
    BY <1>13 DEF Meet, PairAndConflict
  <2>5. CASE (\E k : OfLink(a, k)) \/ (\E k : OfLink(b, k))
    BY <1>13, <2>1, <2>4, <2>5
  <2>6. CASE ((\E p : OfPair(a, p)) \/ (\E p : OfPair(b, p))) /\ ~(\E k : OfLink(a, k)) /\ ~(\E k : OfLink(b, k))
    <3>1. /\ (\E q : OfPair(a, q)) \/ (\E l : OfLocal(a, l)) \/ (\E r : OfRemote(a, r))
          /\ (\E q : OfPair(b, q)) \/ (\E l : OfLocal(b, l)) \/ (\E r : OfRemote(b, r))
      BY <1>4, <1>13, <2>6
    <3>2. CASE \E p : OfPair(a, p)
      BY <1>13, <2>2, <3>1, <3>2
    <3>3. CASE \E p : OfPair(b, p)
      BY <2>2, <2>4, <3>1, <3>3
    <3> QED BY <2>6, <3>2, <3>3
  <2> QED BY <1>4, <1>13, <2>3, <2>5, <2>6
<1> QED BY <1>13 DEF Apart, Q

(* A plan that writes and deletes both ways leaves nothing out.            *)
LEMMA PlanOnTheWay ==
    ASSUME NEW L \in Listings(LocalIds), NEW R \in Listings(RemoteIds), NEW ks \in SUBSET Link, OneToOne(ks),
           NEW P \in Pairings(L, R, ks), NEW o \in Options, Complete(o)
    PROVE  OnTheWay(L, R, ks, plan(L, R, ks, P, o), {})
<1> DEFINE Q == plan(L, R, ks, P, o)
           newL == new_local(L, ks)
           newR == new_remote(R, ks)
           OfLink(a, k) == k \in ks /\ a \in plan_link(k, L, R, o)
           OfPair(a, p) == p \in P /\ a \in pair(p[1], p[2], L[p[1]], R[p[2]], o)
           OfLocal(a, l) == l \in newL /\ (\A p \in P : p[1] # l) /\ a = unpaired_local(l, L[l], o)
           OfRemote(a, r) == r \in newR /\ (\A p \in P : p[2] # r) /\ a = unpaired_remote(r, R[r], o)
<1>1. writes_local(o) /\ writes_remote(o) /\ o.propagate_deletes
  BY DEF Complete, writes_local, writes_remote
<1>2. None \notin LocalIds \cup RemoteIds \cup Values
  BY IdsAssumption
<1>3. /\ \A l \in newL : l \in LocalIds /\ L[l] \in Values /\ \A k \in ks : k.l # l
      /\ \A r \in newR : r \in RemoteIds /\ R[r] \in Values /\ \A k \in ks : k.r # r
      /\ \A p \in P : p[1] \in newL /\ p[2] \in newR
      /\ \A p, q \in P : p[1] = q[1] \/ p[2] = q[2] => p = q
      /\ \A k \in ks : k \in Link /\ k.l \in LocalIds /\ k.r \in RemoteIds /\ k.lh \in Values /\ k.rh \in Values
  BY DEF new_local, new_remote, Present, Listings, Maybe, Pairings, IsPairing, Link
<1>4. \A a : a \in Q <=> (\E k : OfLink(a, k)) \/ (\E p : OfPair(a, p)) \/ (\E l : OfLocal(a, l)) \/ (\E r : OfRemote(a, r))
  BY PlanParts
<1> HIDE DEF Q, newL, newR
<1>5. ASSUME NEW a, NEW k, OfLink(a, k)
      PROVE  a.l = k.l /\ a.r = k.r /\ a.stage = 1 /\ Fits(a, L, R, Q) /\ plan_link(k, L, R, o) = {a}
  <2>1. a.l = k.l /\ a.r = k.r /\ a.stage = 1 /\ plan_link(k, L, R, o) = {a}
    BY <1>3, <1>5, LinkActions
  <2>2. Fits(a, L, R, Q)
    BY <1>1, <1>2, <1>3, <1>5 DEF plan_link, push, pull, resolve_conflict, Act, Fits
  <2> QED BY <2>1, <2>2
<1>6. ASSUME NEW a, NEW p, OfPair(a, p)
      PROVE  /\ a.l = p[1] /\ a.r = p[2] /\ a.stage = 2 /\ a.kind \in {"link", "update_local", "update_remote"}
             /\ a.kind = "link" => a = Act("link", p[1], p[2], L[p[1]], 2)
             /\ a.kind # "link" => L[p[1]] # R[p[2]] /\ a = resolve_conflict(p[1], p[2], L[p[1]], R[p[2]], o, 2)
             /\ Fits(a, L, R, Q)
  <2>1. /\ a.l = p[1] /\ a.r = p[2] /\ a.stage = 2 /\ a.kind \in {"link", "update_local", "update_remote"}
        /\ a.kind = "link" => a = Act("link", p[1], p[2], L[p[1]], 2)
        /\ a.kind # "link" => L[p[1]] # R[p[2]] /\ a = resolve_conflict(p[1], p[2], L[p[1]], R[p[2]], o, 2)
    BY <1>6 DEF pair, resolve_conflict, Act
  <2>2. p[1] \in LocalIds /\ p[2] \in RemoteIds /\ L[p[1]] \in Values /\ R[p[2]] \in Values
    BY <1>3, <1>6
  <2>3. CASE a.kind # "link"
    BY <1>2, <2>1, <2>2, <2>3 DEF resolve_conflict, Act, Fits
  <2>4. CASE a.kind = "link" /\ L[p[1]] = R[p[2]]
    BY <1>2, <2>1, <2>2, <2>4 DEF Act, Fits
  <2>5. CASE a.kind = "link" /\ L[p[1]] # R[p[2]]
    <3> DEFINE c == resolve_conflict(p[1], p[2], L[p[1]], R[p[2]], o, 2)
    <3>1. OfPair(c, p)
      BY <1>6, <2>5 DEF pair
    <3>2. c.kind # "link" /\ c.l = p[1] /\ c.r = p[2]
      BY DEF resolve_conflict, Act
    <3>3. c \in Q /\ c # a
      BY <1>4, <2>5, <3>1, <3>2
    <3> QED BY <1>2, <2>1, <2>2, <2>5, <3>2, <3>3 DEF Act, Fits
  <2> QED BY <2>1, <2>3, <2>4, <2>5
<1>7. ASSUME NEW a, NEW l, OfLocal(a, l)
      PROVE  a = Act("create_remote", l, None, L[l], 2) /\ a.l = l /\ a.r = None /\ Fits(a, L, R, Q)
  BY <1>1, <1>3, <1>7 DEF unpaired_local, Act, Fits
<1>8. ASSUME NEW a, NEW r, OfRemote(a, r)
      PROVE  a = Act("create_local", None, r, R[r], 3) /\ a.l = None /\ a.r = r /\ Fits(a, L, R, Q)
  BY <1>1, <1>3, <1>8 DEF unpaired_remote, Act, Fits
<1>9. ASSUME NEW k \in ks PROVE AsListed(k, L, R, {}) \/ \E a \in Q : a.l = k.l /\ a.r = k.r
  <2>1. CASE plan_link(k, L, R, o) = {}
    BY <1>2, <1>3, <2>1 DEF plan_link, AsListed
  <2>2. CASE plan_link(k, L, R, o) # {}
    <3>1. PICK a : OfLink(a, k)
      BY <2>2
    <3> QED BY <1>4, <1>5, <3>1
  <2> QED BY <2>1, <2>2
<1>10. ASSUME NEW l \in Present(L) PROVE (\E k \in ks : k.l = l) \/ \E a \in Q : a.l = l
  <2>1. CASE \E p \in P : p[1] = l
    <3>1. PICK p \in P : p[1] = l
      BY <2>1
    <3>2. OfPair(Act("link", p[1], p[2], L[p[1]], 2), p)
      BY DEF pair
    <3> QED BY <1>4, <1>6, <3>1, <3>2
  <2>2. CASE l \in newL /\ ~\E p \in P : p[1] = l
    <3>1. OfLocal(unpaired_local(l, L[l], o), l)
      BY <2>2
    <3> QED BY <1>4, <1>7, <3>1
  <2>3. CASE l \notin newL
    BY <2>3 DEF newL, new_local
  <2> QED BY <2>1, <2>2, <2>3
<1>11. ASSUME NEW r \in Present(R) PROVE (\E k \in ks : k.r = r) \/ \E a \in Q : a.r = r
  <2>1. CASE \E p \in P : p[2] = r
    <3>1. PICK p \in P : p[2] = r
      BY <2>1
    <3>2. OfPair(Act("link", p[1], p[2], L[p[1]], 2), p)
      BY DEF pair
    <3> QED BY <1>4, <1>6, <3>1, <3>2
  <2>2. CASE r \in newR /\ ~\E p \in P : p[2] = r
    <3>1. OfRemote(unpaired_remote(r, R[r], o), r)
      BY <2>2
    <3> QED BY <1>4, <1>8, <3>1
  <2>3. CASE r \notin newR
    BY <2>3 DEF newR, new_remote
  <2> QED BY <2>1, <2>2, <2>3
<1>12. ASSUME NEW a \in Q
       PROVE  Fits(a, L, R, Q) /\ \A k \in ks : a.l = k.l <=> a.r = k.r
  <2>1. CASE \E k : OfLink(a, k)
    <3>1. PICK j : OfLink(a, j)
      BY <2>1
    <3>2. \A k \in ks : j.l = k.l <=> j.r = k.r
      BY <3>1 DEF OneToOne
    <3> QED BY <1>5, <3>1, <3>2
  <2>2. CASE \E p : OfPair(a, p)
    BY <1>3, <1>6, <2>2
  <2>3. CASE \E l : OfLocal(a, l)
    BY <1>2, <1>3, <1>7, <2>3
  <2>4. CASE \E r : OfRemote(a, r)
    BY <1>2, <1>3, <1>8, <2>4
  <2> QED BY <1>4, <2>1, <2>2, <2>3, <2>4
<1>13. Apart(Q)
  BY PlanApart DEF Q
<1> QED BY <1>9, <1>10, <1>11, <1>12, <1>13 DEF OnTheWay, Q

(* Writing a record changes the listing in that place only.                *)
LEMMA ListingOfPut ==
    ASSUME TypeOK, NEW i, NEW v \in Maybe(Values), hidden' = hidden \ {i}
    PROVE  /\ i \in LocalIds /\ local' = [local EXCEPT ![i] = v] /\ UNCHANGED remote
                => OnDevice' = [OnDevice EXCEPT ![i] = v] /\ OnRemote' = OnRemote
           /\ i \in RemoteIds /\ remote' = [remote EXCEPT ![i] = v] /\ UNCHANGED local
                => OnRemote' = [OnRemote EXCEPT ![i] = v] /\ OnDevice' = OnDevice
<1>1. local \in Listings(LocalIds) /\ remote \in Listings(RemoteIds) /\ LocalIds \cap RemoteIds = {}
  BY IdsAssumption DEF TypeOK
<1>2. ASSUME i \in LocalIds, local' = [local EXCEPT ![i] = v], UNCHANGED remote
      PROVE  OnDevice' = [OnDevice EXCEPT ![i] = v] /\ OnRemote' = OnRemote
  BY <1>1, <1>2 DEF OnDevice, OnRemote, Listing, Listings
<1>3. ASSUME i \in RemoteIds, remote' = [remote EXCEPT ![i] = v], UNCHANGED local
      PROVE  OnRemote' = [OnRemote EXCEPT ![i] = v] /\ OnDevice' = OnDevice
  BY <1>1, <1>3 DEF OnDevice, OnRemote, Listing, Listings
<1> QED BY <1>2, <1>3

(* A store call that returns has that effect, and so has linking.          *)
LEMMA CallHasEffect ==
    ASSUME IInv, NEW b \in pending, NEW i \in Maybe(Ids), StoreCall(b, i) \/ NoStoreCall(b, i), remember(b, i),
           Fits(b, OnDevice, OnRemote, pending), \A l \in LocalIds : raw[l] = None => local[l] = None
    PROVE  /\ Effect(b, i, OnDevice, OnRemote, OnDevice', OnRemote')
           /\ \A l \in LocalIds : raw'[l] = None => local'[l] = None
<1>1. TypeOK /\ b \in Action /\ WellFormed(b)
  BY DEF IInv, TypeOK
<1>2. None \notin Values /\ local \in Listings(LocalIds) /\ remote \in Listings(RemoteIds) /\ raw \in Listings(LocalIds)
  BY IdsAssumption DEF IInv, TypeOK
<1>3. /\ \A l \in LocalIds : OnDevice[l] # None => local[l] # None
      /\ \A l \in LocalIds : local[l] = None => OnDevice[l] = None
      /\ \A r \in RemoteIds : remote[r] = None => OnRemote[r] = None
  BY <1>2 DEF OnDevice, OnRemote, Listing, Listings
<1>4. CASE device_create(b, i)
  <2> DEFINE v == LocalForm[i][b.rec]
  <2>1. b.kind = "create_local" /\ i \in LocalIds /\ local[i] = None /\ v \in Values
    BY <1>1, <1>4, FormsType, FreeIsFree DEF device_create, WellFormed
  <2>2. local' = [local EXCEPT ![i] = v] /\ UNCHANGED remote /\ hidden' = hidden \ {i}
    BY <1>4 DEF device_create, DeviceStores
  <2>3. raw' = [raw EXCEPT ![i] = v]
    BY <2>1 DEF remember
  <2> HIDE DEF v
  <2>4. OnDevice' = [OnDevice EXCEPT ![i] = v] /\ OnRemote' = OnRemote
    BY <1>1, <2>1, <2>2, ListingOfPut DEF Maybe
  <2>5. \A l \in LocalIds : raw'[l] = None => local'[l] = None
    BY <1>2, <2>1, <2>2, <2>3 DEF Listings
  <2> QED BY <1>3, <2>1, <2>4, <2>5 DEF Effect
<1>5. CASE device_update(b, i)
  <2> DEFINE v == LocalForm[i][b.rec]
  <2>1. b.kind = "update_local" /\ i = b.l /\ i \in LocalIds /\ v \in Values
    BY <1>1, <1>5, FormsAssumption DEF device_update, WellFormed
  <2>2. local' = [local EXCEPT ![i] = v] /\ UNCHANGED remote /\ hidden' = hidden \ {i}
    BY <1>5 DEF device_update, DeviceStores
  <2>3. raw' = raw /\ local[i] # None
    BY <1>3, <2>1 DEF remember, Fits
  <2> HIDE DEF v
  <2>4. OnDevice' = [OnDevice EXCEPT ![i] = v] /\ OnRemote' = OnRemote
    BY <1>1, <2>1, <2>2, ListingOfPut DEF Maybe
  <2>5. \A l \in LocalIds : raw'[l] = None => local'[l] = None
    BY <1>2, <2>1, <2>2, <2>3 DEF Listings
  <2> QED BY <2>1, <2>4, <2>5 DEF Effect
<1>6. CASE device_delete(b, i)
  <2>1. b.kind = "delete_local" /\ i = b.l /\ i \in LocalIds
    BY <1>1, <1>6 DEF device_delete, WellFormed
  <2>2. local' = [local EXCEPT ![i] = None] /\ UNCHANGED remote /\ hidden' = hidden \ {i} /\ raw' = [raw EXCEPT ![i] = None]
    BY <1>6, <2>1 DEF device_delete, remember
  <2>3. OnDevice' = [OnDevice EXCEPT ![i] = None] /\ OnRemote' = OnRemote
    BY <1>1, <2>1, <2>2, ListingOfPut DEF Maybe
  <2>4. \A l \in LocalIds : raw'[l] = None => local'[l] = None
    BY <1>2, <2>1, <2>2 DEF Listings
  <2> QED BY <2>1, <2>3, <2>4 DEF Effect
<1>7. CASE remote_create(b, i) \/ remote_update(b, i)
  <2> DEFINE v == RemoteForm[b.rec]
  <2>1. /\ i \in RemoteIds /\ v \in Values
        /\ (b.kind = "create_remote" /\ remote[i] = None) \/ (b.kind = "update_remote" /\ i = b.r)
    BY <1>1, <1>7, FormsAssumption DEF remote_create, remote_update, FreeRemote, WellFormed
  <2>2. remote' = [remote EXCEPT ![i] = v] /\ UNCHANGED local /\ hidden' = hidden \ {i}
    BY <1>7 DEF remote_create, remote_update, RemoteStores
  <2>3. raw' = raw
    BY <2>1 DEF remember
  <2> HIDE DEF v
  <2>4. OnRemote' = [OnRemote EXCEPT ![i] = v] /\ OnDevice' = OnDevice
    BY <1>1, <2>1, <2>2, ListingOfPut DEF Maybe
  <2> QED BY <1>3, <2>1, <2>2, <2>3, <2>4 DEF Effect
<1>8. CASE remote_delete(b, i)
  <2>1. b.kind = "delete_remote" /\ i = b.r /\ i \in RemoteIds
    BY <1>1, <1>8 DEF remote_delete, WellFormed
  <2>2. remote' = [remote EXCEPT ![i] = None] /\ UNCHANGED local /\ hidden' = hidden \ {i} /\ raw' = raw
    BY <1>8, <2>1 DEF remote_delete, remember
  <2>3. OnRemote' = [OnRemote EXCEPT ![i] = None] /\ OnDevice' = OnDevice
    BY <1>1, <2>1, <2>2, ListingOfPut DEF Maybe
  <2> QED BY <2>1, <2>2, <2>3 DEF Effect
<1>9. CASE NoStoreCall(b, i)
  <2>1. b.kind \in {"link", "unlink"} /\ UNCHANGED <<local, remote, hidden>> /\ raw' = raw
    BY <1>9 DEF NoStoreCall, Fits, StoreKinds, remember
  <2>2. OnDevice' = OnDevice /\ OnRemote' = OnRemote
    BY <2>1 DEF OnDevice, OnRemote, Listing
  <2> QED BY <2>1, <2>2 DEF Effect
<1> QED BY <1>4, <1>5, <1>6, <1>7, <1>8, <1>9 DEF StoreCall

(* An action keeps the run on its way, or ends in an error.                *)
LEMMA ActionSettles ==
    ASSUME IInv, SettleInv, NEW b \in pending, Apply(b) \/ Refuse(b) \/ Fail(b) \/ LoseAnswer(b) \/ CutUpload(b)
    PROVE  SettleInv'
<1>1. /\ phase = "apply" /\ phase' = "apply" /\ pending' = pending \ {b} /\ First(b, pending)
      /\ UNCHANGED <<saved, args, quiet, settled>>
  BY DEF Apply, Refuse, Fail, LoseAnswer, CutUpload, Error, Done, Ready, First
<1>2. ~settled
  BY <1>1 DEF SettleInv
<1>3. ASSUME Going' => /\ OnTheWay(OnDevice', OnRemote', links', pending', touched')
                       /\ \A l \in LocalIds : raw'[l] = None => local'[l] = None
      PROVE  SettleInv'
  BY <1>1, <1>2, <1>3 DEF SettleInv
<1>4. CASE Apply(b)
  <2> SUFFICES ASSUME Going'
               PROVE  /\ OnTheWay(OnDevice', OnRemote', links', pending', touched')
                      /\ \A l \in LocalIds : raw'[l] = None => local'[l] = None
    BY <1>3
  <2>1. Going
    BY <1>1, <1>4 DEF Apply, Going
  <2>2. OnTheWay(OnDevice, OnRemote, links, pending, touched) /\ \A l \in LocalIds : raw[l] = None => local[l] = None
    BY <1>1, <2>1 DEF SettleInv
  <2>3. PICK i \in Maybe(Ids) : /\ StoreCall(b, i) \/ NoStoreCall(b, i)
                                /\ links' = apply_one(b, links, i) /\ touched' = touched \cup touch(b, i) /\ remember(b, i)
    BY <1>4 DEF Apply
  <2>4. Fits(b, OnDevice, OnRemote, pending)
    BY <2>2 DEF OnTheWay
  <2>5. /\ Effect(b, i, OnDevice, OnRemote, OnDevice', OnRemote')
        /\ \A l \in LocalIds : raw'[l] = None => local'[l] = None
    BY <2>2, <2>3, <2>4, CallHasEffect
  <2>6. OnDevice \in Listings(LocalIds) /\ OnRemote \in Listings(RemoteIds) /\ links \in SUBSET Link
        /\ pending \in SUBSET Action /\ \A a \in pending : WellFormed(a)
    BY ListingType DEF IInv, TypeOK, OnDevice, OnRemote
  <2>7. OnTheWay(OnDevice', OnRemote', apply_one(b, links, i), pending \ {b}, touched \cup touch(b, i))
    BY <1>1, <2>2, <2>5, <2>6, StillOnTheWay
  <2> QED BY <1>1, <2>3, <2>5, <2>7
<1>5. CASE Refuse(b) \/ Fail(b) \/ LoseAnswer(b) \/ CutUpload(b)
  BY <1>3, <1>5 DEF Refuse, Fail, LoseAnswer, CutUpload, Error, Going
<1> QED BY <1>4, <1>5

LEMMA StepSettles ==
    ASSUME IInv, SettleInv, [Next]_vars
    PROVE  SettleInv'
<1>1. ASSUME UNCHANGED <<local, remote, hidden>> PROVE OnDevice' = OnDevice /\ OnRemote' = OnRemote
  BY <1>1 DEF OnDevice, OnRemote, Listing
<1>2. OnDevice \in Listings(LocalIds) /\ OnRemote \in Listings(RemoteIds) /\ links \in SUBSET Link /\ saved \in SUBSET Link
  BY ListingType DEF IInv, TypeOK, OnDevice, OnRemote
<1>3. CASE User
  <2>1. UserStep
    BY <1>3 DEF User, UserCreates, UserEdits, UserDeletesRecord, ReadabilityChanges
  <2>2. /\ UNCHANGED <<saved, phase, links, pending, touched, errors>> /\ settled' = FALSE
        /\ quiet' = (quiet /\ phase = "idle")
    BY <2>1 DEF UserStep, memory
  <2>3. phase' # "idle" => ~Going'
    BY <2>2 DEF Going
  <2> QED BY <2>2, <2>3 DEF SettleInv
<1>4. CASE \E o \in Runs : Start(o)
  <2>1. /\ UNCHANGED <<local, remote, hidden, saved, pending, touched, settled>> /\ phase = "idle" /\ phase' = "listed"
        /\ localItems' = OnDevice /\ raw' = local /\ links' = saved
    BY <1>4 DEF Start, stores, OnDevice
  <2> QED BY <1>1, <2>1 DEF SettleInv
<1>5. CASE Plan
  <2>1. UNCHANGED <<local, remote, hidden, saved, links, touched, settled, raw, args, errors, quiet>>
        /\ phase = "listed" /\ phase' = "apply"
    BY <1>5 DEF Plan, stores
  <2>2. PICK P \in Pairings(localItems, OnRemote, links) : pending' = plan(localItems, OnRemote, links, P, args)
    BY <1>5 DEF Plan, OnRemote
  <2>3. OnDevice' = OnDevice /\ OnRemote' = OnRemote /\ touched = {} /\ links = saved
    BY <1>1, <2>1 DEF SettleInv
  <2>4. ASSUME Going' PROVE /\ OnTheWay(OnDevice, OnRemote, links, pending', touched)
                            /\ \A l \in LocalIds : raw[l] = None => local[l] = None
    <3>1. Going
      BY <2>1, <2>4 DEF Going
    <3>2. localItems = OnDevice /\ raw = local
      BY <2>1, <3>1 DEF SettleInv
    <3>3. OneToOne(links) /\ Complete(args) /\ args \in Options
      BY <3>1 DEF Going, IInv, TypeOK, LinksOneToOne
    <3>4. P \in Pairings(OnDevice, OnRemote, links) /\ pending' = plan(OnDevice, OnRemote, links, P, args)
      BY <2>2, <3>2
    <3>5. OnTheWay(OnDevice, OnRemote, links, plan(OnDevice, OnRemote, links, P, args), {})
      BY <1>2, <3>3, <3>4, PlanOnTheWay
    <3> QED BY <2>3, <3>2, <3>4, <3>5
  <2>5. ASSUME settled PROVE InStep(OnDevice, OnRemote, saved) /\ pending' = {}
    <3>1. InStep(OnDevice, OnRemote, links) /\ localItems = OnDevice /\ InStep(OnDevice, OnRemote, saved)
      BY <2>1, <2>3, <2>5 DEF SettleInv
    <3> QED BY <1>2, <2>2, <3>1, NothingToPlan
  <2> QED BY <2>1, <2>3, <2>4, <2>5 DEF SettleInv
<1>6. CASE DryRun \/ Crash
  <2>1. UNCHANGED <<local, remote, hidden, saved, settled>> /\ pending' = {} /\ touched' = {} /\ phase' = "idle"
    BY <1>6 DEF DryRun, Crash, Exit, stores
  <2> QED BY <1>1, <2>1 DEF SettleInv
<1>7. CASE SaveUntouched
  <2>1. UNCHANGED <<local, remote, hidden>> /\ pending = {} /\ touched = {} /\ pending' = {} /\ touched' = {} /\ phase' = "idle"
        /\ saved' = links /\ phase = "apply" /\ (settled' => settled \/ Settles)
    BY <1>7 DEF SaveUntouched, Exit, stores
  <2>2. ASSUME Settles PROVE InStep(OnDevice, OnRemote, links)
    <3>1. OnTheWay(OnDevice, OnRemote, links, {}, {})
      BY <2>1, <2>2 DEF SettleInv, Settles, Going
    <3> QED BY <3>1 DEF OnTheWay, InStep, Linked
  <2>3. settled => InStep(OnDevice, OnRemote, links)
    BY <2>1 DEF SettleInv
  <2> QED BY <1>1, <2>1, <2>2, <2>3 DEF SettleInv
<1>8. CASE SaveRefreshed
  <2>1. UNCHANGED <<local, remote, hidden>> /\ pending' = {} /\ touched' = {} /\ phase' = "idle" /\ phase = "relisted"
        /\ saved' = refresh_hashes(links, localItems, OnRemote, touched) /\ (settled' => settled \/ Settles)
    BY <1>8 DEF SaveRefreshed, Exit, stores, OnRemote
  <2>2. ASSUME settled' PROVE InStep(OnDevice, OnRemote, saved')
    <3>1. Going
      BY <2>1, <2>2 DEF SettleInv, Settles, Going
    <3>2. localItems = OnDevice /\ Linked(OnDevice, OnRemote, links) /\ \A k \in links : AsListed(k, OnDevice, OnRemote, touched)
      BY <2>1, <3>1 DEF SettleInv
    <3> QED BY <1>2, <2>1, <3>2, RefreshedInStep
  <2> QED BY <1>1, <2>1, <2>2 DEF SettleInv
<1>9. CASE Relist
  <2>1. UNCHANGED <<local, remote, hidden, saved, links, pending, touched, settled, args, errors, quiet>> /\ pending = {}
        /\ touched # {} /\ phase = "apply" /\ phase' = "relisted" /\ localItems' = OnDevice
    BY <1>9 DEF Relist, stores, OnDevice
  <2>2. ~settled
    BY <2>1 DEF SettleInv
  <2>3. ASSUME Going' PROVE Linked(OnDevice, OnRemote, links) /\ \A k \in links : AsListed(k, OnDevice, OnRemote, touched)
    <3>1. OnTheWay(OnDevice, OnRemote, links, {}, touched)
      BY <2>1, <2>3 DEF SettleInv, Going
    <3> QED BY <3>1 DEF OnTheWay, Linked
  <2> QED BY <1>1, <2>1, <2>2, <2>3 DEF SettleInv
<1>10. CASE StateLost
  <2>1. UNCHANGED <<pending, touched, phase>> /\ phase = "idle" /\ ~settled'
    BY <1>10 DEF StateLost, memory
  <2> QED BY <2>1 DEF SettleInv
<1>11. CASE UNCHANGED vars
  <2>1. UNCHANGED <<local, remote, hidden, saved, links, pending, touched, settled, args, errors, quiet, phase, localItems, raw>>
    BY <1>11 DEF vars, stores, memory
  <2> QED BY <1>1, <2>1 DEF SettleInv, Going
<1>12. ASSUME NEW b \in pending, Apply(b) \/ Refuse(b) \/ Fail(b) \/ LoseAnswer(b) \/ CutUpload(b)
       PROVE  SettleInv'
  BY <1>12, ActionSettles
<1> QED BY <1>3, <1>4, <1>5, <1>6, <1>7, <1>8, <1>9, <1>10, <1>11, <1>12 DEF Next, Sync, Trouble

LEMMA InitSettles == Init => SettleInv
  BY DEF Init, SettleInv

(* For all stores, forms, command lines, faults and bounds: after a two-   *)
(* way run without errors in which nobody interfered, no plan finds        *)
(* anything to do until the user edits something: the sync does not take   *)
(* its own writes for edits (engine.py, refresh_hashes).                   *)
THEOREM SettledPlansAreEmpty == Spec => []SettledPlanIsEmpty
<1>1. IInv /\ SettleInv => SettledPlanIsEmpty
  BY NothingToPlan DEF IInv, TypeOK, SettleInv, SettledPlanIsEmpty, OnDevice, OnRemote
<1>2. Init => IInv /\ SettleInv
  BY InitType, InitSettles
<1>3. IInv /\ SettleInv /\ [Next]_vars => (IInv /\ SettleInv)'
  BY StepType, StepSettles
<1> QED BY <1>1, <1>2, <1>3, PTL DEF Spec

-------------------------------------------------------------------------------
(***************************************************************************)
(* Agreement.  The two hashes of a link are the same content up to what a  *)
(* store made of it: a run writes to one side of a link at most, and the   *)
(* refresh replaces the hash of that side.                                 *)
(***************************************************************************)
Agrees(k) ==
    /\ SameContent(k.l, k.lh, k.rh)
    /\ k.l \in touched => OnDevice[k.l] = LocalForm[k.l][k.rh]
    /\ k.r \in touched => OnRemote[k.r] = RemoteForm[k.lh]
    /\ k.l \notin touched \/ k.r \notin touched

Held(l) == IF Folder THEN raw[l] # None ELSE local[l] # None

Awaits(a) ==
    /\ a.l \notin touched /\ a.r \notin touched
    /\ a.kind = "create_remote" => a.stage = 2 /\ a.r = None
    /\ a.kind = "create_local" => a.stage = 3
    /\ a.stage = 3 => a.l = None
    /\ a.stage >= 2 /\ a.r # None => remote[a.r] # None
    /\ a.kind = "update_local" /\ Folder => raw[a.l] # None
    /\ Deletes(a) => a.stage = 1

AgreeInv ==
    /\ phase # "apply" => pending = {}
    /\ phase \in {"idle", "listed"} => touched = {}
    /\ phase = "listed" => raw = local /\ localItems = OnDevice
    /\ phase = "relisted" => localItems = OnDevice
    /\ \A k \in saved : SameContent(k.l, k.lh, k.rh)
    /\ \A k \in links : Agrees(k)
    /\ Apart(pending) /\ \A a \in pending : Awaits(a)
    /\ phase = "apply" => /\ \A l \in touched \cap LocalIds : Held(l)
                          /\ \A r \in touched \cap RemoteIds : remote[r] # None

LEMMA PlanAwaits ==
    ASSUME NEW L \in Listings(LocalIds), NEW R \in Listings(RemoteIds), NEW ks \in SUBSET Link,
           NEW P \in Pairings(L, R, ks), NEW o, NEW a \in plan(L, R, ks, P, o)
    PROVE  /\ a.kind = "create_remote" => a.stage = 2 /\ a.r = None
           /\ a.kind = "create_local" => a.stage = 3
           /\ a.stage = 3 => a.l = None
           /\ a.stage >= 2 /\ a.r # None => R[a.r] # None
           /\ a.kind = "update_local" => a.l \in LocalIds /\ L[a.l] # None
           /\ Deletes(a) => a.stage = 1
<1>1. CASE \E k \in ks : a \in plan_link(k, L, R, o)
  <2>1. PICK k \in ks : a \in plan_link(k, L, R, o)
    BY <1>1
  <2>2. k \in Link /\ k.l \in LocalIds
    BY DEF Link
  <2> QED BY <2>1, <2>2, LinkActions
<1>2. CASE \E p \in P : a \in pair(p[1], p[2], L[p[1]], R[p[2]], o)
  <2>1. PICK p \in P : a \in pair(p[1], p[2], L[p[1]], R[p[2]], o)
    BY <1>2
  <2>2. p[1] \in LocalIds /\ L[p[1]] # None /\ R[p[2]] # None
    BY DEF Pairings, new_local, new_remote, Present, Listings
  <2>3. a.l = p[1] /\ a.r = p[2] /\ a.stage = 2 /\ a.kind \in {"link", "update_local", "update_remote"}
    BY <2>1 DEF pair, resolve_conflict, Act
  <2> QED BY <2>2, <2>3 DEF Deletes
<1>3. CASE \E l \in new_local(L, ks) : a = unpaired_local(l, L[l], o)
  BY <1>3 DEF unpaired_local, Act, Deletes
<1>4. CASE \E r \in new_remote(R, ks) : a = unpaired_remote(r, R[r], o)
  BY <1>4 DEF unpaired_remote, Act, Deletes, new_remote, Present
<1> QED BY <1>1, <1>2, <1>3, <1>4, PlanCases

(* What any call writes, answered or not: it writes to its own record or   *)
(* where there is none.                                                    *)
OwnWrites(b) ==
    /\ \A l \in LocalIds : Held(l) /\ l # b.l => OnDevice'[l] = OnDevice[l] /\ (Folder \/ local'[l] = local[l])
    /\ \A r \in RemoteIds : remote[r] # None /\ r # b.r => OnRemote'[r] = OnRemote[r] /\ remote'[r] = remote[r]

LEMMA WritesOwn ==
    ASSUME IInv, NEW b \in pending, Apply(b) \/ Refuse(b) \/ Fail(b) \/ LoseAnswer(b) \/ CutUpload(b)
    PROVE  /\ OwnWrites(b)
           /\ \A l \in LocalIds : local[l] # None /\ local'[l] = None => Deletes(b)
           /\ \A r \in RemoteIds : remote[r] # None /\ remote'[r] = None => Deletes(b)
<1>1. local \in Listings(LocalIds) /\ remote \in Listings(RemoteIds) /\ LocalIds \cap RemoteIds = {}
      /\ None \notin Values /\ WellFormed(b) /\ TypeOK
  BY IdsAssumption DEF IInv, TypeOK
<1>2. ASSUME NEW i, i \in LocalIds, ~Held(i) \/ i = b.l, NEW v \in Maybe(Values),
             local' = [local EXCEPT ![i] = v], hidden' = hidden \ {i}, UNCHANGED remote
      PROVE  OwnWrites(b)
  <2>1. OnDevice' = [OnDevice EXCEPT ![i] = v] /\ OnRemote' = OnRemote
    BY <1>1, <1>2, ListingOfPut
  <2> QED BY <1>1, <1>2, <2>1 DEF OwnWrites, Listings, OnDevice, Listing
<1>3. ASSUME NEW i, i \in RemoteIds, remote[i] = None \/ i = b.r, NEW v \in Maybe(Values),
             remote' = [remote EXCEPT ![i] = v], hidden' = hidden \ {i}, UNCHANGED local
      PROVE  OwnWrites(b)
  <2>1. OnRemote' = [OnRemote EXCEPT ![i] = v] /\ OnDevice' = OnDevice
    BY <1>1, <1>3, ListingOfPut
  <2> QED BY <1>1, <1>3, <2>1 DEF OwnWrites, Listings, OnRemote, Listing
<1>4. ASSUME UNCHANGED <<local, remote, hidden>> PROVE OwnWrites(b) /\ local' = local /\ remote' = remote
  BY <1>4 DEF OwnWrites, OnDevice, OnRemote, Listing
<1>5. ASSUME NEW i \in Maybe(Ids), StoreCall(b, i)
      PROVE  /\ OwnWrites(b)
             /\ \A l \in LocalIds : local[l] # None /\ local'[l] = None => Deletes(b)
             /\ \A r \in RemoteIds : remote[r] # None /\ remote'[r] = None => Deletes(b)
  <2>1. CASE device_create(b, i)
    <3>1. i \in LocalIds /\ ~Held(i) /\ LocalForm[i][b.rec] \in Maybe(Values) \ {None}
      BY <1>1, <2>1, FormsType, FreeIsFree DEF device_create, Held, WellFormed, Maybe
    <3>2. local' = [local EXCEPT ![i] = LocalForm[i][b.rec]] /\ hidden' = hidden \ {i} /\ UNCHANGED remote
      BY <2>1 DEF device_create, DeviceStores
    <3>3. \A l \in LocalIds : local[l] # None => local'[l] # None
      BY <1>1, <3>1, <3>2 DEF Listings
    <3> QED BY <1>2, <3>1, <3>2, <3>3
  <2>2. CASE device_update(b, i)
    <3>1. i \in LocalIds /\ i = b.l /\ LocalForm[i][b.rec] \in Maybe(Values) \ {None}
      BY <1>1, <2>2, FormsAssumption DEF device_update, WellFormed, Maybe
    <3>2. local' = [local EXCEPT ![i] = LocalForm[i][b.rec]] /\ hidden' = hidden \ {i} /\ UNCHANGED remote
      BY <2>2 DEF device_update, DeviceStores
    <3>3. \A l \in LocalIds : local[l] # None => local'[l] # None
      BY <1>1, <3>1, <3>2 DEF Listings
    <3> QED BY <1>2, <3>1, <3>2, <3>3
  <2>3. CASE device_delete(b, i)
    <3>1. i \in LocalIds /\ i = b.l /\ None \in Maybe(Values) /\ Deletes(b)
      BY <1>1, <2>3 DEF device_delete, WellFormed, Maybe, Deletes
    <3> QED BY <1>2, <2>3, <3>1 DEF device_delete
  <2>4. CASE remote_create(b, i) \/ remote_update(b, i)
    <3>1. i \in RemoteIds /\ (remote[i] = None \/ i = b.r) /\ RemoteForm[b.rec] \in Values
      BY <1>1, <2>4, FormsAssumption DEF remote_create, remote_update, FreeRemote, WellFormed
    <3>2. remote' = [remote EXCEPT ![i] = RemoteForm[b.rec]] /\ hidden' = hidden \ {i} /\ UNCHANGED local
      BY <2>4 DEF remote_create, remote_update, RemoteStores
    <3>3. \A r \in RemoteIds : remote[r] # None => remote'[r] # None
      BY <1>1, <3>1, <3>2 DEF Listings
    <3> QED BY <1>3, <3>1, <3>2, <3>3 DEF Maybe
  <2>5. CASE remote_delete(b, i)
    <3>1. i \in RemoteIds /\ i = b.r /\ None \in Maybe(Values) /\ Deletes(b)
      BY <1>1, <2>5 DEF remote_delete, WellFormed, Maybe, Deletes
    <3> QED BY <1>3, <2>5, <3>1 DEF remote_delete
  <2> QED BY <1>5, <2>1, <2>2, <2>3, <2>4, <2>5 DEF StoreCall
<1>6. CASE Apply(b)
  <2>1. \E i \in Maybe(Ids) : StoreCall(b, i) \/ NoStoreCall(b, i)
    BY <1>6 DEF Apply
  <2> QED BY <1>4, <1>5, <2>1 DEF NoStoreCall
<1>7. CASE LoseAnswer(b)
  BY <1>5, <1>7 DEF LoseAnswer
<1>8. CASE Refuse(b) \/ Fail(b)
  BY <1>4, <1>8 DEF Refuse, Fail, stores
<1>9. CASE CutUpload(b)
  <2>1. PICK i \in LocalIds : /\ \/ b.kind = "create_local" /\ FreeLocal(b.rec, i)
                                 \/ b.kind = "update_local" /\ i = b.l
                              /\ DeviceStores(i, TornForm[i][b.rec])
    BY <1>9 DEF CutUpload
  <2>2. (~Held(i) \/ i = b.l) /\ TornForm[i][b.rec] \in Maybe(Values) \ {None}
    BY <1>1, <2>1, FormsType, FreeIsFree DEF Held, WellFormed, Maybe
  <2>3. local' = [local EXCEPT ![i] = TornForm[i][b.rec]] /\ hidden' = hidden \ {i} /\ UNCHANGED remote
    BY <2>1 DEF DeviceStores
  <2>4. \A l \in LocalIds : local[l] # None => local'[l] # None
    BY <1>1, <2>2, <2>3 DEF Listings
  <2> QED BY <1>2, <2>2, <2>3, <2>4
<1> QED BY <1>6, <1>7, <1>8, <1>9

(* What an answered call adds: it holds what it wrote, and the link made   *)
(* for it has one side written at most.                                    *)
LEMMA LinkAgrees ==
    ASSUME IInv, AgreeInv, NEW b \in pending, First(b, pending), NEW i \in Maybe(Ids),
           StoreCall(b, i) \/ NoStoreCall(b, i), remember(b, i),
           links' = apply_one(b, links, i), touched' = touched \cup touch(b, i)
    PROVE  /\ \A k \in links' : (k \in links /\ k.l \notin touch(b, i) /\ k.r \notin touch(b, i)) \/ Agrees(k)'
           /\ \A l \in touch(b, i) \cap LocalIds : Held(l)'
           /\ \A r \in touch(b, i) \cap RemoteIds : remote'[r] # None
           /\ \A l \in LocalIds : Held(l) => Held(l)' \/ (Deletes(b) /\ l = b.l)
           /\ Folder => \A l \in LocalIds : raw[l] # None => raw'[l] # None \/ (Deletes(b) /\ l = b.l)
           /\ \A j \in touch(b, i) : \/ b.kind = "update_local" /\ j = b.l
                                     \/ b.kind = "update_remote" /\ j = b.r
                                     \/ b.kind = "create_local" /\ j \in LocalIds
                                     \/ b.kind = "create_remote" /\ j \in RemoteIds /\ remote[j] = None
<1>1. local \in Listings(LocalIds) /\ remote \in Listings(RemoteIds) /\ raw \in Listings(LocalIds)
      /\ LocalIds \cap RemoteIds = {} /\ None \notin Values \cup LocalIds \cup RemoteIds
      /\ b \in Action /\ WellFormed(b) /\ TypeOK /\ Awaits(b)
  BY IdsAssumption DEF IInv, TypeOK, AgreeInv
<1>2. \A l, v : SameContent(l, v, v)
  BY DEF SameContent
<1>3. OnDevice \in Listings(LocalIds) /\ OnRemote \in Listings(RemoteIds)
  BY <1>1, ListingType DEF OnDevice, OnRemote
<1>4. ASSUME NEW n, links' = with_link(links, n), n.l \in touch(b, i) \/ n.r \in touch(b, i),
             touch(b, i) \subseteq {n.l, n.r}, Agrees(n)', n.l \in LocalIds, n.r \in RemoteIds
      PROVE  \A k \in links' : (k \in links /\ k.l \notin touch(b, i) /\ k.r \notin touch(b, i)) \/ Agrees(k)'
  <2>1. \A k \in links : k.l \in LocalIds /\ k.r \in RemoteIds
    BY <1>1 DEF TypeOK, Link
  <2>2. \A k \in links' : k = n \/ (k \in links /\ k.l # n.l /\ k.r # n.r)
    BY <1>4 DEF with_link
  <2> QED BY <1>1, <1>4, <2>1, <2>2
<1>5. CASE device_create(b, i) \/ device_update(b, i)
  <2> DEFINE v == LocalForm[i][b.rec]
             n == Agreed(i, b.r, b.rec)
  <2>1. i \in LocalIds /\ v \in Values /\ b.r \in RemoteIds /\ b.rec \in Values
        /\ (b.kind = "create_local" \/ (b.kind = "update_local" /\ i = b.l))
    BY <1>1, <1>5, FormsAssumption DEF device_create, device_update, WellFormed
  <2>2. local' = [local EXCEPT ![i] = v] /\ UNCHANGED remote /\ hidden' = hidden \ {i}
    BY <1>5 DEF device_create, device_update, DeviceStores
  <2>3. touch(b, i) = {i} /\ links' = with_link(links, n)
    BY <2>1, <1>5 DEF touch, apply_one
  <2>4. n.l = i /\ n.r = b.r /\ n.lh = b.rec /\ n.rh = b.rec
    BY DEF Agreed
  <2>5. IF b.kind = "create_local" THEN raw' = [raw EXCEPT ![i] = v] ELSE raw' = raw /\ (Folder => raw[i] # None)
    BY <1>1, <2>1 DEF remember, Awaits
  <2> HIDE DEF v, n
  <2>6. OnDevice' = [OnDevice EXCEPT ![i] = v] /\ OnRemote' = OnRemote
    BY <1>1, <2>1, <2>2, ListingOfPut DEF Maybe
  <2>7. Agrees(n)'
    <3>1. OnDevice'[i] = LocalForm[i][b.rec]
      BY <1>3, <2>1, <2>6 DEF Listings, v
    <3>2. b.r \notin touched'
      BY <1>1, <2>1, <2>3 DEF Awaits
    <3> QED BY <1>2, <2>4, <3>1, <3>2 DEF Agrees
  <2>8. Held(i)' /\ (\A l \in LocalIds : Held(l) => Held(l)')
    BY <1>1, <2>1, <2>2, <2>5 DEF Held, Listings
  <2>9. \A l \in LocalIds : raw[l] # None => raw'[l] # None
    BY <1>1, <2>1, <2>5 DEF Listings
  <2>10. \A k \in links' : (k \in links /\ k.l \notin touch(b, i) /\ k.r \notin touch(b, i)) \/ Agrees(k)'
    BY <1>4, <2>1, <2>3, <2>4, <2>7
  <2> QED BY <1>1, <2>1, <2>3, <2>8, <2>9, <2>10
<1>6. CASE remote_create(b, i) \/ remote_update(b, i)
  <2> DEFINE v == RemoteForm[b.rec]
             n == Agreed(b.l, i, b.rec)
  <2>1. i \in RemoteIds /\ v \in Values /\ b.l \in LocalIds /\ b.rec \in Values
        /\ ((b.kind = "create_remote" /\ remote[i] = None) \/ (b.kind = "update_remote" /\ i = b.r))
    BY <1>1, <1>6, FormsAssumption DEF remote_create, remote_update, FreeRemote, WellFormed
  <2>2. remote' = [remote EXCEPT ![i] = v] /\ UNCHANGED local /\ hidden' = hidden \ {i}
    BY <1>6 DEF remote_create, remote_update, RemoteStores
  <2>3. touch(b, i) = {i} /\ links' = with_link(links, n)
    BY <2>1, <1>6 DEF touch, apply_one
  <2>4. n.l = b.l /\ n.r = i /\ n.lh = b.rec /\ n.rh = b.rec
    BY DEF Agreed
  <2>5. raw' = raw
    BY <2>1 DEF remember
  <2> HIDE DEF v, n
  <2>6. OnRemote' = [OnRemote EXCEPT ![i] = v] /\ OnDevice' = OnDevice
    BY <1>1, <2>1, <2>2, ListingOfPut DEF Maybe
  <2>7. Agrees(n)'
    <3>1. OnRemote'[i] = RemoteForm[b.rec]
      BY <1>3, <2>1, <2>6 DEF Listings, v
    <3>2. b.l \notin touched'
      BY <1>1, <2>1, <2>3 DEF Awaits
    <3> QED BY <1>2, <2>4, <3>1, <3>2 DEF Agrees
  <2>8. remote'[i] # None /\ (\A l \in LocalIds : Held(l) => Held(l)')
    BY <1>1, <2>1, <2>2, <2>5 DEF Held, Listings
  <2>9. \A k \in links' : (k \in links /\ k.l \notin touch(b, i) /\ k.r \notin touch(b, i)) \/ Agrees(k)'
    BY <1>4, <2>1, <2>3, <2>4, <2>7
  <2> QED BY <1>1, <2>1, <2>3, <2>5, <2>8, <2>9
<1>7. CASE device_delete(b, i) \/ remote_delete(b, i)
  <2>1. b.kind \in {"delete_local", "delete_remote"} /\ Deletes(b) /\ touch(b, i) = {}
    BY <1>7 DEF device_delete, remote_delete, Deletes, touch
  <2>2. links' \subseteq links
    BY <2>1 DEF apply_one, without
  <2>3. (local' = local /\ raw' = raw)
        \/ (i = b.l /\ local' = [local EXCEPT ![i] = None] /\ raw' = [raw EXCEPT ![i] = None])
    BY <1>7 DEF device_delete, remote_delete, remember
  <2>4. \A l \in LocalIds : l # b.l => local'[l] = local[l] /\ raw'[l] = raw[l]
    BY <1>1, <2>3 DEF Listings
  <2>5. \A l \in LocalIds : Held(l) => Held(l)' \/ l = b.l
    BY <2>4 DEF Held
  <2> QED BY <2>1, <2>2, <2>4, <2>5
<1>8. CASE NoStoreCall(b, i)
  <2>1. b.kind \in {"link", "unlink", "skip"} /\ UNCHANGED <<local, remote, hidden>> /\ raw' = raw /\ touch(b, i) = {}
    BY <1>1, <1>8 DEF NoStoreCall, remember, touch, StoreKinds, Kinds, Action
  <2>2. \A l \in LocalIds : Held(l) => Held(l)'
    BY <2>1 DEF Held
  <2>3. CASE b.kind # "link"
    BY <2>1, <2>2, <2>3 DEF apply_one, without
  <2>4. CASE b.kind = "link"
    <3> DEFINE n == Agreed(b.l, b.r, b.rec)
    <3>1. links' = with_link(links, n)
      BY <2>4 DEF apply_one
    <3>2. n.l = b.l /\ n.r = b.r /\ n.lh = b.rec /\ n.rh = b.rec
      BY DEF Agreed
    <3>3. Agrees(n)'
      BY <1>1, <1>2, <2>1, <3>2 DEF Agrees, Awaits
    <3> QED BY <2>1, <2>2, <3>1, <3>3 DEF with_link
  <2> QED BY <2>3, <2>4
<1> QED BY <1>5, <1>6, <1>7, <1>8 DEF StoreCall

LEMMA ActionAgrees ==
    ASSUME IInv, AgreeInv, NEW b \in pending, Apply(b) \/ Refuse(b) \/ Fail(b) \/ LoseAnswer(b) \/ CutUpload(b)
    PROVE  AgreeInv'
<1>1. /\ phase = "apply" /\ phase' = "apply" /\ pending' = pending \ {b} /\ saved' = saved
      /\ First(b, pending) /\ b.stage \in 1..3
  BY DEF Apply, Refuse, Fail, LoseAnswer, CutUpload, Error, Done, Ready, First, IInv, TypeOK, Action
<1>2. /\ OwnWrites(b)
      /\ \A l \in LocalIds : local[l] # None /\ local'[l] = None => Deletes(b)
      /\ \A r \in RemoteIds : remote[r] # None /\ remote'[r] = None => Deletes(b)
  BY WritesOwn
<1>3. /\ \A l \in touched \cap LocalIds : Held(l)
      /\ \A r \in touched \cap RemoteIds : remote[r] # None
      /\ Awaits(b) /\ b.l \notin touched /\ b.r \notin touched
  BY <1>1 DEF AgreeInv, Awaits
<1>4. ASSUME NEW a \in pending, a # b
      PROVE  /\ Awaits(a) /\ b.stage <= a.stage /\ a.stage \in 1..3 /\ a.l \in Maybe(LocalIds) /\ a.r \in Maybe(RemoteIds)
             /\ WellFormed(a)
             /\ Meet(a, b) => b.kind = "link" /\ b.stage = 2
  <2>1. Awaits(a) /\ b.stage <= a.stage /\ a.stage \in 1..3 /\ a.l \in Maybe(LocalIds) /\ a.r \in Maybe(RemoteIds) /\ WellFormed(a)
    BY <1>1 DEF First, IInv, TypeOK, Action, AgreeInv
  <2>2. Meet(a, b) => PairAndConflict(a, b)
    BY <1>4 DEF AgreeInv, Apart
  <2>3. PairAndConflict(a, b) => b.kind = "link" /\ b.stage = 2
    BY <1>1, <1>4 DEF PairAndConflict, First
  <2> QED BY <2>1, <2>2, <2>3
<1>5. LocalIds \cap RemoteIds = {} /\ None \notin LocalIds \cup RemoteIds
      /\ \A k \in links : k.l \in LocalIds /\ k.r \in RemoteIds
  BY IdsAssumption DEF IInv, TypeOK, Link
<1>6. ASSUME NEW new, touched' = touched \cup new,
             \A k \in links' : (k \in links /\ k.l \notin new /\ k.r \notin new) \/ Agrees(k)',
             \A l \in new \cap LocalIds : Held(l)',
             \A r \in new \cap RemoteIds : remote'[r] # None,
             \A l \in LocalIds : Held(l) => Held(l)' \/ (Deletes(b) /\ l = b.l),
             Folder => \A l \in LocalIds : raw[l] # None => raw'[l] # None \/ (Deletes(b) /\ l = b.l),
             \A j \in new : \/ b.kind = "update_local" /\ j = b.l
                            \/ b.kind = "update_remote" /\ j = b.r
                            \/ b.kind = "create_local" /\ j \in LocalIds
                            \/ b.kind = "create_remote" /\ j \in RemoteIds /\ remote[j] = None
      PROVE  AgreeInv'
  <2>1. ASSUME NEW k \in links' PROVE Agrees(k)'
    <3>1. CASE k \in links /\ k.l \notin new /\ k.r \notin new
      <4>1. Agrees(k) /\ (k.l \in touched' <=> k.l \in touched) /\ (k.r \in touched' <=> k.r \in touched)
        BY <1>6, <3>1 DEF AgreeInv
      <4>2. k.l \in touched => OnDevice'[k.l] = OnDevice[k.l]
        BY <1>2, <1>3, <1>5, <3>1 DEF OwnWrites
      <4>3. k.r \in touched => OnRemote'[k.r] = OnRemote[k.r]
        BY <1>2, <1>3, <1>5, <3>1 DEF OwnWrites
      <4> QED BY <4>1, <4>2, <4>3 DEF Agrees
    <3> QED BY <1>6, <3>1
  <2>2. ASSUME NEW a \in pending' PROVE Awaits(a)'
    <3>1. a \in pending /\ a # b
      BY <1>1
    <3>2. a.l \notin new
      <4>1. a.l \in new => b.kind \in {"update_local", "create_local"} /\ a.l \in LocalIds
        BY <1>3, <1>4, <1>5, <1>6, <3>1 DEF Maybe, Awaits, IInv, TypeOK, WellFormed
      <4>2. CASE b.kind = "update_local"
        BY <1>4, <1>5, <1>6, <3>1, <4>1, <4>2 DEF Meet
      <4>3. CASE b.kind = "create_local"
        BY <1>3, <1>4, <1>5, <3>1, <4>1, <4>3 DEF Awaits
      <4> QED BY <4>1, <4>2, <4>3
    <3>3. a.r \notin new
      <4>1. a.r \in new => b.kind \in {"update_remote", "create_remote"} /\ a.r \in RemoteIds
        BY <1>3, <1>4, <1>5, <1>6, <3>1 DEF Maybe, Awaits, IInv, TypeOK, WellFormed
      <4>2. CASE b.kind = "update_remote"
        BY <1>4, <1>5, <1>6, <3>1, <4>1, <4>2 DEF Meet
      <4>3. CASE b.kind = "create_remote"
        BY <1>3, <1>4, <1>5, <1>6, <3>1, <4>1, <4>3 DEF Awaits
      <4> QED BY <4>1, <4>2, <4>3
    <3>4. a.stage >= 2 /\ a.r # None => remote'[a.r] # None
      <4> SUFFICES ASSUME a.stage >= 2, a.r # None PROVE remote'[a.r] # None
        OBVIOUS
      <4>1. a.r \in RemoteIds /\ remote[a.r] # None
        BY <1>4, <3>1 DEF Awaits, Maybe
      <4>2. CASE a.r # b.r
        BY <1>2, <4>1, <4>2 DEF OwnWrites
      <4>3. CASE a.r = b.r
        <5>1. ~Deletes(b)
          BY <1>4, <3>1, <4>3 DEF Meet, Deletes
        <5> QED BY <1>2, <4>1, <5>1
      <4> QED BY <4>2, <4>3
    <3>5. a.kind = "update_local" /\ Folder => raw'[a.l] # None
      <4> SUFFICES ASSUME a.kind = "update_local", Folder PROVE raw'[a.l] # None
        OBVIOUS
      <4>1. a.l \in LocalIds /\ raw[a.l] # None
        BY <1>4, <3>1 DEF Awaits, WellFormed
      <4>2. a.l = b.l => ~Deletes(b)
        BY <1>4, <1>5, <3>1, <4>1 DEF Meet, Deletes
      <4> QED BY <1>6, <4>1, <4>2
    <3> QED BY <1>4, <1>6, <3>1, <3>2, <3>3, <3>4, <3>5 DEF Awaits
  <2>3. Apart(pending')
    BY <1>1 DEF AgreeInv, Apart
  <2>4. \A l \in touched' \cap LocalIds : Held(l)'
    BY <1>3, <1>6
  <2>5. \A r \in touched' \cap RemoteIds : remote'[r] # None
    BY <1>2, <1>3, <1>6 DEF OwnWrites
  <2> QED BY <1>1, <2>1, <2>2, <2>3, <2>4, <2>5 DEF AgreeInv
<1>7. CASE Apply(b)
  <2>1. PICK i \in Maybe(Ids) : /\ StoreCall(b, i) \/ NoStoreCall(b, i)
                                /\ links' = apply_one(b, links, i) /\ touched' = touched \cup touch(b, i) /\ remember(b, i)
    BY <1>7 DEF Apply
  <2> QED BY <1>1, <1>6, <2>1, LinkAgrees
<1>8. CASE Refuse(b) \/ Fail(b) \/ LoseAnswer(b) \/ CutUpload(b)
  <2>1. UNCHANGED <<links, touched, raw>>
    BY <1>8 DEF Refuse, Fail, LoseAnswer, CutUpload, Error
  <2>2. \A l \in LocalIds : Held(l) => Held(l)' \/ (Deletes(b) /\ l = b.l)
    BY <1>2, <2>1 DEF Held, OwnWrites
  <2>3. PICK none : none = {}
    OBVIOUS
  <2>4. touched' = touched \cup none
    BY <2>1, <2>3
  <2>5. \A k \in links' : (k \in links /\ k.l \notin none /\ k.r \notin none) \/ Agrees(k)'
    BY <2>1, <2>3
  <2>6. \A l \in none \cap LocalIds : Held(l)'
    BY <2>3
  <2>7. \A r \in none \cap RemoteIds : remote'[r] # None
    BY <2>3
  <2>8. Folder => \A l \in LocalIds : raw[l] # None => raw'[l] # None \/ (Deletes(b) /\ l = b.l)
    BY <2>1
  <2>9. \A j \in none : \/ b.kind = "update_local" /\ j = b.l
                        \/ b.kind = "update_remote" /\ j = b.r
                        \/ b.kind = "create_local" /\ j \in LocalIds
                        \/ b.kind = "create_remote" /\ j \in RemoteIds /\ remote[j] = None
    BY <2>3
  <2> QED BY <1>6, <2>2, <2>4, <2>5, <2>6, <2>7, <2>8, <2>9
<1> QED BY <1>7, <1>8

LEMMA StepAgrees ==
    ASSUME IInv, AgreeInv, [Next]_vars, ~Interfere
    PROVE  AgreeInv'
<1>1. ASSUME UNCHANGED <<local, remote, hidden>> PROVE OnDevice' = OnDevice /\ OnRemote' = OnRemote
  BY <1>1 DEF OnDevice, OnRemote, Listing
<1>2. OnDevice \in Listings(LocalIds) /\ OnRemote \in Listings(RemoteIds) /\ links \in SUBSET Link /\ saved \in SUBSET Link
  BY ListingType DEF IInv, TypeOK, OnDevice, OnRemote
<1>3. Apart({})
  BY DEF Apart
<1>4. ASSUME pending' = {}, touched' = {}, phase' = "idle", links' = {}, \A k \in saved' : SameContent(k.l, k.lh, k.rh)
      PROVE  AgreeInv'
  BY <1>3, <1>4 DEF AgreeInv
<1>5. CASE User
  <2>1. UserStep /\ phase = "idle"
    BY <1>5 DEF User, UserCreates, UserEdits, UserDeletesRecord, ReadabilityChanges, UserStep
  <2>2. /\ UNCHANGED <<saved, phase, links, pending, touched>> /\ pending = {} /\ touched = {}
    BY <2>1 DEF UserStep, memory, AgreeInv
  <2>3. \A k \in links' : Agrees(k)'
    BY <2>2 DEF AgreeInv, Agrees
  <2> QED BY <1>3, <2>1, <2>2, <2>3 DEF AgreeInv
<1>6. CASE \E o \in Runs : Start(o)
  <2>1. /\ UNCHANGED <<local, remote, hidden, saved, pending, touched>> /\ phase = "idle" /\ phase' = "listed"
        /\ localItems' = OnDevice /\ raw' = local /\ links' = saved
    BY <1>6 DEF Start, stores, OnDevice
  <2>2. pending' = {} /\ touched' = {}
    BY <2>1 DEF AgreeInv
  <2>3. \A k \in links' : Agrees(k)'
    BY <2>1, <2>2 DEF AgreeInv, Agrees
  <2> QED BY <1>1, <1>3, <2>1, <2>2, <2>3 DEF AgreeInv
<1>7. CASE Plan
  <2>1. UNCHANGED <<local, remote, hidden, saved, links, touched, raw>> /\ phase = "listed" /\ phase' = "apply"
        /\ localItems = OnDevice /\ raw = local /\ touched = {}
    BY <1>7 DEF Plan, stores, AgreeInv
  <2>2. PICK P \in Pairings(OnDevice, OnRemote, links) : pending' = plan(OnDevice, OnRemote, links, P, args)
    BY <1>7, <2>1 DEF Plan, OnRemote
  <2>3. Apart(pending')
    BY <1>2, <2>2, PlanApart DEF IInv, LinksOneToOne
  <2>4. ASSUME NEW a \in pending' PROVE Awaits(a)'
    <3>1. /\ a.kind = "create_remote" => a.stage = 2 /\ a.r = None
          /\ a.kind = "create_local" => a.stage = 3
          /\ a.stage = 3 => a.l = None
          /\ a.stage >= 2 /\ a.r # None => OnRemote[a.r] # None
          /\ a.kind = "update_local" => a.l \in LocalIds /\ OnDevice[a.l] # None
          /\ Deletes(a) => a.stage = 1
      BY <1>2, <2>2, PlanAwaits
    <3>2. a.r \in Maybe(RemoteIds)
      BY StepType DEF IInv, TypeOK, Action
    <3>3. /\ a.r # None /\ OnRemote[a.r] # None => remote[a.r] # None
          /\ a.l \in LocalIds /\ OnDevice[a.l] # None => local[a.l] # None
      BY <3>2 DEF OnDevice, OnRemote, Listing, IInv, TypeOK, Listings, Maybe
    <3> QED BY <2>1, <3>1, <3>3 DEF Awaits
  <2>5. \A k \in links' : Agrees(k)'
    BY <2>1 DEF AgreeInv, Agrees
  <2> QED BY <2>1, <2>3, <2>4, <2>5 DEF AgreeInv
<1>8. CASE DryRun \/ Crash
  BY <1>4, <1>8 DEF DryRun, Crash, Exit, AgreeInv
<1>9. CASE SaveUntouched
  <2>1. saved' = links /\ pending' = {} /\ touched' = {} /\ phase' = "idle" /\ links' = {}
    BY <1>9 DEF SaveUntouched, Exit
  <2> QED BY <1>4, <2>1 DEF AgreeInv, Agrees
<1>10. CASE SaveRefreshed
  <2>1. saved' = refresh_hashes(links, OnDevice, OnRemote, touched) /\ pending' = {} /\ touched' = {} /\ phase' = "idle" /\ links' = {}
    BY <1>10 DEF SaveRefreshed, Exit, AgreeInv, OnRemote
  <2>2. ASSUME NEW k \in saved' PROVE SameContent(k.l, k.lh, k.rh)
    <3>1. PICK j \in links :
            k = [j EXCEPT !.lh = IF j.l \in touched /\ OnDevice[j.l] # None THEN OnDevice[j.l] ELSE @,
                          !.rh = IF j.r \in touched /\ OnRemote[j.r] # None THEN OnRemote[j.r] ELSE @]
      BY <2>1 DEF refresh_hashes
    <3>2. j \in Link /\ Agrees(j)
      BY DEF IInv, TypeOK, AgreeInv
    <3>3. /\ k.l = j.l
          /\ k.lh = IF j.l \in touched /\ OnDevice[j.l] # None THEN OnDevice[j.l] ELSE j.lh
          /\ k.rh = IF j.r \in touched /\ OnRemote[j.r] # None THEN OnRemote[j.r] ELSE j.rh
      BY <3>1, <3>2 DEF Link
    <3> QED BY <3>2, <3>3 DEF Agrees, SameContent
  <2> QED BY <1>4, <2>1, <2>2
<1>11. CASE Relist
  <2>1. UNCHANGED <<local, remote, hidden, saved, links, pending, touched>> /\ pending = {}
        /\ phase' = "relisted" /\ localItems' = OnDevice
    BY <1>11 DEF Relist, stores, OnDevice
  <2>2. \A k \in links' : Agrees(k)'
    BY <1>1, <2>1 DEF AgreeInv, Agrees
  <2> QED BY <1>1, <1>3, <2>1, <2>2 DEF AgreeInv
<1>12. CASE StateLost
  <2>1. UNCHANGED <<local, remote, hidden, links, pending, touched, phase>> /\ saved' = {} /\ phase = "idle"
    BY <1>12 DEF StateLost, stores, memory
  <2>2. (\A k \in links' : Agrees(k)') /\ \A a \in pending' : Awaits(a)'
    BY <1>1, <2>1 DEF AgreeInv, Agrees
  <2> QED BY <1>3, <2>1, <2>2 DEF AgreeInv
<1>13. CASE UNCHANGED vars
  <2>1. UNCHANGED <<local, remote, hidden, saved, links, pending, touched, phase, localItems, raw>>
    BY <1>13 DEF vars, stores, memory
  <2>2. (\A k \in links' : Agrees(k)') /\ \A a \in pending' : Awaits(a)'
    BY <1>1, <2>1 DEF AgreeInv, Agrees, Awaits
  <2>3. \A l : Held(l) <=> Held(l)'
    BY <2>1 DEF Held
  <2> QED BY <1>1, <2>1, <2>2, <2>3 DEF AgreeInv
<1>14. ASSUME NEW b \in pending, Apply(b) \/ Refuse(b) \/ Fail(b) \/ LoseAnswer(b) \/ CutUpload(b)
       PROVE  AgreeInv'
  BY <1>14, ActionAgrees
<1> QED BY <1>5, <1>6, <1>7, <1>8, <1>9, <1>10, <1>11, <1>12, <1>13, <1>14 DEF Next, Sync, Trouble

LEMMA InitAgrees == Init => AgreeInv
  BY DEF Init, AgreeInv, Apart

(* With nobody writing during a run: after a two-way run without errors    *)
(* every listed record has its counterpart with the same content, up to    *)
(* what the two stores make of it, whatever failed, was lost, torn or      *)
(* crashed in earlier runs (engine.py, apply and refresh_hashes).          *)
THEOREM SettledPairsAgree ==
    ASSUME ~Interfere
    PROVE  Spec => []SettledInStep
<1> DEFINE Inv == IInv /\ SettleInv /\ AgreeInv
<1>1. Inv => SettledInStep
  <2> SUFFICES ASSUME IInv, SettleInv, AgreeInv, settled PROVE SettledInStep
    BY DEF SettledInStep
  <2>1. Linked(OnDevice, OnRemote, saved)
        /\ \A k \in saved : /\ OnDevice[k.l] = k.lh /\ OnDevice[k.l] # None
                            /\ OnRemote[k.r] = k.rh /\ OnRemote[k.r] # None
                            /\ SameContent(k.l, k.lh, k.rh)
    BY DEF SettleInv, AgreeInv, InStep, AsListed
  <2> QED BY <2>1 DEF SettledInStep, Linked, OnDevice, OnRemote
<1>2. Init => Inv
  BY InitType, InitSettles, InitAgrees
<1>3. Inv /\ [Next]_vars => Inv'
  BY StepType, StepSettles, StepAgrees
<1> QED BY <1>1, <1>2, <1>3, PTL DEF Spec

-------------------------------------------------------------------------------
(***************************************************************************)
(* Duplicates.  Ids are handed out once, and neither the forms of the      *)
(* stores nor the user's edits change the key of a record.  So an id keeps *)
(* its key for good, and of two ids that are linked, or are to be, each is *)
(* the only one of that key on its side.                                   *)
(***************************************************************************)
KeysKept ==
    /\ \A v \in Values : match_key[RemoteForm[v]] = match_key[v] /\ \A l \in LocalIds : match_key[LocalForm[l][v]] = match_key[v]
    /\ \A e \in Edits : match_key[e[1]] = match_key[e[2]]
    /\ \A s \in InitLocal \cup InitRemote : UniqueKeys(s)
    /\ Creates = {}

HasKey(s, i, key) == s[i] # None /\ match_key[s[i]] = key
OnlyOfKey(s, i, key) == \A j \in DOMAIN s : HasKey(s, j, key) => j = i
NoneOfKey(s, key) == \A j \in DOMAIN s : ~HasKey(s, j, key)
Within(s, t) == \A i \in DOMAIN s : s[i] # None => HasKey(t, i, match_key[s[i]])

Counterparts(L, R, l, r) ==
    /\ L[l] # None /\ R[r] # None => match_key[L[l]] = match_key[R[r]]
    /\ L[l] # None => OnlyOfKey(R, r, match_key[L[l]])
    /\ R[r] # None => OnlyOfKey(L, l, match_key[R[r]])

Creation(a) == a.kind \in {"create_local", "create_remote"}
Joins(a) == a.kind \in {"link", "update_local", "update_remote"}

Unlinked(a, k) ==
    /\ a.kind = "create_remote" => k.l # a.l
    /\ a.kind = "create_local" => k.r # a.r

Due(a) ==
    /\ a.kind = "create_remote" => NoneOfKey(remote, match_key[a.rec]) /\ OnlyOfKey(local, a.l, match_key[a.rec])
    /\ a.kind = "create_local" => NoneOfKey(local, match_key[a.rec]) /\ OnlyOfKey(remote, a.r, match_key[a.rec])
    /\ Joins(a) => Counterparts(local, remote, a.l, a.r)
    /\ (Joins(a) \/ a.kind = "create_remote") /\ local[a.l] # None => HasKey(local, a.l, match_key[a.rec])
    /\ (Joins(a) \/ a.kind = "create_local") /\ remote[a.r] # None => HasKey(remote, a.r, match_key[a.rec])

KeyInv ==
    /\ UniqueKeys(local) /\ UniqueKeys(remote)
    /\ \A k \in saved \cup links : Counterparts(local, remote, k.l, k.r)
    /\ phase = "listed" => /\ UniqueKeys(localItems) /\ Within(local, localItems)
                           /\ \A k \in links : Counterparts(localItems, remote, k.l, k.r)
    /\ Apart(pending) /\ \A a \in pending : Due(a)
    /\ \A a \in pending, k \in saved \cup links : Unlinked(a, k)
    /\ \A a, b \in pending : Creation(a) /\ Creation(b) /\ match_key[a.rec] = match_key[b.rec] => a = b

(* Counterparts stay counterparts while records only go or keep their key. *)
LEMMA FewerOfKey ==
    ASSUME NEW A, NEW s \in Listings(A), NEW t \in Listings(A), Within(s, t)
    PROVE  /\ UniqueKeys(t) => UniqueKeys(s)
           /\ \A i, key : OnlyOfKey(t, i, key) => OnlyOfKey(s, i, key)
           /\ \A key : NoneOfKey(t, key) => NoneOfKey(s, key)
<1>1. DOMAIN s = A /\ DOMAIN t = A
  BY DEF Listings
<1>2. \A i \in A : \A key : HasKey(s, i, key) => HasKey(t, i, key)
  BY <1>1 DEF Within, HasKey
<1>3. UniqueKeys(t) => UniqueKeys(s)
  BY <1>1 DEF UniqueKeys, Present, Within, HasKey
<1> QED BY <1>1, <1>2, <1>3 DEF OnlyOfKey, NoneOfKey

LEMMA StayCounterparts ==
    ASSUME NEW A, NEW B, NEW s \in Listings(A), NEW t \in Listings(A), Within(s, t),
           NEW u \in Listings(B), NEW v \in Listings(B), Within(u, v),
           NEW i \in A, NEW j \in B, Counterparts(t, v, i, j)
    PROVE  Counterparts(s, u, i, j)
<1>1. DOMAIN s = A /\ DOMAIN u = B
  BY DEF Listings
<1>2. /\ s[i] # None => t[i] # None /\ match_key[t[i]] = match_key[s[i]]
      /\ u[j] # None => v[j] # None /\ match_key[v[j]] = match_key[u[j]]
  BY <1>1 DEF Within, HasKey
<1>3. /\ \A key : OnlyOfKey(t, i, key) => OnlyOfKey(s, i, key)
      /\ \A key : OnlyOfKey(v, j, key) => OnlyOfKey(u, j, key)
  BY FewerOfKey
<1> QED BY <1>2, <1>3 DEF Counterparts

LEMMA CounterpartsSwap ==
    ASSUME NEW s, NEW t, NEW i, NEW j
    PROVE  Counterparts(s, t, i, j) <=> Counterparts(t, s, j, i)
  BY DEF Counterparts

(* A record created where there was none of its key is the counterpart of  *)
(* the only one of that key on the other side, and of no other.            *)
LEMMA NewCounterpart ==
    ASSUME NEW A, NEW B, NEW s \in Listings(A), NEW t \in Listings(B), NEW i \in A, NEW j \in B, t[j] = None,
           NEW v \in Values, NEW u \in Listings(B), u[j] = v, \A r \in B \ {j} : u[r] = t[r],
           UniqueKeys(t), NoneOfKey(t, match_key[v]), OnlyOfKey(s, i, match_key[v]),
           s[i] # None => HasKey(s, i, match_key[v])
    PROVE  /\ UniqueKeys(u) /\ Counterparts(s, u, i, j)
           /\ \A l \in A, r \in B : Counterparts(s, t, l, r) /\ l # i /\ r # j => Counterparts(s, u, l, r)
           /\ \A key : key # match_key[v] /\ NoneOfKey(t, key) => NoneOfKey(u, key)
           /\ \A r, key : key # match_key[v] /\ OnlyOfKey(t, r, key) => OnlyOfKey(u, r, key)
<1>1. DOMAIN s = A /\ DOMAIN t = B /\ DOMAIN u = B /\ v # None
  BY IdsAssumption DEF Listings
<1>2. \A r \in B : u[r] = IF r = j THEN v ELSE t[r]
  OBVIOUS
<1>3. \A r \in B : \A key : HasKey(u, r, key) <=> IF r = j THEN key = match_key[v] ELSE HasKey(t, r, key)
  BY <1>1, <1>2 DEF HasKey
<1>4. UniqueKeys(u)
  BY <1>1, <1>2 DEF UniqueKeys, Present, NoneOfKey, HasKey
<1>5. Counterparts(s, u, i, j)
  BY <1>1, <1>2, <1>3 DEF Counterparts, OnlyOfKey, NoneOfKey, HasKey
<1>6. ASSUME NEW l \in A, NEW r \in B, Counterparts(s, t, l, r), l # i, r # j PROVE Counterparts(s, u, l, r)
  BY <1>1, <1>2, <1>3, <1>6 DEF Counterparts, OnlyOfKey, HasKey
<1>7. ASSUME NEW r, NEW key, key # match_key[v]
      PROVE  /\ NoneOfKey(t, key) => NoneOfKey(u, key)
             /\ OnlyOfKey(t, r, key) => OnlyOfKey(u, r, key)
  BY <1>1, <1>3, <1>7 DEF NoneOfKey, OnlyOfKey
<1> QED BY <1>4, <1>5, <1>6, <1>7

(* A step in which records only go or keep their key.                      *)
Thins == Within(local', local) /\ Within(remote', remote)

LEMMA ThinnedKeys ==
    ASSUME IInv, IInv', KeyInv, Thins
    PROVE  /\ UniqueKeys(local') /\ UniqueKeys(remote')
           /\ \A l \in LocalIds, r \in RemoteIds : Counterparts(local, remote, l, r) => Counterparts(local', remote', l, r)
           /\ \A a \in pending : Due(a)'
<1>1. local \in Listings(LocalIds) /\ local' \in Listings(LocalIds) /\ remote \in Listings(RemoteIds) /\ remote' \in Listings(RemoteIds)
  BY DEF IInv, TypeOK
<1>2. /\ UniqueKeys(local) => UniqueKeys(local')
      /\ \A i, key : OnlyOfKey(local, i, key) => OnlyOfKey(local', i, key)
      /\ \A key : NoneOfKey(local, key) => NoneOfKey(local', key)
  BY <1>1, FewerOfKey DEF Thins
<1>3. /\ UniqueKeys(remote) => UniqueKeys(remote')
      /\ \A i, key : OnlyOfKey(remote, i, key) => OnlyOfKey(remote', i, key)
      /\ \A key : NoneOfKey(remote, key) => NoneOfKey(remote', key)
  BY <1>1, FewerOfKey DEF Thins
<1>4. \A l \in LocalIds, r \in RemoteIds : Counterparts(local, remote, l, r) => Counterparts(local', remote', l, r)
  BY <1>1, StayCounterparts DEF Thins
<1>5. /\ \A l \in LocalIds : \A key : (local[l] # None => HasKey(local, l, key)) => (local'[l] # None => HasKey(local', l, key))
      /\ \A r \in RemoteIds : \A key : (remote[r] # None => HasKey(remote, r, key)) => (remote'[r] # None => HasKey(remote', r, key))
  BY <1>1 DEF Thins, Within, HasKey, Listings
<1>6. ASSUME NEW a \in pending PROVE Due(a)'
  <2>1. Due(a) /\ WellFormed(a)
    BY DEF KeyInv, IInv, TypeOK
  <2>2. /\ Joins(a) \/ a.kind = "create_remote" => a.l \in LocalIds
        /\ Joins(a) \/ a.kind = "create_local" => a.r \in RemoteIds
    BY <2>1 DEF WellFormed, Joins
  <2>3. Joins(a) => Counterparts(local', remote', a.l, a.r)
    BY <1>4, <2>1, <2>2 DEF Due
  <2>4. (Joins(a) \/ a.kind = "create_remote") /\ local'[a.l] # None => HasKey(local', a.l, match_key[a.rec])
    BY <1>5, <2>1, <2>2 DEF Due
  <2>5. (Joins(a) \/ a.kind = "create_local") /\ remote'[a.r] # None => HasKey(remote', a.r, match_key[a.rec])
    BY <1>5, <2>1, <2>2 DEF Due
  <2>6. /\ a.kind = "create_remote" => NoneOfKey(remote', match_key[a.rec]) /\ OnlyOfKey(local', a.l, match_key[a.rec])
        /\ a.kind = "create_local" => NoneOfKey(local', match_key[a.rec]) /\ OnlyOfKey(remote', a.r, match_key[a.rec])
    BY <1>2, <1>3, <2>1 DEF Due
  <2> QED BY <2>3, <2>4, <2>5, <2>6 DEF Due
<1> QED BY <1>2, <1>3, <1>4, <1>6 DEF KeyInv

LEMMA UserThins ==
    ASSUME IInv, KeysKept, User
    PROVE  Thins
<1>1. local \in Listings(LocalIds) /\ remote \in Listings(RemoteIds)
  BY DEF IInv, TypeOK
<1>2. UNCHANGED <<local, remote>> => Thins
  BY <1>1 DEF Thins, Within, HasKey, Listings
<1>3. CASE UserEdits
  <2>1. PICK e \in Edits : \/ \E i \in LocalIds : local[i] = e[1] /\ UserPutsLocal(i, e[2])
                           \/ \E i \in RemoteIds : remote[i] = e[1] /\ UserPutsRemote(i, e[2])
    BY <1>3 DEF UserEdits
  <2>2. e[1] \in Values /\ e[2] \in Values /\ e[1] # None
    BY StoresAssumption, IdsAssumption
  <2>3. match_key[RemoteForm[e[2]]] = match_key[e[1]] /\ \A i \in LocalIds : match_key[LocalForm[i][e[2]]] = match_key[e[1]]
    BY <2>2 DEF KeysKept
  <2>4. ASSUME NEW i \in LocalIds, local[i] = e[1], UserPutsLocal(i, e[2]) PROVE Thins
    <3>1. local' = [local EXCEPT ![i] = LocalForm[i][e[2]]] /\ remote' = remote
      BY <2>4 DEF UserPutsLocal
    <3>2. \A l \in LocalIds : local'[l] = IF l = i THEN LocalForm[i][e[2]] ELSE local[l]
      BY <1>1, <3>1 DEF Listings
    <3> QED BY <1>1, <2>2, <2>3, <2>4, <3>1, <3>2 DEF Thins, Within, HasKey, Listings
  <2>5. ASSUME NEW i \in RemoteIds, remote[i] = e[1], UserPutsRemote(i, e[2]) PROVE Thins
    <3>1. remote' = [remote EXCEPT ![i] = RemoteForm[e[2]]] /\ local' = local
      BY <2>5 DEF UserPutsRemote
    <3>2. \A r \in RemoteIds : remote'[r] = IF r = i THEN RemoteForm[e[2]] ELSE remote[r]
      BY <1>1, <3>1 DEF Listings
    <3> QED BY <1>1, <2>2, <2>3, <2>5, <3>1, <3>2 DEF Thins, Within, HasKey, Listings
  <2> QED BY <2>1, <2>4, <2>5
<1>4. CASE UserDeletesRecord
  <2>1. PICK i : /\ local' = [j \in LocalIds |-> IF j = i THEN None ELSE local[j]]
                 /\ remote' = [j \in RemoteIds |-> IF j = i THEN None ELSE remote[j]]
    BY <1>4 DEF UserDeletesRecord
  <2> QED BY <1>1, <2>1 DEF Thins, Within, HasKey
<1>5. CASE ReadabilityChanges
  BY <1>2, <1>5 DEF ReadabilityChanges
<1>6. ~UserCreates
  BY DEF UserCreates, KeysKept
<1> QED BY <1>3, <1>4, <1>5, <1>6 DEF User

(* A call of the plan either thins the stores ...                          *)
LEMMA CallThins ==
    ASSUME IInv, KeyInv, KeysKept, ~Folder, NEW b \in pending, ~Creation(b), NEW i, StoreCall(b, i) \/ NoStoreCall(b, i)
    PROVE  Thins
<1>1. local \in Listings(LocalIds) /\ remote \in Listings(RemoteIds) /\ WellFormed(b) /\ Due(b)
  BY DEF IInv, TypeOK, KeyInv
<1>2. CASE device_update(b, i)
  <2>1. /\ b.kind = "update_local" /\ i = b.l /\ local[i] # None /\ i \in LocalIds /\ b.rec \in Values
        /\ local' = [local EXCEPT ![i] = LocalForm[i][b.rec]] /\ remote' = remote
    BY <1>1, <1>2 DEF device_update, DeviceStores, WellFormed
  <2>2. HasKey(local, i, match_key[LocalForm[i][b.rec]])
    BY <1>1, <2>1 DEF Due, Joins, KeysKept
  <2>3. \A l \in LocalIds : local'[l] = IF l = i THEN LocalForm[i][b.rec] ELSE local[l]
    BY <1>1, <2>1 DEF Listings
  <2> QED BY <1>1, <2>1, <2>2, <2>3 DEF Thins, Within, HasKey, Listings
<1>3. CASE remote_update(b, i)
  <2>1. /\ b.kind = "update_remote" /\ i = b.r /\ remote[i] # None /\ i \in RemoteIds /\ b.rec \in Values
        /\ remote' = [remote EXCEPT ![i] = RemoteForm[b.rec]] /\ local' = local
    BY <1>1, <1>3 DEF remote_update, RemoteStores, WellFormed
  <2>2. HasKey(remote, i, match_key[RemoteForm[b.rec]])
    BY <1>1, <2>1 DEF Due, Joins, KeysKept
  <2>3. \A r \in RemoteIds : remote'[r] = IF r = i THEN RemoteForm[b.rec] ELSE remote[r]
    BY <1>1, <2>1 DEF Listings
  <2> QED BY <1>1, <2>1, <2>2, <2>3 DEF Thins, Within, HasKey, Listings
<1>4. CASE device_delete(b, i)
  <2>1. local' = [local EXCEPT ![i] = None] /\ remote' = remote
    BY <1>4 DEF device_delete
  <2>2. \A l \in LocalIds : local'[l] \in {None, local[l]}
    BY <1>1, <2>1 DEF Listings
  <2> QED BY <1>1, <2>1, <2>2 DEF Thins, Within, HasKey, Listings
<1>5. CASE remote_delete(b, i)
  <2>1. remote' = [remote EXCEPT ![i] = None] /\ local' = local
    BY <1>5 DEF remote_delete
  <2>2. \A r \in RemoteIds : remote'[r] \in {None, remote[r]}
    BY <1>1, <2>1 DEF Listings
  <2> QED BY <1>1, <2>1, <2>2 DEF Thins, Within, HasKey, Listings
<1>6. CASE NoStoreCall(b, i)
  BY <1>1, <1>6 DEF NoStoreCall, Thins, Within, HasKey, Listings
<1>7. ~device_create(b, i) /\ ~remote_create(b, i)
  BY DEF device_create, remote_create, Creation
<1> QED BY <1>2, <1>3, <1>4, <1>5, <1>6, <1>7 DEF StoreCall

(* ... or creates a record of a key its side has not.                      *)
LEMMA OthersDiffer ==
    ASSUME IInv, UsedInv, KeyInv, NEW b \in pending, Creation(b), NEW a \in pending, a # b
    PROVE  /\ Creation(a) => match_key[a.rec] # match_key[b.rec]
           /\ Joins(a) => /\ a.l \in LocalIds \cap used /\ a.r \in RemoteIds \cap used
                          /\ b.kind = "create_remote" => a.l # b.l
                          /\ b.kind = "create_local" => a.r # b.r
           /\ a.kind = "create_remote" => a.l \in LocalIds \cap used /\ a.l # b.l
           /\ a.kind = "create_local" => a.r \in RemoteIds \cap used /\ a.r # b.r
<1>1. WellFormed(a) /\ WellFormed(b) /\ {a.l, a.r} \ {None} \subseteq used /\ None \notin LocalIds \cup RemoteIds
  BY IdsAssumption DEF IInv, TypeOK, UsedInv
<1>2. ~Meet(a, b)
  BY DEF KeyInv, Apart, PairAndConflict, Creation
<1>3. Creation(a) => match_key[a.rec] # match_key[b.rec]
  BY DEF KeyInv
<1> QED BY <1>1, <1>2, <1>3 DEF Meet, WellFormed, Joins

LEMMA RemoteCreation ==
    ASSUME IInv, UsedInv, KeyInv, KeysKept, ~Reuse, NEW b \in pending, NEW i, remote_create(b, i)
    PROVE  /\ UniqueKeys(local') /\ UniqueKeys(remote')
           /\ \A k \in saved \cup links : Counterparts(local', remote', k.l, k.r)
           /\ Counterparts(local', remote', b.l, i)
           /\ \A a \in pending \ {b} : Due(a)'
<1> DEFINE v == RemoteForm[b.rec]
           key == match_key[b.rec]
<1>1. b.kind = "create_remote" /\ i \in RemoteIds /\ remote[i] = None /\ i \notin used
  BY IdsAssumption DEF remote_create, FreeRemote, MayHandOut
<1>2. b.l \in LocalIds /\ v \in Values /\ match_key[v] = key
  BY <1>1, FormsAssumption DEF IInv, TypeOK, WellFormed, KeysKept
<1>3. remote' = [remote EXCEPT ![i] = v] /\ local' = local
  BY DEF remote_create, RemoteStores
<1>4. local \in Listings(LocalIds) /\ remote \in Listings(RemoteIds)
  BY DEF IInv, TypeOK
<1>5. /\ \A k \in saved \cup links : k.l # b.l
      /\ NoneOfKey(remote, key) /\ OnlyOfKey(local, b.l, key) /\ (local[b.l] # None => HasKey(local, b.l, key))
      /\ UniqueKeys(remote) /\ UniqueKeys(local)
  BY <1>1 DEF KeyInv, Due, Unlinked
<1> HIDE DEF v, key
<1>6. /\ UniqueKeys(remote') /\ Counterparts(local, remote', b.l, i)
      /\ \A l \in LocalIds, r \in RemoteIds : Counterparts(local, remote, l, r) /\ l # b.l /\ r # i => Counterparts(local, remote', l, r)
      /\ \A c : c # match_key[v] /\ NoneOfKey(remote, c) => NoneOfKey(remote', c)
      /\ \A r, c : c # match_key[v] /\ OnlyOfKey(remote, r, c) => OnlyOfKey(remote', r, c)
  <2>1. /\ NoneOfKey(remote, match_key[v]) /\ OnlyOfKey(local, b.l, match_key[v])
        /\ local[b.l] # None => HasKey(local, b.l, match_key[v])
    BY <1>2, <1>5
  <2>2. remote' \in Listings(RemoteIds) /\ remote'[i] = v /\ \A j \in RemoteIds \ {i} : remote'[j] = remote[j]
    BY <1>1, <1>2, <1>3, <1>4 DEF Listings, Maybe
  <2> QED BY <1>1, <1>2, <1>4, <1>5, <2>1, <2>2, NewCounterpart
<1>7. ASSUME NEW k \in saved \cup links PROVE Counterparts(local', remote', k.l, k.r)
  <2>1. k.l \in LocalIds /\ k.r \in RemoteIds /\ k.r # i /\ Counterparts(local, remote, k.l, k.r)
    BY <1>1 DEF IInv, TypeOK, Link, UsedInv, KeyInv
  <2> QED BY <1>3, <1>5, <1>6, <2>1
<1>8. ASSUME NEW a \in pending \ {b} PROVE Due(a)'
  <2>1. Due(a)
    BY DEF KeyInv
  <2>2. \A r \in RemoteIds \cap used : remote'[r] = remote[r]
    BY <1>1, <1>3, <1>4 DEF Listings
  <2>3. /\ Creation(a) => match_key[a.rec] # key
        /\ Joins(a) => a.l \in LocalIds /\ a.r \in RemoteIds \cap used /\ a.l # b.l
        /\ a.kind = "create_local" => a.r \in RemoteIds \cap used
    BY <1>1, OthersDiffer DEF Creation, key
  <2>4. Joins(a) => Counterparts(local', remote', a.l, a.r)
    BY <1>1, <1>3, <1>6, <2>1, <2>3 DEF Due
  <2>5. (Joins(a) \/ a.kind = "create_remote") /\ local'[a.l] # None => HasKey(local', a.l, match_key[a.rec])
    BY <1>3, <2>1 DEF Due
  <2>6. (Joins(a) \/ a.kind = "create_local") /\ remote'[a.r] # None => HasKey(remote', a.r, match_key[a.rec])
    BY <2>1, <2>2, <2>3 DEF Due, HasKey
  <2>7. a.kind = "create_remote" => NoneOfKey(remote', match_key[a.rec]) /\ OnlyOfKey(local', a.l, match_key[a.rec])
    BY <1>2, <1>3, <1>6, <2>1, <2>3 DEF Due, Creation
  <2>8. a.kind = "create_local" => NoneOfKey(local', match_key[a.rec]) /\ OnlyOfKey(remote', a.r, match_key[a.rec])
    BY <1>2, <1>3, <1>6, <2>1, <2>3 DEF Due, Creation
  <2> QED BY <2>4, <2>5, <2>6, <2>7, <2>8 DEF Due
<1> QED BY <1>3, <1>5, <1>6, <1>7, <1>8

LEMMA DeviceCreation ==
    ASSUME IInv, UsedInv, KeyInv, KeysKept, ~Reuse, ~Folder, NEW b \in pending, NEW i, device_create(b, i)
    PROVE  /\ UniqueKeys(local') /\ UniqueKeys(remote')
           /\ \A k \in saved \cup links : Counterparts(local', remote', k.l, k.r)
           /\ Counterparts(local', remote', i, b.r)
           /\ \A a \in pending \ {b} : Due(a)'
<1> DEFINE v == LocalForm[i][b.rec]
           key == match_key[b.rec]
<1>1. b.kind = "create_local" /\ i \in LocalIds /\ local[i] = None /\ i \notin used
  BY DEF device_create, FreeLocal, unique_filename, MayHandOut
<1>2. b.r \in RemoteIds /\ v \in Values /\ match_key[v] = key
  BY <1>1, FormsAssumption DEF IInv, TypeOK, WellFormed, KeysKept
<1>3. local' = [local EXCEPT ![i] = v] /\ remote' = remote
  BY DEF device_create, DeviceStores
<1>4. local \in Listings(LocalIds) /\ remote \in Listings(RemoteIds)
  BY DEF IInv, TypeOK
<1>5. /\ \A k \in saved \cup links : k.r # b.r
      /\ NoneOfKey(local, key) /\ OnlyOfKey(remote, b.r, key) /\ (remote[b.r] # None => HasKey(remote, b.r, key))
      /\ UniqueKeys(remote) /\ UniqueKeys(local)
  BY <1>1 DEF KeyInv, Due, Unlinked
<1> HIDE DEF v, key
<1>6. /\ UniqueKeys(local') /\ Counterparts(remote, local', b.r, i)
      /\ \A r \in RemoteIds, l \in LocalIds : Counterparts(remote, local, r, l) /\ r # b.r /\ l # i => Counterparts(remote, local', r, l)
      /\ \A c : c # match_key[v] /\ NoneOfKey(local, c) => NoneOfKey(local', c)
      /\ \A l, c : c # match_key[v] /\ OnlyOfKey(local, l, c) => OnlyOfKey(local', l, c)
  <2>1. /\ NoneOfKey(local, match_key[v]) /\ OnlyOfKey(remote, b.r, match_key[v])
        /\ remote[b.r] # None => HasKey(remote, b.r, match_key[v])
    BY <1>2, <1>5
  <2>2. local' \in Listings(LocalIds) /\ local'[i] = v /\ \A j \in LocalIds \ {i} : local'[j] = local[j]
    BY <1>1, <1>2, <1>3, <1>4 DEF Listings, Maybe
  <2> QED BY <1>1, <1>2, <1>4, <1>5, <2>1, <2>2, NewCounterpart
<1>7. ASSUME NEW l \in LocalIds, NEW r \in RemoteIds, Counterparts(local, remote, l, r), r # b.r, l # i
      PROVE  Counterparts(local', remote', l, r)
  BY <1>3, <1>6, <1>7, CounterpartsSwap
<1>8. ASSUME NEW k \in saved \cup links PROVE Counterparts(local', remote', k.l, k.r)
  <2>1. k.l \in LocalIds /\ k.r \in RemoteIds /\ k.l # i /\ Counterparts(local, remote, k.l, k.r)
    BY <1>1 DEF IInv, TypeOK, Link, UsedInv, KeyInv
  <2> QED BY <1>5, <1>7, <2>1
<1>9. ASSUME NEW a \in pending \ {b} PROVE Due(a)'
  <2>1. Due(a)
    BY DEF KeyInv
  <2>2. \A l \in LocalIds \cap used : local'[l] = local[l]
    BY <1>1, <1>3, <1>4 DEF Listings
  <2>3. /\ Creation(a) => match_key[a.rec] # key
        /\ Joins(a) => a.r \in RemoteIds /\ a.l \in LocalIds \cap used /\ a.r # b.r
        /\ a.kind = "create_remote" => a.l \in LocalIds \cap used
    BY <1>1, OthersDiffer DEF Creation, key
  <2>4. Joins(a) => Counterparts(local', remote', a.l, a.r)
    BY <1>1, <1>7, <2>1, <2>3 DEF Due
  <2>5. (Joins(a) \/ a.kind = "create_remote") /\ local'[a.l] # None => HasKey(local', a.l, match_key[a.rec])
    BY <2>1, <2>2, <2>3 DEF Due, HasKey
  <2>6. (Joins(a) \/ a.kind = "create_local") /\ remote'[a.r] # None => HasKey(remote', a.r, match_key[a.rec])
    BY <1>3, <2>1 DEF Due
  <2>7. a.kind = "create_remote" => NoneOfKey(remote', match_key[a.rec]) /\ OnlyOfKey(local', a.l, match_key[a.rec])
    BY <1>2, <1>3, <1>6, <2>1, <2>3 DEF Due, Creation
  <2>8. a.kind = "create_local" => NoneOfKey(local', match_key[a.rec]) /\ OnlyOfKey(remote', a.r, match_key[a.rec])
    BY <1>2, <1>3, <1>6, <2>1, <2>3 DEF Due, Creation
  <2> QED BY <2>4, <2>5, <2>6, <2>7, <2>8 DEF Due
<1> QED BY <1>3, <1>5, <1>6, <1>8, <1>9, CounterpartsSwap

(* The links after an action: those it leaves, and the one it makes.       *)
LEMMA LinksThen ==
    ASSUME IInv, NEW b \in pending, NEW i, NEW k \in apply_one(b, links, i)
    PROVE  \/ k \in links
           \/ Joins(b) /\ k.l = b.l /\ k.r = b.r
           \/ b.kind = "create_remote" /\ k.l = b.l /\ k.r = i
           \/ b.kind = "create_local" /\ k.l = i /\ k.r = b.r
<1>1. b.kind \in Kinds
  BY DEF IInv, TypeOK, Action
<1>2. ASSUME NEW l, NEW r, NEW v, k \in with_link(links, Agreed(l, r, v))
      PROVE  k \in links \/ (k.l = l /\ k.r = r)
  BY <1>2 DEF with_link, Agreed
<1>3. CASE Joins(b)
  BY <1>2, <1>3 DEF Joins, apply_one
<1>4. CASE b.kind = "create_remote"
  BY <1>2, <1>4 DEF apply_one
<1>5. CASE b.kind = "create_local"
  BY <1>2, <1>5 DEF apply_one
<1>6. CASE b.kind \in {"delete_local", "delete_remote", "unlink", "skip"}
  BY <1>6 DEF apply_one, without
<1> QED BY <1>1, <1>3, <1>4, <1>5, <1>6 DEF Kinds, StoreKinds, Joins

LEMMA ActionKeys ==
    ASSUME IInv, IInv', UsedInv, KeyInv, KeysKept, ~Reuse, ~Folder, NEW b \in pending,
           Apply(b) \/ Refuse(b) \/ Fail(b) \/ LoseAnswer(b) \/ CutUpload(b)
    PROVE  KeyInv'
<1>1. phase' = "apply" /\ pending' = pending \ {b} /\ saved' = saved
  BY DEF Apply, Refuse, Fail, LoseAnswer, CutUpload, Error, Done, Ready
<1>2. /\ Apart(pending')
      /\ \A a, c \in pending' : Creation(a) /\ Creation(c) /\ match_key[a.rec] = match_key[c.rec] => a = c
  BY <1>1 DEF KeyInv, Apart
<1>3. \A k \in saved \cup links : k.l \in LocalIds /\ k.r \in RemoteIds /\ Counterparts(local, remote, k.l, k.r)
  BY DEF IInv, TypeOK, Link, KeyInv
<1>4. ASSUME UniqueKeys(local'), UniqueKeys(remote'), \A k \in saved \cup links' : Counterparts(local', remote', k.l, k.r),
             \A a \in pending' : Due(a)', \A a \in pending', k \in links' : Unlinked(a, k)
      PROVE  KeyInv'
  <2>1. \A a \in pending', k \in saved' : Unlinked(a, k)
    BY <1>1 DEF KeyInv
  <2> QED BY <1>1, <1>2, <1>4, <2>1 DEF KeyInv, Unlinked
<1>5. ASSUME NEW i, StoreCall(b, i) \/ NoStoreCall(b, i), links' = links \/ links' = apply_one(b, links, i) PROVE KeyInv'
  <2>1. \A k \in links' : \/ k \in links
                          \/ Joins(b) /\ k.l = b.l /\ k.r = b.r
                          \/ b.kind = "create_remote" /\ k.l = b.l /\ k.r = i
                          \/ b.kind = "create_local" /\ k.l = i /\ k.r = b.r
    BY <1>5, LinksThen
  <2>5. ASSUME NEW a \in pending', NEW k \in links' PROVE Unlinked(a, k)
    <3>1. a \in pending /\ a # b
      BY <1>1
    <3>2. /\ a.kind = "create_remote" => a.l \in used /\ a.l # None
          /\ a.kind = "create_local" => a.r \in used /\ a.r # None
      <4>1. WellFormed(a) /\ {a.l, a.r} \ {None} \subseteq used
        BY <3>1 DEF IInv, TypeOK, UsedInv
      <4> QED BY <4>1, IdsAssumption DEF WellFormed
    <3>3. /\ b.kind = "create_remote" => i \notin used
          /\ b.kind = "create_local" => i \notin used
      BY <1>5 DEF StoreCall, NoStoreCall, StoreKinds, device_create, FreeLocal, unique_filename, device_update, device_delete,
                  remote_create, FreeRemote, remote_update, remote_delete, MayHandOut
    <3>4. ~Meet(a, b) \/ ~Creation(a)
      BY <3>1 DEF KeyInv, Apart, PairAndConflict, Creation
    <3>5. k \in links => Unlinked(a, k)
      BY <3>1 DEF KeyInv
    <3> QED BY <2>1, <3>2, <3>3, <3>4, <3>5 DEF Meet, Unlinked, Creation
  <2>2. CASE ~Creation(b)
    <3>1. Thins
      BY <1>5, <2>2, CallThins
    <3>2. Joins(b) => b.l \in LocalIds /\ b.r \in RemoteIds /\ Counterparts(local, remote, b.l, b.r)
      BY DEF KeyInv, Due, Joins, IInv, TypeOK, WellFormed
    <3> QED BY <1>1, <1>3, <1>4, <2>1, <2>2, <2>5, <3>1, <3>2, ThinnedKeys DEF Creation
  <2>3. CASE b.kind = "create_remote"
    <3>1. remote_create(b, i)
      BY <1>5, <2>3 DEF StoreCall, NoStoreCall, StoreKinds, device_create, device_update, device_delete, remote_update, remote_delete
    <3> QED BY <1>1, <1>4, <2>1, <2>3, <2>5, <3>1, RemoteCreation DEF Joins
  <2>4. CASE b.kind = "create_local"
    <3>1. device_create(b, i)
      BY <1>5, <2>4 DEF StoreCall, NoStoreCall, StoreKinds, remote_create, device_update, device_delete, remote_update, remote_delete
    <3> QED BY <1>1, <1>4, <2>1, <2>4, <2>5, <3>1, DeviceCreation DEF Joins
  <2> QED BY <2>2, <2>3, <2>4 DEF Creation
<1>6. ASSUME UNCHANGED <<local, remote, links>> PROVE KeyInv'
  BY <1>1, <1>2, <1>6 DEF KeyInv, Due, Unlinked
<1>7. CASE Apply(b)
  BY <1>5, <1>7 DEF Apply
<1>8. CASE LoseAnswer(b)
  BY <1>5, <1>8 DEF LoseAnswer, Error
<1>9. CASE Refuse(b) \/ Fail(b)
  BY <1>6, <1>9 DEF Refuse, Fail, Error, stores
<1> QED BY <1>7, <1>8, <1>9 DEF CutUpload

(* What a plan joins are counterparts, and what it creates has none.       *)
LEMMA PlanKeys ==
    ASSUME NEW L \in Listings(LocalIds), NEW R \in Listings(RemoteIds), NEW ks \in SUBSET Link,
           NEW P \in Pairings(L, R, ks), NEW o, UniqueKeys(L), UniqueKeys(R),
           \A k \in ks : Counterparts(L, R, k.l, k.r),
           NEW a \in plan(L, R, ks, P, o)
    PROVE  /\ Joins(a) => /\ a.l \in LocalIds /\ a.r \in RemoteIds /\ Counterparts(L, R, a.l, a.r)
                          /\ HasKey(L, a.l, match_key[a.rec]) /\ HasKey(R, a.r, match_key[a.rec])
           /\ a.kind = "create_remote" =>
                /\ a.l \in LocalIds /\ HasKey(L, a.l, match_key[a.rec]) /\ \A k \in ks : k.l # a.l
                /\ NoneOfKey(R, match_key[a.rec]) /\ OnlyOfKey(L, a.l, match_key[a.rec])
                /\ a = Act("create_remote", a.l, None, L[a.l], 2)
           /\ a.kind = "create_local" =>
                /\ a.r \in RemoteIds /\ HasKey(R, a.r, match_key[a.rec]) /\ \A k \in ks : k.r # a.r
                /\ NoneOfKey(L, match_key[a.rec]) /\ OnlyOfKey(R, a.r, match_key[a.rec])
                /\ a = Act("create_local", None, a.r, R[a.r], 3)
<1> DEFINE newL == new_local(L, ks)
           newR == new_remote(R, ks)
<1>1. DOMAIN L = LocalIds /\ DOMAIN R = RemoteIds
  BY DEF Listings
<1>2. /\ \A l : l \in newL <=> l \in LocalIds /\ L[l] # None /\ \A k \in ks : k.l # l
      /\ \A r : r \in newR <=> r \in RemoteIds /\ R[r] # None /\ \A k \in ks : k.r # r
  BY <1>1 DEF new_local, new_remote, Present
<1>3. /\ \A p \in P : p[1] \in newL /\ p[2] \in newR /\ match_key[L[p[1]]] = match_key[R[p[2]]]
      /\ \A l \in newL, r \in newR : match_key[L[l]] = match_key[R[r]] => \E p \in P : p[1] = l \/ p[2] = r
  BY DEF Pairings, IsPairing, SameKey
<1> HIDE DEF newL, newR
<1>4. /\ \A i, j \in LocalIds : L[i] # None /\ L[j] # None /\ match_key[L[i]] = match_key[L[j]] => i = j
      /\ \A i, j \in RemoteIds : R[i] # None /\ R[j] # None /\ match_key[R[i]] = match_key[R[j]] => i = j
  BY <1>1 DEF UniqueKeys, Present
<1>5. \A k \in ks : /\ k.l \in LocalIds /\ k.r \in RemoteIds
                    /\ \A l \in LocalIds : L[l] # None /\ R[k.r] # None /\ match_key[L[l]] = match_key[R[k.r]] => l = k.l
                    /\ \A r \in RemoteIds : R[r] # None /\ L[k.l] # None /\ match_key[R[r]] = match_key[L[k.l]] => r = k.r
  BY <1>1 DEF Link, Counterparts, OnlyOfKey, HasKey
<1>6. CASE \E k \in ks : a \in plan_link(k, L, R, o)
  <2>1. PICK k \in ks : a \in plan_link(k, L, R, o)
    BY <1>6
  <2>2. /\ a.l = k.l /\ a.r = k.r /\ a.kind \notin {"create_local", "create_remote"}
        /\ Joins(a) => L[k.l] # None /\ R[k.r] # None
    BY <2>1, LinkActions DEF Joins
  <2>3. Joins(a) => a.rec \in {L[k.l], R[k.r]}
    BY <2>1 DEF plan_link, push, pull, resolve_conflict, Act, Joins
  <2> QED BY <1>5, <2>2, <2>3 DEF Counterparts, HasKey
<1>7. CASE \E p \in P : a \in pair(p[1], p[2], L[p[1]], R[p[2]], o)
  <2>1. PICK p \in P : a \in pair(p[1], p[2], L[p[1]], R[p[2]], o)
    BY <1>7
  <2>2. /\ a.l = p[1] /\ a.r = p[2] /\ a.kind \notin {"create_local", "create_remote"}
        /\ a.rec \in {L[p[1]], R[p[2]]}
    BY <2>1 DEF pair, resolve_conflict, Act
  <2>3. /\ p[1] \in LocalIds /\ p[2] \in RemoteIds /\ L[p[1]] # None /\ R[p[2]] # None
        /\ match_key[L[p[1]]] = match_key[R[p[2]]]
    BY <1>2, <1>3
  <2>4. Counterparts(L, R, p[1], p[2])
    BY <1>1, <1>4, <2>3 DEF Counterparts, OnlyOfKey, HasKey
  <2> QED BY <2>2, <2>3, <2>4 DEF HasKey
<1>8. CASE \E l \in newL : (\A p \in P : p[1] # l) /\ a = unpaired_local(l, L[l], o)
  <2>1. PICK l \in newL : (\A p \in P : p[1] # l) /\ a = unpaired_local(l, L[l], o)
    BY <1>8
  <2>2. a.kind \in {"create_remote", "skip"} /\ (a.kind = "create_remote" => a = Act("create_remote", l, None, L[l], 2))
    BY <2>1 DEF unpaired_local, Act
  <2>3. l \in LocalIds /\ L[l] # None /\ \A k \in ks : k.l # l
    BY <1>2
  <2>4. ASSUME NEW r \in RemoteIds, R[r] # None, match_key[R[r]] = match_key[L[l]] PROVE FALSE
    <3>1. r \in newR
      BY <1>2, <1>5, <2>3, <2>4
    <3>2. PICK p \in P : p[2] = r
      BY <1>3, <2>1, <2>4, <3>1
    <3>3. p[1] \in LocalIds /\ L[p[1]] # None /\ match_key[L[p[1]]] = match_key[L[l]]
      BY <1>2, <1>3, <2>4, <3>2
    <3> QED BY <1>4, <2>1, <2>3, <3>3
  <2>5. a.kind = "create_remote" => a.l = l /\ a.rec = L[l]
    BY <2>2 DEF Act
  <2> QED BY <1>1, <1>4, <2>2, <2>3, <2>4, <2>5 DEF Joins, HasKey, NoneOfKey, OnlyOfKey
<1>9. CASE \E r \in newR : (\A p \in P : p[2] # r) /\ a = unpaired_remote(r, R[r], o)
  <2>1. PICK r \in newR : (\A p \in P : p[2] # r) /\ a = unpaired_remote(r, R[r], o)
    BY <1>9
  <2>2. a.kind \in {"create_local", "skip"} /\ (a.kind = "create_local" => a = Act("create_local", None, r, R[r], 3))
    BY <2>1 DEF unpaired_remote, Act
  <2>3. r \in RemoteIds /\ R[r] # None /\ \A k \in ks : k.r # r
    BY <1>2
  <2>4. ASSUME NEW l \in LocalIds, L[l] # None, match_key[L[l]] = match_key[R[r]] PROVE FALSE
    <3>1. l \in newL
      BY <1>2, <1>5, <2>3, <2>4
    <3>2. PICK p \in P : p[1] = l
      BY <1>3, <2>1, <2>4, <3>1
    <3>3. p[2] \in RemoteIds /\ R[p[2]] # None /\ match_key[R[p[2]]] = match_key[R[r]]
      BY <1>2, <1>3, <2>4, <3>2
    <3> QED BY <1>4, <2>1, <2>3, <3>3
  <2>5. a.kind = "create_local" => a.r = r /\ a.rec = R[r]
    BY <2>2 DEF Act
  <2> QED BY <1>1, <1>4, <2>2, <2>3, <2>4, <2>5 DEF Joins, HasKey, NoneOfKey, OnlyOfKey
<1> QED BY <1>6, <1>7, <1>8, <1>9, PlanParts DEF newL, newR

LEMMA PlannedKeys ==
    ASSUME IInv, UsedInv, ListedInv, KeyInv, Plan
    PROVE  KeyInv'
<1>1. Listing(remote) = remote
  BY DEF Listing, UsedInv, IInv, TypeOK, Listings
<1>2. PICK P \in Pairings(localItems, remote, links) : pending' = plan(localItems, remote, links, P, args)
  BY <1>1 DEF Plan
<1>3. /\ UNCHANGED <<local, remote, saved, links>> /\ phase = "listed" /\ phase' = "apply" /\ links = saved
      /\ local \in Listings(LocalIds) /\ localItems \in Listings(LocalIds) /\ remote \in Listings(RemoteIds)
      /\ links \in SUBSET Link /\ OneToOne(links)
  BY DEF Plan, stores, ListedInv, IInv, TypeOK, LinksOneToOne
<1>4. /\ UniqueKeys(localItems) /\ UniqueKeys(remote) /\ Within(local, localItems) /\ Within(remote, remote)
      /\ \A k \in links : Counterparts(localItems, remote, k.l, k.r)
  BY <1>3 DEF KeyInv, Within, HasKey, Listings
<1>5. ASSUME NEW a \in pending'
      PROVE  Due(a) /\ \A k \in saved \cup links : Unlinked(a, k)
  <2>1. /\ Joins(a) => /\ a.l \in LocalIds /\ a.r \in RemoteIds /\ Counterparts(localItems, remote, a.l, a.r)
                       /\ HasKey(localItems, a.l, match_key[a.rec]) /\ HasKey(remote, a.r, match_key[a.rec])
        /\ a.kind = "create_remote" =>
             /\ a.l \in LocalIds /\ HasKey(localItems, a.l, match_key[a.rec]) /\ \A k \in links : k.l # a.l
             /\ NoneOfKey(remote, match_key[a.rec]) /\ OnlyOfKey(localItems, a.l, match_key[a.rec])
        /\ a.kind = "create_local" =>
             /\ a.r \in RemoteIds /\ HasKey(remote, a.r, match_key[a.rec]) /\ \A k \in links : k.r # a.r
             /\ NoneOfKey(localItems, match_key[a.rec]) /\ OnlyOfKey(remote, a.r, match_key[a.rec])
    BY <1>2, <1>3, <1>4, PlanKeys
  <2>2. Joins(a) => Counterparts(local, remote, a.l, a.r)
    BY <1>3, <1>4, <2>1, StayCounterparts
  <2>3. /\ \A i, key : OnlyOfKey(localItems, i, key) => OnlyOfKey(local, i, key)
        /\ \A key : NoneOfKey(localItems, key) => NoneOfKey(local, key)
    BY <1>3, <1>4, FewerOfKey
  <2>4. ASSUME NEW l \in LocalIds, NEW key, HasKey(localItems, l, key), local[l] # None PROVE HasKey(local, l, key)
    BY <1>3, <1>4, <2>4 DEF Within, HasKey, Listings
  <2> QED BY <1>3, <2>1, <2>2, <2>3, <2>4 DEF Due, Unlinked
<1>6. ASSUME NEW a \in pending', NEW b \in pending', Creation(a), Creation(b), match_key[a.rec] = match_key[b.rec]
      PROVE  a = b
  <2> DEFINE At(c) == IF c.kind = "create_remote"
                      THEN /\ c.l \in LocalIds /\ HasKey(localItems, c.l, match_key[c.rec])
                           /\ NoneOfKey(remote, match_key[c.rec]) /\ OnlyOfKey(localItems, c.l, match_key[c.rec])
                           /\ c = Act("create_remote", c.l, None, localItems[c.l], 2)
                      ELSE /\ c.r \in RemoteIds /\ HasKey(remote, c.r, match_key[c.rec])
                           /\ NoneOfKey(localItems, match_key[c.rec]) /\ OnlyOfKey(remote, c.r, match_key[c.rec])
                           /\ c = Act("create_local", None, c.r, remote[c.r], 3)
  <2>1. At(a) /\ At(b)
    <3>1. \A c \in pending' : Creation(c) => At(c)
      BY <1>2, <1>3, <1>4, PlanKeys DEF Creation
    <3> QED BY <1>6, <3>1
  <2>2. DOMAIN localItems = LocalIds /\ DOMAIN remote = RemoteIds
    BY <1>3 DEF Listings
  <2>3. CASE a.kind = "create_remote" /\ b.kind = "create_remote"
    <3>1. a.l = b.l
      BY <1>6, <2>1, <2>2, <2>3 DEF OnlyOfKey
    <3> QED BY <2>1, <2>3, <3>1
  <2>4. CASE a.kind = "create_local" /\ b.kind = "create_local"
    <3>1. a.r = b.r
      BY <1>6, <2>1, <2>2, <2>4 DEF OnlyOfKey
    <3> QED BY <2>1, <2>4, <3>1
  <2>5. CASE a.kind # b.kind
    BY <1>6, <2>1, <2>2, <2>5 DEF NoneOfKey, Creation
  <2> QED BY <1>6, <2>3, <2>4, <2>5 DEF Creation
<1>7. Apart(pending')
  BY <1>2, <1>3, PlanApart
<1> QED BY <1>3, <1>5, <1>6, <1>7 DEF KeyInv, Due, Unlinked

LEMMA StepKeys ==
    ASSUME IInv, IInv', DeleteInv, KeyInv, [Next]_vars, KeysKept, ~Folder, ~Reuse
    PROVE  KeyInv'
<1>1. /\ local \in Listings(LocalIds) /\ Listing(local) = local /\ Within(local, local)
      /\ \A k \in saved \cup links : k.l \in LocalIds /\ k.r \in RemoteIds /\ Counterparts(local, remote, k.l, k.r)
  BY DEF DeleteInv, UsedInv, IInv, TypeOK, Link, KeyInv, Listing, Listings, Within, HasKey
<1>2. ASSUME UNCHANGED <<local, remote>>, pending' = {}, phase' # "listed",
             \A k \in saved' \cup links' : \E j \in saved \cup links : k.l = j.l /\ k.r = j.r
      PROVE  KeyInv'
  BY <1>1, <1>2 DEF KeyInv, Apart
<1>3. CASE User
  <2>1. Thins /\ UNCHANGED <<saved, links, pending, phase, localItems>>
    BY <1>3, UserThins DEF User, UserCreates, UserEdits, UserDeletesRecord, ReadabilityChanges, UserStep, memory
  <2>2. /\ UniqueKeys(local') /\ UniqueKeys(remote') /\ \A a \in pending : Due(a)'
        /\ \A k \in saved \cup links : Counterparts(local', remote', k.l, k.r)
    BY <1>1, <2>1, ThinnedKeys
  <2>3. ASSUME phase = "listed"
        PROVE  /\ UniqueKeys(localItems) /\ Within(local', localItems)
               /\ \A k \in links : Counterparts(localItems, remote', k.l, k.r)
    <3>1. /\ localItems \in Listings(LocalIds) /\ local' \in Listings(LocalIds)
          /\ remote \in Listings(RemoteIds) /\ remote' \in Listings(RemoteIds)
      BY <2>1 DEF IInv, TypeOK
    <3>2. /\ UniqueKeys(localItems) /\ Within(local, localItems) /\ Within(localItems, localItems)
          /\ \A k \in links : Counterparts(localItems, remote, k.l, k.r)
      BY <2>3, <3>1 DEF KeyInv, Within, HasKey, Listings
    <3>3. Within(local', localItems)
      BY <1>1, <2>1, <3>1, <3>2 DEF Thins, Within, HasKey, Listings
    <3> QED BY <1>1, <2>1, <3>1, <3>2, <3>3, StayCounterparts DEF Thins
  <2> QED BY <2>1, <2>2, <2>3 DEF KeyInv, Unlinked
<1>4. CASE \E o \in Runs : Start(o)
  <2>1. UNCHANGED <<local, remote, saved, pending>> /\ links' = saved /\ localItems' = local /\ phase = "idle"
    BY <1>1, <1>4 DEF Start, stores
  <2>2. pending' = {}
    BY <2>1 DEF DeleteInv, PendingInv
  <2> QED BY <1>1, <2>1, <2>2 DEF KeyInv, Apart
<1>5. CASE Plan
  BY <1>5, PlannedKeys DEF DeleteInv
<1>6. CASE DryRun \/ Crash \/ SaveUntouched
  <2>1. UNCHANGED <<local, remote>> /\ pending' = {} /\ phase' = "idle" /\ links' = {} /\ saved' \subseteq saved \cup links
    BY <1>6 DEF DryRun, Crash, SaveUntouched, Exit, stores
  <2> QED BY <1>2, <2>1
<1>7. CASE SaveRefreshed
  <2>1. UNCHANGED <<local, remote>> /\ pending' = {} /\ phase' = "idle" /\ links' = {}
    BY <1>7 DEF SaveRefreshed, Exit, stores
  <2>2. ASSUME NEW k \in saved' PROVE \E j \in links : k.l = j.l /\ k.r = j.r
    <3>1. PICK j \in links :
            k = [j EXCEPT !.lh = IF j.l \in touched /\ localItems[j.l] # None THEN localItems[j.l] ELSE @,
                          !.rh = IF j.r \in touched /\ Listing(remote)[j.r] # None THEN Listing(remote)[j.r] ELSE @]
      BY <1>7 DEF SaveRefreshed, refresh_hashes
    <3>2. j \in Link
      BY DEF IInv, TypeOK
    <3> QED BY <3>1, <3>2 DEF Link
  <2> QED BY <1>2, <2>1, <2>2
<1>8. CASE Relist
  BY <1>2, <1>8 DEF Relist, stores
<1>9. CASE StateLost
  <2>1. UNCHANGED <<local, remote, pending, links, phase>> /\ saved' = {} /\ phase = "idle"
    BY <1>9 DEF StateLost, stores, memory
  <2>2. pending' = {}
    BY <2>1 DEF DeleteInv, PendingInv
  <2> QED BY <1>2, <2>1, <2>2
<1>10. CASE UNCHANGED vars
  BY <1>10 DEF vars, stores, memory, KeyInv, Due, Unlinked
<1>11. ASSUME NEW b \in pending, Apply(b) \/ Refuse(b) \/ Fail(b) \/ LoseAnswer(b) \/ CutUpload(b)
       PROVE  KeyInv'
  BY <1>11, ActionKeys DEF DeleteInv
<1> QED BY <1>3, <1>4, <1>5, <1>6, <1>7, <1>8, <1>9, <1>10, <1>11 DEF Next, Sync, Trouble

(* On a database account, where ids are never handed out twice and list()  *)
(* skips no record, the sync makes no second record of a key, whatever     *)
(* fails, is lost or crashes between its calls and whatever the user edits *)
(* or deletes meanwhile (engine.py, _pair_new).                            *)
THEOREM NothingIsDuplicated ==
    ASSUME ~Folder, ~Reuse, ~Unreadable, KeysKept
    PROVE  Spec => []NoDuplicates
<1>1. Init => IInv /\ DeleteInv /\ KeyInv
  <2> SUFFICES ASSUME Init PROVE DeleteInv /\ KeyInv
    BY InitType
  <2>1. Present(localItems) = {}
    BY DEF Init, Present, NoItems
  <2>2. DeleteInv
    BY <2>1 DEF Init, DeleteInv, UsedInv, ListedInv, PendingInv
  <2>3. KeyInv
    BY DEF Init, KeyInv, KeysKept, Apart
  <2> QED BY <2>2, <2>3
<1>2. IInv /\ DeleteInv /\ KeyInv /\ [Next]_vars => (IInv /\ DeleteInv /\ KeyInv)'
  BY StepType, StepDeletes, StepKeys
<1>3. KeyInv => NoDuplicates
  BY DEF KeyInv, NoDuplicates
<1> QED BY <1>1, <1>2, <1>3, PTL DEF Spec

-------------------------------------------------------------------------------
(***************************************************************************)
(* Files.  In a folder the id of a record is the name of its file, and the *)
(* name comes from the title, which is the key.  So a file and the one     *)
(* modern record of its title belong together whatever the links say, and  *)
(* a link, or an action to come, never says anything else.                 *)
(***************************************************************************)
(* What an action to come is about, unless it only forgets or skips.       *)
File(a) == IF a.kind = "create_local" THEN Title(a.rec) ELSE a.l
Serves(a) == a.kind \notin {"unlink", "skip"}
Reads(a) == Joins(a) \/ a.kind \in {"create_local", "delete_remote"}

(* The record r, while it is there, is the one with the title of file l.   *)
Mates(l, r) == \A s \in RemoteIds : remote[s] # None => (Title(remote[s]) = l <=> s = r)

FileDue(a) ==
    /\ Reads(a) => a.r \in used /\ Mates(File(a), a.r)
    /\ Joins(a) \/ a.kind = "create_remote" => Title(a.rec) = a.l
    /\ a.kind = "create_local" => raw[File(a)] = None
    /\ a.kind = "create_remote" => /\ \A s \in RemoteIds : remote[s] # None => Title(remote[s]) # a.l
                                   /\ \A k \in saved \cup links : k.l # a.l

FileInv ==
    /\ hidden = {} /\ Present(remote) \subseteq used
    /\ \A l \in LocalIds : local[l] # None => Title(local[l]) = l
    /\ UniqueKeys(remote)
    /\ \A k \in saved \cup links : k.r \in used /\ Mates(k.l, k.r)
    /\ \A a \in pending : FileDue(a)
    /\ \A a, b \in pending : Serves(a) /\ Serves(b) /\ File(a) = File(b) => a = b \/ PairAndConflict(a, b)

LEMMA TitleType ==
    ASSUME TitlesAreNames
    PROVE  \A v \in Values : Title(v) \in LocalIds
<1> SUFFICES ASSUME NEW v \in Values PROVE Title(v) \in LocalIds
  OBVIOUS
<1>1. FileNames[v] \in Seq(LocalIds) /\ FileNames[v] # <<>>
  BY NamesAssumption DEF TitlesAreNames
<1> QED BY <1>1 DEF Title

(* Records that are mates are each the only one of their key.              *)
LEMMA MatesMatch ==
    ASSUME IInv, FileInv, TitlesAreNames
    PROVE  /\ UniqueKeys(local)
           /\ \A l \in LocalIds, r \in RemoteIds : Mates(l, r) => Counterparts(local, remote, l, r)
<1>1. DOMAIN local = LocalIds /\ DOMAIN remote = RemoteIds
  BY DEF IInv, TypeOK, Listings
<1>2. /\ \A l \in LocalIds : local[l] # None => local[l] \in Values /\ Title(local[l]) = l
      /\ \A r \in RemoteIds : remote[r] # None => remote[r] \in Values
  BY DEF IInv, TypeOK, Listings, Maybe, FileInv
<1>3. \A v, w \in Values : match_key[v] = match_key[w] <=> Title(v) = Title(w)
  BY DEF TitlesAreNames
<1> HIDE DEF Title
<1>4. UniqueKeys(local)
  BY <1>1, <1>2, <1>3 DEF UniqueKeys, Present
<1>5. ASSUME NEW l \in LocalIds, NEW r \in RemoteIds, Mates(l, r) PROVE Counterparts(local, remote, l, r)
  <2>1. \A s \in RemoteIds : remote[s] # None => (Title(remote[s]) = l <=> s = r)
    BY <1>5 DEF Mates
  <2>2. local[l] # None /\ remote[r] # None => match_key[local[l]] = match_key[remote[r]]
    BY <1>2, <1>3, <2>1
  <2>3. local[l] # None => OnlyOfKey(remote, r, match_key[local[l]])
    BY <1>1, <1>2, <1>3, <2>1 DEF OnlyOfKey, HasKey
  <2>4. remote[r] # None => OnlyOfKey(local, l, match_key[remote[r]])
    BY <1>1, <1>2, <1>3, <2>1 DEF OnlyOfKey, HasKey
  <2> QED BY <2>2, <2>3, <2>4 DEF Counterparts
<1> QED BY <1>4, <1>5

(* What an action does to the two stores, ...                              *)
Stores(b, i) ==
    \/ /\ b.kind \in {"create_local", "update_local"} /\ i = File(b) /\ i \in LocalIds /\ remote' = remote
       /\ \E v \in {LocalForm[i][b.rec], TornForm[i][b.rec]} : local' = [local EXCEPT ![i] = v]
    \/ b.kind = "delete_local" /\ i = b.l /\ i \in LocalIds /\ remote' = remote /\ local' = [local EXCEPT ![i] = None]
    \/ /\ b.kind = "create_remote" /\ i \in RemoteIds \ used /\ remote[i] = None /\ local' = local
       /\ remote' = [remote EXCEPT ![i] = RemoteForm[b.rec]]
    \/ /\ b.kind = "update_remote" /\ i = b.r /\ i \in RemoteIds /\ remote[i] # None /\ local' = local
       /\ remote' = [remote EXCEPT ![i] = RemoteForm[b.rec]]
    \/ b.kind = "delete_remote" /\ i = b.r /\ i \in RemoteIds /\ local' = local /\ remote' = [remote EXCEPT ![i] = None]
    \/ b.kind \in {"link", "unlink", "skip"} /\ UNCHANGED <<local, remote>>

(* ... and to what the run remembers, when its call is answered.           *)
Answered(b, i) ==
    /\ links' = apply_one(b, links, i) /\ touched' = touched \cup touch(b, i) /\ remember(b, i)
    /\ b.kind \in {"create_local", "update_local"} => local'[i] = LocalForm[i][b.rec]

FileCall(b, i) ==
    \/ UNCHANGED <<local, remote, links, touched, raw>>
    \/ Stores(b, i) /\ (UNCHANGED <<links, touched, raw>> \/ Answered(b, i))

LEMMA FreeName ==
    ASSUME IInv, TitlesAreNames, Folder, NEW v \in Values, raw[Title(v)] = None, NEW i, FreeLocal(v, i)
    PROVE  i = Title(v)
<1>1. FileNames[v] \in Seq(LocalIds) /\ FileNames[v] # <<>>
  BY NamesAssumption DEF TitlesAreNames
<1>2. PICK n \in DOMAIN FileNames[v] : FileNames[v][n] = i /\ \A m \in 1..n-1 : FileNames[v][m] \in Present(raw)
  BY DEF FreeLocal, unique_filename
<1>3. Title(v) \notin Present(raw)
  BY DEF Present
<1>4. n \in Nat /\ n >= 1
  BY <1>1
<1>5. n = 1
  BY <1>2, <1>3, <1>4 DEF Title
<1> QED BY <1>2, <1>5 DEF Title

LEMMA FileCalls ==
    ASSUME IInv, FileInv, TitlesAreNames, Folder, ~Reuse, NEW b \in pending,
           Apply(b) \/ Refuse(b) \/ Fail(b) \/ LoseAnswer(b) \/ CutUpload(b)
    PROVE  /\ hidden' = {} /\ used \subseteq used' /\ Present(remote') \subseteq used'
           /\ \E i \in Maybe(Ids) : FileCall(b, i)
<1>1. /\ local \in Listings(LocalIds) /\ remote \in Listings(RemoteIds) /\ WellFormed(b) /\ b.kind \in Kinds
      /\ LocalIds \cap RemoteIds = {} /\ None \notin Values /\ hidden = {} /\ Present(remote) \subseteq used
  BY IdsAssumption DEF IInv, TypeOK, Action, FileInv
<1>2. b.kind = "create_local" => b.rec \in Values /\ raw[Title(b.rec)] = None
  BY <1>1 DEF WellFormed, FileInv, FileDue, File
<1>3. \A i \in LocalIds, v \in Values : LocalForm[i][v] \in Values /\ TornForm[i][v] \in Values
  BY FormsType
<1>4. ASSUME NEW i \in LocalIds, NEW v, local' = [local EXCEPT ![i] = v], remote' = remote, hidden' = hidden \ {i}, used' \in {used, used \cup {i}}
      PROVE  hidden' = {} /\ used \subseteq used' /\ Present(remote') \subseteq used'
  BY <1>1, <1>4
<1>5. ASSUME NEW i \in RemoteIds, NEW v, remote' = [remote EXCEPT ![i] = v], hidden' = hidden \ {i}, used' = used \cup {i} \/ (used' = used /\ v = None)
      PROVE  hidden' = {} /\ used \subseteq used' /\ Present(remote') \subseteq used'
  <2>1. DOMAIN remote = RemoteIds
    BY <1>1 DEF Listings
  <2>2. Present(remote') \subseteq Present(remote) \cup {i} /\ (v = None => Present(remote') \subseteq Present(remote))
    BY <1>5, <2>1 DEF Present
  <2> QED BY <1>1, <1>5, <2>2
<1>6. ASSUME NEW i \in Maybe(Ids), StoreCall(b, i)
      PROVE  /\ hidden' = {} /\ used \subseteq used' /\ Present(remote') \subseteq used'
             /\ Stores(b, i)
             /\ b.kind \in {"create_local", "update_local"} => local'[i] = LocalForm[i][b.rec]
  <2>1. CASE device_create(b, i)
    <3>1. b.kind = "create_local" /\ i \in LocalIds /\ i = File(b)
      BY <1>2, <2>1, FreeName DEF device_create, File
    <3>2. local' = [local EXCEPT ![i] = LocalForm[i][b.rec]] /\ remote' = remote /\ hidden' = hidden \ {i} /\ used' = used \cup {i}
      BY <2>1 DEF device_create, DeviceStores, HandOut
    <3>3. local'[i] = LocalForm[i][b.rec]
      BY <1>1, <3>1, <3>2 DEF Listings
    <3> QED BY <1>4, <3>1, <3>2, <3>3 DEF Stores
  <2>2. CASE device_update(b, i)
    <3>1. b.kind = "update_local" /\ i \in LocalIds /\ i = File(b)
      BY <1>1, <2>2 DEF device_update, File, WellFormed
    <3>2. local' = [local EXCEPT ![i] = LocalForm[i][b.rec]] /\ remote' = remote /\ hidden' = hidden \ {i} /\ used' = used \cup {i}
      BY <2>2 DEF device_update, DeviceStores, HandOut
    <3>3. local'[i] = LocalForm[i][b.rec]
      BY <1>1, <3>1, <3>2 DEF Listings
    <3> QED BY <1>4, <3>1, <3>2, <3>3 DEF Stores
  <2>3. CASE device_delete(b, i)
    <3>1. b.kind = "delete_local" /\ i \in LocalIds /\ i = b.l
      BY <1>1, <2>3 DEF device_delete, WellFormed
    <3>2. local' = [local EXCEPT ![i] = None] /\ remote' = remote /\ hidden' = hidden \ {i} /\ used' = used
      BY <2>3 DEF device_delete
    <3> QED BY <1>4, <3>1, <3>2 DEF Stores
  <2>4. CASE remote_create(b, i)
    <3>1. b.kind = "create_remote" /\ i \in RemoteIds \ used /\ remote[i] = None
      BY <1>1, <2>4 DEF remote_create, FreeRemote, MayHandOut
    <3>2. remote' = [remote EXCEPT ![i] = RemoteForm[b.rec]] /\ local' = local /\ hidden' = hidden \ {i} /\ used' = used \cup {i}
      BY <2>4 DEF remote_create, RemoteStores, HandOut
    <3> QED BY <1>5, <3>1, <3>2 DEF Stores
  <2>5. CASE remote_update(b, i)
    <3>1. b.kind = "update_remote" /\ i \in RemoteIds /\ i = b.r /\ remote[i] # None
      BY <1>1, <2>5 DEF remote_update, WellFormed
    <3>2. remote' = [remote EXCEPT ![i] = RemoteForm[b.rec]] /\ local' = local /\ hidden' = hidden \ {i} /\ used' = used \cup {i}
      BY <2>5 DEF remote_update, RemoteStores, HandOut
    <3> QED BY <1>5, <3>1, <3>2 DEF Stores
  <2>6. CASE remote_delete(b, i)
    <3>1. b.kind = "delete_remote" /\ i \in RemoteIds /\ i = b.r
      BY <1>1, <2>6 DEF remote_delete, WellFormed
    <3>2. remote' = [remote EXCEPT ![i] = None] /\ local' = local /\ hidden' = hidden \ {i} /\ used' = used
      BY <2>6 DEF remote_delete
    <3> QED BY <1>5, <3>1, <3>2 DEF Stores
  <2> QED BY <1>6, <2>1, <2>2, <2>3, <2>4, <2>5, <2>6 DEF StoreCall
<1>7. ASSUME NEW i, NoStoreCall(b, i)
      PROVE  hidden' = {} /\ used' = used /\ remote' = remote /\ Stores(b, i) /\ b.kind \notin {"create_local", "update_local"}
  BY <1>1, <1>7 DEF NoStoreCall, Stores, Kinds, StoreKinds
<1>8. CASE Apply(b)
  <2>1. PICK i \in Maybe(Ids) : /\ StoreCall(b, i) \/ NoStoreCall(b, i)
                                /\ links' = apply_one(b, links, i) /\ touched' = touched \cup touch(b, i) /\ remember(b, i)
    BY <1>8 DEF Apply
  <2> QED BY <1>1, <1>6, <1>7, <2>1 DEF FileCall, Answered
<1>9. CASE Refuse(b) \/ Fail(b)
  BY <1>1, <1>9 DEF Refuse, Fail, Error, stores, FileCall, Maybe
<1>10. CASE LoseAnswer(b)
  <2>1. PICK i \in Maybe(Ids) : StoreCall(b, i)
    BY <1>10 DEF LoseAnswer
  <2> QED BY <1>6, <1>10, <2>1 DEF LoseAnswer, Error, FileCall
<1>11. CASE CutUpload(b)
  <2>1. PICK i \in LocalIds : /\ \/ b.kind = "create_local" /\ FreeLocal(b.rec, i)
                                 \/ b.kind = "update_local" /\ i = b.l
                              /\ DeviceStores(i, TornForm[i][b.rec])
    BY <1>11 DEF CutUpload
  <2>2. b.kind \in {"create_local", "update_local"} /\ i = File(b) /\ i \in Maybe(Ids)
    BY <1>2, <2>1, FreeName DEF File, Maybe, Ids
  <2>3. local' = [local EXCEPT ![i] = TornForm[i][b.rec]] /\ remote' = remote /\ hidden' = hidden \ {i} /\ used' = used \cup {i}
    BY <2>1 DEF DeviceStores, HandOut
  <2>4. Stores(b, i) /\ UNCHANGED <<links, touched, raw>>
    BY <1>11, <2>2, <2>3 DEF CutUpload, Error, Stores
  <2> QED BY <1>4, <2>2, <2>3, <2>4 DEF FileCall
<1> QED BY <1>8, <1>9, <1>10, <1>11
(* The records of the modern store only go or keep their titles.           *)
KeepsTitles == \A s \in RemoteIds : remote'[s] # None => remote[s] # None /\ Title(remote'[s]) = Title(remote[s])

LEMMA TitlesKept ==
    ASSUME IInv, IInv', TitlesAreNames, KeepsTitles
    PROVE  /\ \A l, r : Mates(l, r) => Mates(l, r)'
           /\ \A l : (\A s \in RemoteIds : remote[s] # None => Title(remote[s]) # l)
                        => \A s \in RemoteIds : remote'[s] # None => Title(remote'[s]) # l
           /\ UniqueKeys(remote) => UniqueKeys(remote')
<1>1. DOMAIN remote = RemoteIds /\ DOMAIN remote' = RemoteIds
  BY DEF IInv, TypeOK, Listings
<1>2. \A s \in RemoteIds : /\ remote[s] # None => remote[s] \in Values
                           /\ remote'[s] # None => remote'[s] \in Values
  BY DEF IInv, TypeOK, Listings, Maybe
<1>3. \A v, w \in Values : match_key[v] = match_key[w] <=> Title(v) = Title(w)
  BY DEF TitlesAreNames
<1> HIDE DEF Title
<1>4. ASSUME NEW l, NEW r, Mates(l, r) PROVE Mates(l, r)'
  BY <1>4 DEF Mates, KeepsTitles
<1>5. ASSUME NEW l, \A s \in RemoteIds : remote[s] # None => Title(remote[s]) # l
      PROVE  \A s \in RemoteIds : remote'[s] # None => Title(remote'[s]) # l
  BY <1>5 DEF KeepsTitles
<1>6. ASSUME UniqueKeys(remote) PROVE UniqueKeys(remote')
  BY <1>1, <1>2, <1>3, <1>6 DEF UniqueKeys, Present, KeepsTitles
<1> QED BY <1>4, <1>5, <1>6

LEMMA FileAction ==
    ASSUME IInv, IInv', FileInv, TitlesAreNames, Folder, ~Reuse, NEW b \in pending,
           Apply(b) \/ Refuse(b) \/ Fail(b) \/ LoseAnswer(b) \/ CutUpload(b)
    PROVE  FileInv'
<1>1. pending' = pending \ {b} /\ saved' = saved
  BY DEF Apply, Refuse, Fail, LoseAnswer, CutUpload, Error, Done
<1>2. hidden' = {} /\ used \subseteq used' /\ Present(remote') \subseteq used'
  BY FileCalls
<1>3. PICK i \in Maybe(Ids) : FileCall(b, i)
  BY FileCalls
<1>4. /\ local \in Listings(LocalIds) /\ remote \in Listings(RemoteIds) /\ local' \in Listings(LocalIds) /\ raw \in Listings(LocalIds)
      /\ None \notin LocalIds \cup RemoteIds \cup Values /\ WellFormed(b) /\ b.kind \in Kinds /\ FileDue(b)
      /\ UniqueKeys(remote)
  BY IdsAssumption DEF IInv, TypeOK, Action, FileInv
<1>5. \A v \in Values : Title(v) \in LocalIds /\ Title(RemoteForm[v]) = Title(v) /\ RemoteForm[v] \in Values
  BY TitleType, FormsType DEF TitlesAreNames
<1>6. \A l \in LocalIds : local'[l] # None => Title(local'[l]) = l
  <2>1. \A l \in LocalIds : local[l] # None => Title(local[l]) = l
    BY DEF FileInv
  <2>2. ASSUME b.kind \in {"create_local", "update_local"}, i \in LocalIds, NEW v \in {LocalForm[i][b.rec], TornForm[i][b.rec]}
        PROVE  Title(v) = i
    BY <1>4, <2>2 DEF WellFormed, TitlesAreNames
  <2> HIDE DEF Title
  <2> QED BY <1>3, <1>4, <2>1, <2>2 DEF FileCall, Stores, Listings
(* The actions left are about other files.                                 *)
<1>7. ASSUME NEW a \in pending'
      PROVE  /\ a \in pending /\ FileDue(a) /\ WellFormed(a)
             /\ Serves(a) /\ Serves(b) /\ (Creation(a) \/ Creation(b)) => File(a) # File(b)
  <2>1. a \in pending /\ a # b /\ FileDue(a) /\ WellFormed(a)
    BY <1>1 DEF FileInv, IInv, TypeOK
  <2>2. Serves(a) /\ Serves(b) /\ File(a) = File(b) => PairAndConflict(a, b)
    BY <2>1 DEF FileInv
  <2>3. PairAndConflict(a, b) => ~Creation(a) /\ ~Creation(b)
    BY DEF PairAndConflict, Creation
  <2> QED BY <2>1, <2>2, <2>3
<1>8. ASSUME NEW k \in links'
      PROVE  \/ k \in links
             \/ Serves(b) /\ links' # links /\ k.l = File(b) /\ (Joins(b) \/ b.kind = "create_local") /\ k.r = b.r
             \/ b.kind = "create_remote" /\ links' # links /\ Stores(b, i) /\ k.l = b.l /\ k.r = i
  <2>1. CASE links' = links
    BY <2>1
  <2>2. CASE links' # links
    <3>1. links' = apply_one(b, links, i) /\ Stores(b, i)
      BY <1>3, <2>2 DEF FileCall, Answered
    <3>2. b.kind = "create_local" => i = File(b)
      BY <3>1 DEF Stores
    <3> QED BY <2>2, <3>1, <3>2, LinksThen DEF Serves, File, Joins
  <2> QED BY <2>1, <2>2
<1>9. ASSUME NEW a \in pending', a.kind = "create_local" PROVE raw'[File(a)] = None
  <2>1. raw[File(a)] = None /\ File(a) \in LocalIds
    BY <1>5, <1>7, <1>9 DEF FileDue, File, WellFormed
  <2>2. b.kind = "create_local" => File(a) # File(b)
    BY <1>7, <1>9 DEF Serves, Creation
  <2>3. remember(b, i) /\ Stores(b, i) => raw'[File(a)] = None
    <3>1. b.kind = "create_local" /\ Stores(b, i) => i = File(b)
      BY DEF Stores
    <3> QED BY <1>4, <2>1, <2>2, <3>1 DEF remember, Listings
  <2> QED BY <1>3, <2>1, <2>3 DEF FileCall, Answered
<1>10. ASSUME NEW a \in pending', a.kind = "create_remote", NEW k \in saved \cup links' PROVE k.l # a.l
  <2>1. (\A j \in saved \cup links : j.l # a.l) /\ File(a) = a.l
    BY <1>7, <1>10 DEF FileDue, File
  <2>2. Serves(b) => File(b) # a.l
    BY <1>7, <1>10, <2>1 DEF Serves, Creation
  <2> QED BY <1>8, <1>10, <2>1, <2>2 DEF Serves, File
<1>11. ASSUME UniqueKeys(remote'), \A k \in saved \cup links' : k.r \in used' /\ Mates(k.l, k.r)',
              \A a \in pending' : Reads(a) => Mates(File(a), a.r)',
              \A a \in pending' : a.kind = "create_remote" => \A s \in RemoteIds : remote'[s] # None => Title(remote'[s]) # a.l
       PROVE  FileInv'
  <2>1. \A a, c \in pending' : Serves(a) /\ Serves(c) /\ File(a) = File(c) => a = c \/ PairAndConflict(a, c)
    BY <1>1 DEF FileInv
  <2>2. ASSUME NEW a \in pending' PROVE FileDue(a)'
    <3>1. (Reads(a) => a.r \in used) /\ (Joins(a) \/ a.kind = "create_remote" => Title(a.rec) = a.l)
      BY <1>7 DEF FileDue
    <3> QED BY <1>1, <1>2, <1>9, <1>10, <1>11, <3>1 DEF FileDue
  <2> QED BY <1>1, <1>2, <1>6, <1>11, <2>1, <2>2 DEF FileInv
<1>12. CASE KeepsTitles
  <2>1. (\A l, r : Mates(l, r) => Mates(l, r)') /\ UniqueKeys(remote')
        /\ \A l : (\A s \in RemoteIds : remote[s] # None => Title(remote[s]) # l)
                     => \A s \in RemoteIds : remote'[s] # None => Title(remote'[s]) # l
    BY <1>4, <1>12, TitlesKept
  <2>2. ASSUME NEW k \in saved \cup links' PROVE k.r \in used' /\ Mates(k.l, k.r)'
    <3>1. CASE k \in saved \cup links
      BY <1>2, <2>1, <3>1 DEF FileInv
    <3>2. CASE k.l = File(b) /\ k.r = b.r /\ (Joins(b) \/ b.kind = "create_local")
      BY <1>2, <1>4, <2>1, <3>2 DEF FileDue, Reads
    <3>3. CASE b.kind = "create_remote" /\ Stores(b, i)
      <4>1. i \in RemoteIds /\ remote[i] = None /\ remote'[i] = RemoteForm[b.rec] /\ b.rec \in Values
        BY <1>4, <3>3 DEF Stores, Listings, WellFormed
      <4> QED BY <1>4, <1>5, <1>12, <4>1 DEF KeepsTitles
    <3> QED BY <1>8, <3>1, <3>2, <3>3
  <2>3. ASSUME NEW a \in pending' PROVE Reads(a) => Mates(File(a), a.r)'
    BY <1>7, <2>1 DEF FileDue
  <2>4. ASSUME NEW a \in pending', a.kind = "create_remote"
        PROVE  \A s \in RemoteIds : remote'[s] # None => Title(remote'[s]) # a.l
    BY <1>7, <2>1, <2>4 DEF FileDue
  <2> QED BY <1>11, <2>1, <2>2, <2>3, <2>4
<1>13. CASE b.kind = "create_remote" /\ Stores(b, i)
  <2> DEFINE v == RemoteForm[b.rec]
  <2>1. i \in RemoteIds \ used /\ remote[i] = None /\ remote' = [remote EXCEPT ![i] = v] /\ v \in Values /\ Title(v) = b.l
    BY <1>4, <1>5, <1>13 DEF Stores, WellFormed, FileDue
  <2>2. /\ \A s \in RemoteIds : remote[s] # None => Title(remote[s]) # b.l
        /\ \A k \in saved \cup links : k.l # b.l
        /\ Serves(b) /\ Creation(b) /\ File(b) = b.l
    BY <1>4, <1>13 DEF FileDue, Serves, Creation, File
  <2> HIDE DEF v
  <2>3. \A s \in RemoteIds : remote'[s] = IF s = i THEN v ELSE remote[s]
    BY <1>4, <2>1 DEF Listings
  <2>4. ASSUME NEW l, NEW r, l # b.l, r # i, Mates(l, r) PROVE Mates(l, r)'
    <3> HIDE DEF Title
    <3> QED BY <2>1, <2>3, <2>4 DEF Mates
  <2>5. Mates(b.l, i)'
    <3> HIDE DEF Title
    <3> QED BY <1>4, <2>1, <2>2, <2>3 DEF Mates
  <2>6. UniqueKeys(remote')
    <3>1. DOMAIN remote = RemoteIds /\ DOMAIN remote' = RemoteIds /\ \A s \in RemoteIds : remote[s] # None => remote[s] \in Values
      BY <1>4, <2>1 DEF Listings, Maybe
    <3>2. \A x, w \in Values : match_key[x] = match_key[w] <=> Title(x) = Title(w)
      BY DEF TitlesAreNames
    <3> HIDE DEF Title
    <3> QED BY <1>4, <2>1, <2>2, <2>3, <3>1, <3>2 DEF UniqueKeys, Present
  <2>7. ASSUME NEW k \in saved \cup links' PROVE k.r \in used' /\ Mates(k.l, k.r)'
    <3>1. CASE k \in saved \cup links
      <4>1. k.r \in used /\ Mates(k.l, k.r) /\ k.l # b.l /\ k.r # i
        BY <2>1, <2>2, <3>1 DEF FileInv
      <4> QED BY <1>2, <2>4, <4>1
    <3>2. CASE k.l = b.l /\ k.r = i
      <4>1. i \in Present(remote')
        BY <1>4, <2>1 DEF Present, Listings
      <4> QED BY <1>2, <2>5, <3>2, <4>1
    <3> QED BY <1>8, <1>13, <3>1, <3>2 DEF Joins
  <2>8. ASSUME NEW a \in pending', Reads(a) PROVE Mates(File(a), a.r)'
    <3>1. a.r \in used /\ Mates(File(a), a.r) /\ Serves(a)
      BY <1>7, <2>8 DEF FileDue, Reads, Joins, Serves
    <3>2. File(a) # b.l /\ a.r # i
      BY <1>7, <2>1, <2>2, <3>1
    <3> QED BY <2>4, <3>1, <3>2
  <2>9. ASSUME NEW a \in pending', a.kind = "create_remote", NEW s \in RemoteIds, remote'[s] # None PROVE Title(remote'[s]) # a.l
    <3>1. a.l # b.l /\ \A z \in RemoteIds : remote[z] # None => Title(remote[z]) # a.l
      BY <1>7, <2>2, <2>9 DEF FileDue, Serves, Creation, File
    <3> HIDE DEF Title
    <3> QED BY <2>1, <2>3, <2>9, <3>1
  <2> QED BY <1>11, <2>6, <2>7, <2>8, <2>9
<1>14. (b.kind = "create_remote" /\ Stores(b, i)) \/ KeepsTitles
  <2>1. CASE remote' = remote
    BY <2>1 DEF KeepsTitles
  <2>2. CASE b.kind = "update_remote" /\ Stores(b, i)
    <3>1. i = b.r /\ i \in RemoteIds /\ remote[i] # None /\ remote' = [remote EXCEPT ![i] = RemoteForm[b.rec]]
      BY <2>2 DEF Stores
    <3>2. Title(b.rec) = b.l /\ Mates(b.l, b.r) /\ Title(RemoteForm[b.rec]) = Title(b.rec)
      BY <1>4, <1>5, <2>2 DEF FileDue, Reads, Joins, File, WellFormed
    <3>3. Title(remote[i]) = Title(RemoteForm[b.rec])
      BY <3>1, <3>2 DEF Mates
    <3> HIDE DEF Title
    <3> QED BY <1>4, <3>1, <3>3 DEF KeepsTitles, Listings
  <2>3. CASE b.kind = "delete_remote" /\ Stores(b, i)
    BY <1>4, <2>3 DEF Stores, KeepsTitles, Listings
  <2> QED BY <1>3, <1>4, <2>1, <2>2, <2>3 DEF FileCall, Stores
<1> QED BY <1>12, <1>13, <1>14

(* What a plan does with what belongs together.                            *)
LEMMA FilePlan ==
    ASSUME IInv, IInv', SettleInv, AgreeInv, FileInv, TitlesAreNames, Plan
    PROVE  FileInv'
<1>1. /\ UNCHANGED <<local, remote, hidden, used, saved, links, raw>> /\ phase = "listed"
      /\ links \in SUBSET Link /\ OneToOne(links) /\ args \in Options
      /\ local \in Listings(LocalIds) /\ remote \in Listings(RemoteIds)
  BY DEF Plan, stores, IInv, TypeOK, LinksOneToOne
<1>2. Listing(remote) = remote /\ Listing(local) = local
  BY <1>1 DEF Listing, FileInv, Listings
<1>3. localItems = local /\ raw = local /\ links = saved
  BY <1>1, <1>2 DEF AgreeInv, SettleInv, OnDevice
<1>4. PICK P \in Pairings(local, remote, links) : pending' = plan(local, remote, links, P, args)
  BY <1>2, <1>3 DEF Plan
<1>5. UniqueKeys(local) /\ UniqueKeys(remote) /\ \A k \in links : Counterparts(local, remote, k.l, k.r)
  <2>1. \A k \in links : k.l \in LocalIds /\ k.r \in RemoteIds /\ Mates(k.l, k.r)
    BY <1>1 DEF FileInv, Link
  <2> QED BY <2>1, MatesMatch DEF FileInv
<1>6. /\ \A v \in Values : Title(v) \in LocalIds
      /\ \A v, w \in Values : match_key[v] = match_key[w] <=> Title(v) = Title(w)
  BY TitleType DEF TitlesAreNames
<1>7. /\ \A l \in LocalIds : local[l] # None => local[l] \in Values /\ Title(local[l]) = l
      /\ \A r \in RemoteIds : remote[r] # None => remote[r] \in Values /\ r \in used
      /\ DOMAIN remote = RemoteIds /\ DOMAIN local = LocalIds
  BY <1>1 DEF FileInv, Listings, Maybe, Present
<1>8. ASSUME NEW r \in RemoteIds, remote[r] # None PROVE Mates(Title(remote[r]), r)
  <2> HIDE DEF Title
  <2> QED BY <1>5, <1>6, <1>7, <1>8 DEF Mates, UniqueKeys, Present
<1>9. \A a \in pending' : a \in Action /\ WellFormed(a)
  BY <1>1, <1>4, PlanType
<1>10. ASSUME NEW a \in pending'
       PROVE  /\ Joins(a) => /\ a.l \in LocalIds /\ a.r \in RemoteIds /\ local[a.l] # None /\ remote[a.r] # None
                             /\ Title(a.rec) = a.l /\ Title(remote[a.r]) = a.l
              /\ a.kind = "create_remote" =>
                   /\ a.l \in LocalIds /\ local[a.l] # None /\ Title(a.rec) = a.l /\ \A k \in links : k.l # a.l
                   /\ \A s \in RemoteIds : remote[s] # None => Title(remote[s]) # a.l
              /\ a.kind = "create_local" =>
                   /\ a.r \in RemoteIds /\ remote[a.r] # None /\ Title(remote[a.r]) = Title(a.rec) /\ \A k \in links : k.r # a.r
                   /\ local[Title(a.rec)] = None
  <2>1. a \in plan(local, remote, links, P, args)
    BY <1>4
  <2>2. /\ Joins(a) => /\ a.l \in LocalIds /\ a.r \in RemoteIds
                       /\ HasKey(local, a.l, match_key[a.rec]) /\ HasKey(remote, a.r, match_key[a.rec])
        /\ a.kind = "create_remote" =>
             /\ a.l \in LocalIds /\ HasKey(local, a.l, match_key[a.rec]) /\ \A k \in links : k.l # a.l
             /\ NoneOfKey(remote, match_key[a.rec])
        /\ a.kind = "create_local" =>
             /\ a.r \in RemoteIds /\ HasKey(remote, a.r, match_key[a.rec]) /\ \A k \in links : k.r # a.r
             /\ NoneOfKey(local, match_key[a.rec])
    BY <1>1, <1>5, <2>1, PlanKeys
  <2>3. Joins(a) \/ Creation(a) => a.rec \in Values
    BY <1>9 DEF WellFormed, Joins, Creation
  <2> HIDE DEF Title
  <2>4. Joins(a) => /\ local[a.l] # None /\ remote[a.r] # None /\ Title(a.rec) = a.l /\ Title(remote[a.r]) = a.l
    BY <1>6, <1>7, <2>2, <2>3 DEF HasKey
  <2>5. a.kind = "create_remote" => /\ local[a.l] # None /\ Title(a.rec) = a.l
                                    /\ \A s \in RemoteIds : remote[s] # None => Title(remote[s]) # a.l
    BY <1>6, <1>7, <2>2, <2>3 DEF HasKey, NoneOfKey, Creation
  <2>6. a.kind = "create_local" => /\ remote[a.r] # None /\ Title(remote[a.r]) = Title(a.rec) /\ local[Title(a.rec)] = None
    BY <1>6, <1>7, <2>2, <2>3 DEF HasKey, NoneOfKey, Creation
  <2> QED BY <2>2, <2>4, <2>5, <2>6
<1>11. ASSUME NEW a \in pending', Deletes(a)
       PROVE  \E k \in links : /\ a.l = k.l /\ a.r = k.r
                               /\ a.kind = "delete_local" => local[k.l] # None
                               /\ a.kind = "delete_remote" => remote[k.r] # None
  <2>1. PICK k \in links : a \in plan_link(k, local, remote, args)
    BY <1>4, <1>11, NewActions
  <2>2. a.l = k.l /\ a.r = k.r
    BY <1>1, <2>1, LinkActions
  <2>3. (a.kind = "delete_local" => local[k.l] # None) /\ (a.kind = "delete_remote" => remote[k.r] # None)
    BY <1>11, <2>1 DEF plan_link, push, pull, resolve_conflict, Act, Deletes
  <2> QED BY <2>2, <2>3
<1>12. ASSUME NEW a \in pending' PROVE FileDue(a)'
  <2>1. CASE Joins(a)
    BY <1>1, <1>7, <1>8, <1>10, <2>1 DEF FileDue, Reads, Joins, File, Mates
  <2>2. CASE a.kind = "create_local"
    BY <1>1, <1>3, <1>7, <1>8, <1>10, <2>2 DEF FileDue, Reads, Joins, File, Mates
  <2>3. CASE a.kind = "create_remote"
    BY <1>1, <1>3, <1>10, <2>3 DEF FileDue, Reads, Joins, File
  <2>4. CASE a.kind = "delete_remote"
    <3>1. PICK k \in links : a.l = k.l /\ a.r = k.r
      BY <1>11, <2>4 DEF Deletes
    <3>2. a.r \in used /\ Mates(a.l, a.r)
      BY <3>1 DEF FileInv
    <3> QED BY <1>1, <2>4, <3>2 DEF FileDue, Reads, Joins, File, Mates
  <2> QED BY <2>1, <2>2, <2>3, <2>4 DEF FileDue, Reads
<1>13. Apart(pending')
  BY <1>1, <1>4, PlanApart
<1>14. ASSUME NEW a \in pending', NEW c \in pending', Serves(a), Serves(c), File(a) = File(c)
       PROVE  a = c \/ PairAndConflict(a, c)
  <2>1. ASSUME NEW x \in pending', x.kind = "create_local", NEW y \in pending', Serves(y), File(x) = File(y), y.kind # "create_local" PROVE FALSE
    <3>1. y.l = Title(x.rec) /\ local[y.l] = None
      BY <1>10, <2>1 DEF File
    <3>2. ~Joins(y) /\ y.kind # "create_remote"
      BY <1>10, <3>1
    <3>3. y.kind \in {"delete_local", "delete_remote"}
      BY <1>9, <2>1, <3>2 DEF Action, Kinds, StoreKinds, Joins, Serves
    <3>4. PICK k \in links : /\ y.l = k.l /\ y.r = k.r
                             /\ y.kind = "delete_local" => local[k.l] # None
                             /\ y.kind = "delete_remote" => remote[k.r] # None
      BY <1>11, <3>3 DEF Deletes
    <3>5. Mates(k.l, k.r) /\ k.r # x.r /\ x.r \in RemoteIds /\ remote[x.r] # None /\ Title(remote[x.r]) = Title(x.rec)
      BY <1>10, <2>1 DEF FileInv
    <3> QED BY <3>1, <3>4, <3>5 DEF Mates
  <2>2. CASE a.kind = "create_local" /\ c.kind = "create_local"
    <3>1. a.r = c.r /\ a.r # None
      <4>1. /\ a.r \in RemoteIds /\ c.r \in RemoteIds /\ remote[a.r] # None /\ remote[c.r] # None
            /\ Title(remote[a.r]) = Title(remote[c.r])
        BY <1>10, <1>14, <2>2 DEF File
      <4> QED BY <1>8, <4>1, IdsAssumption DEF Mates
    <3> QED BY <1>13, <3>1 DEF Apart, Meet
  <2>3. CASE a.kind # "create_local" /\ c.kind # "create_local"
    <3>1. a.l = c.l /\ a.l \in LocalIds
      <4>1. a.l = c.l
        BY <1>14, <2>3 DEF File
      <4>2. Joins(a) \/ a.kind = "create_remote" \/ a.kind = "delete_local" => a.l \in LocalIds
        BY <1>9 DEF WellFormed, Joins
      <4>3. a.kind = "delete_remote" => a.l \in LocalIds
        BY <1>1, <1>11 DEF Deletes, Link
      <4> QED BY <1>9, <1>14, <2>3, <4>1, <4>2, <4>3 DEF Action, Kinds, StoreKinds, Joins, Serves
    <3> QED BY <1>13, <3>1, IdsAssumption DEF Apart, Meet
  <2> QED BY <1>14, <2>1, <2>2, <2>3
<1> QED BY <1>1, <1>12, <1>14 DEF FileInv, Mates
(* What the user does between the runs.                                    *)
LEMMA FileUser ==
    ASSUME IInv, IInv', SettleInv, FileInv, TitlesAreNames, ~Unreadable, ~Interfere, User
    PROVE  FileInv'
<1>1. /\ UserStep /\ phase = "idle" /\ pending = {} /\ pending' = {} /\ saved' = saved /\ links' = links
      /\ local \in Listings(LocalIds) /\ remote \in Listings(RemoteIds) /\ Creates = {}
  BY DEF User, UserCreates, UserEdits, UserDeletesRecord, ReadabilityChanges, UserStep, memory, SettleInv, IInv, TypeOK, TitlesAreNames
<1>2. \A l \in LocalIds : local[l] # None => Title(local[l]) = l
  BY DEF FileInv
<1>3. \A v \in Values : Title(RemoteForm[v]) = Title(v) /\ \A l \in LocalIds : Title(LocalForm[l][v]) = l
  BY DEF TitlesAreNames
<1>4. ASSUME hidden' = {}, used \subseteq used', Present(remote') \subseteq used', KeepsTitles,
             \A l \in LocalIds : local'[l] # None => Title(local'[l]) = l
      PROVE  FileInv'
  <2>1. (\A l, r : Mates(l, r) => Mates(l, r)') /\ (UniqueKeys(remote) => UniqueKeys(remote'))
    BY <1>4, TitlesKept
  <2> QED BY <1>1, <1>4, <2>1 DEF FileInv
<1>5. CASE UserEdits
  <2>1. PICK e \in Edits :
           \/ \E i \in LocalIds : local[i] = e[1] /\ UserPutsLocal(i, e[2])
           \/ \E i \in RemoteIds : remote[i] = e[1] /\ UserPutsRemote(i, e[2])
    BY <1>5 DEF UserEdits
  <2>2. e[1] \in Values /\ e[2] \in Values /\ Title(e[1]) = Title(e[2]) /\ e[1] # None
    BY StoresAssumption, IdsAssumption DEF TitlesAreNames
  <2>3. CASE \E i \in LocalIds : local[i] = e[1] /\ UserPutsLocal(i, e[2])
    <3>1. PICK i \in LocalIds : /\ local' = [local EXCEPT ![i] = LocalForm[i][e[2]]] /\ remote' = remote
                                /\ hidden' = hidden \ {i} /\ used' \in {used, used \cup {i}}
      BY <2>3 DEF UserPutsLocal, HandOut
    <3>2. hidden' = {} /\ used \subseteq used' /\ Present(remote') \subseteq used' /\ KeepsTitles
      BY <3>1 DEF FileInv, KeepsTitles
    <3>3. \A l \in LocalIds : local'[l] # None => Title(local'[l]) = l
      <4> HIDE DEF Title
      <4> QED BY <1>1, <1>2, <1>3, <2>2, <3>1 DEF Listings
    <3> QED BY <1>4, <3>2, <3>3
  <2>4. CASE \E i \in RemoteIds : remote[i] = e[1] /\ UserPutsRemote(i, e[2])
    <3>1. PICK i \in RemoteIds : /\ remote[i] = e[1] /\ remote' = [remote EXCEPT ![i] = RemoteForm[e[2]]] /\ local' = local
                                 /\ hidden' = hidden \ {i} /\ used' \in {used, used \cup {i}}
      BY <2>4 DEF UserPutsRemote, HandOut
    <3>2. hidden' = {} /\ used \subseteq used'
      BY <3>1 DEF FileInv
    <3>3. Present(remote') = Present(remote)
      BY <1>1, <2>2, <3>1, FormsType, IdsAssumption DEF Present, Listings
    <3>4. KeepsTitles
      <4> HIDE DEF Title
      <4> QED BY <1>1, <1>3, <2>2, <3>1 DEF KeepsTitles, Listings
    <3> QED BY <1>2, <1>4, <3>1, <3>2, <3>3, <3>4 DEF FileInv
  <2> QED BY <2>1, <2>3, <2>4
<1>6. CASE UserDeletesRecord
  <2>1. PICK i : /\ local' = [j \in LocalIds |-> IF j = i THEN None ELSE local[j]]
                 /\ remote' = [j \in RemoteIds |-> IF j = i THEN None ELSE remote[j]]
                 /\ hidden' = hidden \ {i} /\ used' = used
    BY <1>6 DEF UserDeletesRecord
  <2>2. hidden' = {} /\ used \subseteq used' /\ Present(remote') \subseteq Present(remote) /\ KeepsTitles
    BY <1>1, <2>1 DEF FileInv, Present, Listings, KeepsTitles
  <2>3. Present(remote') \subseteq used'
    BY <2>1, <2>2 DEF FileInv
  <2>4. \A l \in LocalIds : local'[l] # None => Title(local'[l]) = l
    <3> HIDE DEF Title
    <3> QED BY <1>2, <2>1
  <2> QED BY <1>4, <2>2, <2>3, <2>4
<1> QED BY <1>1, <1>5, <1>6 DEF User, UserCreates, ReadabilityChanges

LEMMA FileStep ==
    ASSUME IInv, IInv', SettleInv, AgreeInv, FileInv, TitlesAreNames, Folder, ~Reuse, ~Unreadable, ~Interfere, [Next]_vars
    PROVE  FileInv'
<1>1. ASSUME UNCHANGED <<local, remote, hidden, used>>, pending' = {},
             \A k \in saved' \cup links' : \E j \in saved \cup links : k.l = j.l /\ k.r = j.r
      PROVE  FileInv'
  BY <1>1 DEF FileInv, Mates
<1>2. CASE User
  BY <1>2, FileUser
<1>3. CASE \E o \in Runs : Start(o)
  <2>1. UNCHANGED <<local, remote, hidden, used, saved, pending>> /\ links' = saved /\ phase = "idle"
    BY <1>3 DEF Start, stores
  <2> QED BY <1>1, <2>1 DEF SettleInv
<1>4. CASE Plan
  BY <1>4, FilePlan
<1>5. CASE DryRun \/ Crash \/ SaveUntouched
  <2>1. UNCHANGED <<local, remote, hidden, used>> /\ pending' = {} /\ links' = {} /\ saved' \subseteq saved \cup links
    BY <1>5 DEF DryRun, Crash, SaveUntouched, Exit, stores
  <2> QED BY <1>1, <2>1
<1>6. CASE SaveRefreshed
  <2>1. UNCHANGED <<local, remote, hidden, used>> /\ pending' = {} /\ links' = {}
    BY <1>6 DEF SaveRefreshed, Exit, stores
  <2>2. ASSUME NEW k \in saved' PROVE \E j \in links : k.l = j.l /\ k.r = j.r
    <3>1. PICK j \in links :
            k = [j EXCEPT !.lh = IF j.l \in touched /\ localItems[j.l] # None THEN localItems[j.l] ELSE @,
                          !.rh = IF j.r \in touched /\ Listing(remote)[j.r] # None THEN Listing(remote)[j.r] ELSE @]
      BY <1>6 DEF SaveRefreshed, refresh_hashes
    <3>2. j \in Link
      BY DEF IInv, TypeOK
    <3> QED BY <3>1, <3>2 DEF Link
  <2> QED BY <1>1, <2>1, <2>2
<1>7. CASE Relist
  BY <1>1, <1>7 DEF Relist, stores
<1>8. CASE StateLost
  <2>1. UNCHANGED <<local, remote, hidden, used, pending, links>> /\ saved' = {} /\ phase = "idle"
    BY <1>8 DEF StateLost, stores, memory
  <2> QED BY <1>1, <2>1 DEF SettleInv
<1>9. CASE UNCHANGED vars
  BY <1>9 DEF vars, stores, memory, FileInv, FileDue, Mates
<1>10. ASSUME NEW b \in pending, Apply(b) \/ Refuse(b) \/ Fail(b) \/ LoseAnswer(b) \/ CutUpload(b)
       PROVE  FileInv'
  BY <1>10, FileAction
<1> QED BY <1>2, <1>3, <1>4, <1>5, <1>6, <1>7, <1>8, <1>9, <1>10 DEF Next, Sync, Trouble

LEMMA InitFiles ==
    ASSUME TitlesAreNames
    PROVE  Init => FileInv
<1> SUFFICES ASSUME Init PROVE FileInv
  OBVIOUS
<1>1. local \in InitLocal /\ remote \in InitRemote /\ hidden = {} /\ saved = {} /\ links = {} /\ pending = {} /\ Present(remote) \subseteq used
  BY DEF Init
<1>2. DOMAIN local = LocalIds
  BY <1>1, StoresAssumption DEF Listings
<1>3. \A l \in LocalIds : local[l] # None => Title(local[l]) = l
  BY <1>1, <1>2 DEF TitlesAreNames, Present
<1> QED BY <1>1, <1>3 DEF FileInv, TitlesAreNames

(* On a folder account, where list() skips no file and nobody writes       *)
(* during a run: the sync makes no second file of a title ("a-2") and no   *)
(* second modern record, whatever fails, is cut short, lost or crashes,    *)
(* with whatever options it is called (filestore.py, create and            *)
(* unique_filename; engine.py, _pair_new).                                 *)
THEOREM NoFileIsDuplicated ==
    ASSUME Folder, ~Reuse, ~Unreadable, ~Interfere, TitlesAreNames
    PROVE  Spec => []NoDuplicates
<1> DEFINE Inv == IInv /\ SettleInv /\ AgreeInv /\ FileInv
<1>1. Inv => NoDuplicates
  BY MatesMatch DEF FileInv, NoDuplicates
<1>2. Init => Inv
  BY InitType, InitSettles, InitAgrees, InitFiles
<1>3. Inv /\ [Next]_vars => Inv'
  BY StepType, StepSettles, StepAgrees, FileStep
<1> QED BY <1>1, <1>2, <1>3, PTL DEF Spec

-------------------------------------------------------------------------------
(***************************************************************************)
(* Torn files.  An upload that was cut short is told from an edit by what  *)
(* a link knows: while the modern record of that title has not been seen   *)
(* by its link, a plan with `--prefer remote' pulls it again.  That it is  *)
(* not the record the link knows follows from the age of a record: the     *)
(* stores do not change it and every edit raises it, so what comes back    *)
(* is never taken for what was there before.                               *)
(***************************************************************************)
(* A record as the modern store lists it, and what the links will know     *)
(* once the run has listed both sides again.                               *)
Lists(v) == RemoteForm[v] = v
Known == saved \cup refresh_hashes(links, local, remote, touched)

(* What a link knows of either side is never newer than what is there.     *)
Dated(k, age) ==
    /\ Lists(k.rh) => age[k.lh] = age[k.rh]
    /\ remote[k.r] # None => remote[k.r] = k.rh \/ ~Lists(k.rh) \/ age[k.rh] < age[remote[k.r]]
    /\ remote[k.r] = k.rh /\ local[k.l] \notin {None, k.lh} => age[k.rh] < age[local[k.l]]

Unseen(l, v) == \A k \in Known : k.l = l => k.rh # v

TornDue(a, age) ==
    /\ a.kind \in {"create_local", "update_local"} => remote[a.r] = a.rec /\ Unseen(File(a), a.rec)
    /\ a.kind \in {"create_remote", "update_remote", "link"} => local[a.l] = a.rec
    /\ a.kind \in {"create_remote", "update_remote"} => a.rec \notin TornValues
    /\ a.kind = "update_remote" /\ remote[a.r] # None => age[remote[a.r]] < age[a.rec]
    /\ a.kind = "delete_remote" => a.l \in LocalIds /\ local[a.l] = None

TornIsUnseen ==
    \A l \in LocalIds : local[l] \in TornValues =>
      \E r \in RemoteIds : remote[r] # None /\ Title(remote[r]) = l /\ Unseen(l, remote[r])

PulledFirst == phase # "idle" => writes_local(args) /\ args.prefer = "remote"

Listed ==
    /\ \A r \in RemoteIds : remote[r] # None => Lists(remote[r]) /\ remote[r] \notin TornValues
    /\ \A l \in LocalIds : local[l] # None => ~Lists(local[l])

TornInv(age) ==
    /\ PulledFirst /\ Listed /\ TornIsUnseen
    /\ \A k \in Known : Dated(k, age)
    /\ \A a \in pending : TornDue(a, age)

LEMMA NothingRefreshed ==
    ASSUME NEW ks \in SUBSET Link, NEW L, NEW R
    PROVE  refresh_hashes(ks, L, R, {}) = ks
<1> SUFFICES ASSUME NEW j \in ks
             PROVE  j = [j EXCEPT !.lh = IF j.l \in {} /\ L[j.l] # None THEN L[j.l] ELSE @,
                                  !.rh = IF j.r \in {} /\ R[j.r] # None THEN R[j.r] ELSE @]
  BY DEF refresh_hashes
<1>1. j \in [l : LocalIds, r : RemoteIds, lh : Values, rh : Values]
  BY DEF Link
<1> QED BY <1>1

(* What is known of a link: ...                                            *)
LEMMA KnownLinks ==
    ASSUME IInv, FileInv
    PROVE  /\ \A k \in Known : k \in Link /\ k.r \in used /\ Mates(k.l, k.r)
           /\ touched = {} => Known = saved \cup links
<1>1. saved \in SUBSET Link /\ links \in SUBSET Link /\ local \in Listings(LocalIds) /\ remote \in Listings(RemoteIds)
  BY DEF IInv, TypeOK
<1>2. ASSUME NEW k \in refresh_hashes(links, local, remote, touched)
      PROVE  k \in Link /\ \E j \in links : k.l = j.l /\ k.r = j.r
  <2>1. PICK j \in links :
          k = [j EXCEPT !.lh = IF j.l \in touched /\ local[j.l] # None THEN local[j.l] ELSE @,
                        !.rh = IF j.r \in touched /\ remote[j.r] # None THEN remote[j.r] ELSE @]
    BY DEF refresh_hashes
  <2>2. j \in [l : LocalIds, r : RemoteIds, lh : Values, rh : Values]
    BY <1>1 DEF Link
  <2>3. /\ local[j.l] # None => local[j.l] \in Values
        /\ remote[j.r] # None => remote[j.r] \in Values
    BY <1>1, <2>2 DEF Listings, Maybe
  <2> QED BY <2>1, <2>2, <2>3 DEF Link
<1>3. touched = {} => refresh_hashes(links, local, remote, touched) = links
  BY <1>1, NothingRefreshed
<1>4. \A k \in saved \cup links : k.r \in used /\ Mates(k.l, k.r)
  BY DEF FileInv
<1> QED BY <1>1, <1>2, <1>3, <1>4 DEF Known

(* ... an action adds no more than the link it makes.                      *)
Newly(b, i, k) ==
    /\ Answered(b, i) /\ (Joins(b) \/ Creation(b))
    /\ k.l = File(b) /\ k.r = (IF b.kind = "create_remote" THEN i ELSE b.r)
    /\ k.lh = (IF b.kind \in {"create_local", "update_local"} THEN LocalForm[k.l][b.rec] ELSE b.rec)
    /\ k.rh = (IF b.kind \in {"create_remote", "update_remote"} THEN RemoteForm[b.rec] ELSE b.rec)

LEMMA UntouchedYet ==
    ASSUME IInv, AgreeInv, FileInv, TitlesAreNames, Folder, NEW b \in pending
    PROVE  /\ b.l \notin touched /\ b.r \notin touched
           /\ File(b) \in LocalIds => File(b) \notin touched
           /\ \A r \in RemoteIds : remote[r] = None => r \notin touched
<1>1. phase = "apply" /\ Awaits(b) /\ WellFormed(b) /\ FileDue(b)
  BY DEF AgreeInv, IInv, TypeOK, FileInv
<1>2. (\A l \in touched \cap LocalIds : raw[l] # None) /\ \A r \in touched \cap RemoteIds : remote[r] # None
  BY <1>1 DEF AgreeInv, Held
<1> QED BY <1>1, <1>2 DEF Awaits, FileDue, File

LEMMA KnownThen ==
    ASSUME IInv, IInv', AgreeInv, FileInv, TitlesAreNames, Folder, NEW b \in pending, NEW i,
           Stores(b, i), UNCHANGED <<links, touched>> \/ Answered(b, i), saved' = saved
    PROVE  \A k \in Known' : k \in Known \/ Newly(b, i, k)
<1>1. /\ local \in Listings(LocalIds) /\ remote \in Listings(RemoteIds) /\ links \in SUBSET Link
      /\ LocalIds \cap RemoteIds = {} /\ None \notin LocalIds \cup RemoteIds \cup Values
      /\ WellFormed(b) /\ b.kind \in Kinds
  BY IdsAssumption DEF IInv, TypeOK, Action
<1>2. /\ b.l \notin touched /\ b.r \notin touched
      /\ Stores(b, i) /\ b.kind \in StoreKinds => i \notin touched
  <2>1. /\ b.l \notin touched /\ b.r \notin touched
        /\ File(b) \in LocalIds => File(b) \notin touched
        /\ \A r \in RemoteIds : remote[r] = None => r \notin touched
    BY UntouchedYet
  <2> QED BY <1>1, <2>1 DEF Stores, StoreKinds
<1>3. /\ \A j \in LocalIds : j # i \/ b.kind \notin StoreKinds => local'[j] = local[j]
      /\ \A j \in RemoteIds : j # i \/ b.kind \notin StoreKinds => remote'[j] = remote[j]
  BY <1>1 DEF Stores, StoreKinds, Listings
<1>4. touched' = touched \/ (Answered(b, i) /\ touched' = touched \cup {i} /\ b.kind \in {"create_local", "update_local", "create_remote", "update_remote"})
  BY DEF Answered, touch, Stores, File
(* The links it leaves are known as before, ...                            *)
<1>5. ASSUME NEW j \in links, touched' = touched \/ (j.l # i /\ j.r # i)
      PROVE  [j EXCEPT !.lh = IF j.l \in touched' /\ local'[j.l] # None THEN local'[j.l] ELSE @,
                       !.rh = IF j.r \in touched' /\ remote'[j.r] # None THEN remote'[j.r] ELSE @] \in Known
  <2>1. j.l \in LocalIds /\ j.r \in RemoteIds
    BY <1>1 DEF Link
  <2>2. /\ j.l \in touched' <=> j.l \in touched
        /\ j.r \in touched' <=> j.r \in touched
    BY <1>4, <1>5
  <2>3. /\ j.l \in touched => local'[j.l] = local[j.l]
        /\ j.r \in touched => remote'[j.r] = remote[j.r]
    BY <1>2, <1>3, <2>1
  <2> QED BY <2>2, <2>3 DEF Known, refresh_hashes
(* ... and the one it makes as the side written will list it.              *)
<1>6. ASSUME NEW l \in LocalIds, NEW r \in RemoteIds, Answered(b, i), Joins(b) \/ Creation(b),
             links' = with_link(links, Agreed(l, r, b.rec)),
             l = File(b), r = IF b.kind = "create_remote" THEN i ELSE b.r,
             NEW k \in refresh_hashes(links', local', remote', touched')
      PROVE  k \in Known \/ Newly(b, i, k)
  <2>1. PICK j \in links' :
          k = [j EXCEPT !.lh = IF j.l \in touched' /\ local'[j.l] # None THEN local'[j.l] ELSE @,
                        !.rh = IF j.r \in touched' /\ remote'[j.r] # None THEN remote'[j.r] ELSE @]
    BY <1>6 DEF refresh_hashes
  <2>2. touched' = touched \/ i \in {l, r}
    BY <1>1, <1>4, <1>6 DEF Stores, File
  <2>3. CASE j \in links /\ j.l # l /\ j.r # r
    <3>1. j.l \in LocalIds /\ j.r \in RemoteIds
      BY <1>1, <2>3 DEF Link
    <3>2. touched' = touched \/ (j.l # i /\ j.r # i)
      BY <1>1, <2>2, <2>3, <3>1, <1>6
    <3> QED BY <1>5, <2>1, <2>3, <3>2
  <2>4. CASE j = Agreed(l, r, b.rec)
    <3>1. j.l = l /\ j.r = r /\ j.lh = b.rec /\ j.rh = b.rec
      BY <2>4 DEF Agreed
    <3>2. /\ k.l = l /\ k.r = r
          /\ k.lh = IF l \in touched' /\ local'[l] # None THEN local'[l] ELSE b.rec
          /\ k.rh = IF r \in touched' /\ remote'[r] # None THEN remote'[r] ELSE b.rec
      BY <2>1, <2>4 DEF Agreed
    <3>3. b.rec \in Values /\ \A v \in Values : RemoteForm[v] \in Values /\ \A n \in LocalIds : LocalForm[n][v] \in Values
      BY <1>1, <1>6, FormsType DEF WellFormed, Joins, Creation
    <3>4. CASE b.kind \in {"create_local", "update_local"}
      <4>1. i = l /\ touched' = touched \cup {l} /\ local'[l] = LocalForm[l][b.rec] /\ r = b.r
        BY <1>6, <3>4 DEF Answered, Stores, touch, File
      <4>2. l \in touched' /\ r \notin touched'
        BY <1>1, <1>2, <4>1
      <4> QED BY <1>1, <1>6, <3>2, <3>3, <3>4, <4>1, <4>2 DEF Newly
    <3>5. CASE b.kind \in {"create_remote", "update_remote"}
      <4>1. i = r /\ touched' = touched \cup {r} /\ remote'[r] = RemoteForm[b.rec] /\ l = b.l
        BY <1>1, <1>6, <3>5 DEF Answered, Stores, touch, File, Listings
      <4>2. r \in touched' /\ l \notin touched'
        BY <1>1, <1>2, <4>1
      <4> QED BY <1>1, <1>6, <3>2, <3>3, <3>5, <4>1, <4>2 DEF Newly
    <3>6. CASE b.kind = "link"
      <4>1. touched' = touched /\ l = b.l /\ r = b.r
        BY <1>4, <1>6, <3>6 DEF File
      <4> QED BY <1>2, <1>6, <3>2, <3>6, <4>1 DEF Newly
    <3> QED BY <1>6, <3>4, <3>5, <3>6 DEF Joins, Creation
  <2> QED BY <1>6, <2>1, <2>3, <2>4 DEF with_link, Agreed
<1>7. ASSUME links' \subseteq links, touched' = touched, NEW k \in refresh_hashes(links', local', remote', touched')
      PROVE  k \in Known
  BY <1>5, <1>7 DEF refresh_hashes
<1>8. CASE UNCHANGED <<links, touched>>
  BY <1>7, <1>8 DEF Known
<1>9. CASE Answered(b, i)
  <2>1. CASE Joins(b)
    <3>1. links' = with_link(links, Agreed(b.l, b.r, b.rec)) /\ b.l \in LocalIds /\ b.r \in RemoteIds
      BY <1>1, <1>9, <2>1 DEF Answered, apply_one, Joins, WellFormed
    <3> QED BY <1>6, <1>9, <2>1, <3>1 DEF Known, File, Joins
  <2>2. CASE b.kind = "create_remote"
    <3>1. links' = with_link(links, Agreed(b.l, i, b.rec)) /\ b.l \in LocalIds /\ i \in RemoteIds
      BY <1>1, <1>9, <2>2 DEF Answered, apply_one, WellFormed, Stores
    <3> QED BY <1>6, <1>9, <2>2, <3>1 DEF Known, File, Creation
  <2>3. CASE b.kind = "create_local"
    <3>1. links' = with_link(links, Agreed(i, b.r, b.rec)) /\ i \in LocalIds /\ b.r \in RemoteIds /\ i = File(b)
      BY <1>1, <1>9, <2>3 DEF Answered, apply_one, WellFormed, Stores
    <3> QED BY <1>6, <1>9, <2>3, <3>1 DEF Known, Creation
  <2>4. CASE b.kind \in {"delete_local", "delete_remote", "unlink", "skip"}
    <3>1. links' \subseteq links /\ touched' = touched
      BY <1>9, <2>4 DEF Answered, apply_one, without, touch
    <3> QED BY <1>7, <3>1 DEF Known
  <2> QED BY <1>1, <2>1, <2>2, <2>3, <2>4 DEF Kinds, StoreKinds, Joins
<1> QED BY <1>8, <1>9

(* No other action to come is about the file of one that is ready, unless  *)
(* that one only links its pair.                                           *)
LEMMA OneFileOnce ==
    ASSUME IInv, FileInv, NEW b \in pending, Ready(b), Serves(b), b.kind # "link", NEW a \in pending, a # b, Serves(a)
    PROVE  /\ File(a) # File(b)
           /\ Reads(a) /\ Reads(b) /\ a.r \in RemoteIds /\ remote[a.r] # None => a.r # b.r
<1>1. File(a) # File(b)
  BY DEF FileInv, PairAndConflict, Ready
<1>2. ASSUME Reads(a), Reads(b), a.r \in RemoteIds, remote[a.r] # None PROVE a.r # b.r
  <2>1. Mates(File(a), a.r) /\ Mates(File(b), b.r)
    BY <1>2 DEF FileInv, FileDue
  <2> QED BY <1>1, <1>2, <2>1 DEF Mates
<1> QED BY <1>1, <1>2

(* What the links know stays as old, ...                                   *)
LEMMA DatedStays ==
    ASSUME IInv, IInv', FileInv, TitlesAreNames, ~Reuse, NEW age, TornIsKnown(age), TornInv(age),
           NEW b \in pending, NEW i, Stores(b, i), NEW k \in Known
    PROVE  Dated(k, age)'
<1>1. /\ local \in Listings(LocalIds) /\ remote \in Listings(RemoteIds)
      /\ LocalIds \cap RemoteIds = {} /\ None \notin LocalIds \cup RemoteIds \cup Values
      /\ WellFormed(b) /\ b.kind \in Kinds /\ FileDue(b) /\ TornDue(b, age)
  BY IdsAssumption DEF IInv, TypeOK, Action, FileInv, TornInv
<1>2. k \in Link /\ k.r \in used /\ Mates(k.l, k.r) /\ Dated(k, age)
  BY KnownLinks DEF TornInv
<1>3. k.l \in LocalIds /\ k.r \in RemoteIds /\ k.lh \in Values /\ k.rh \in Values
  BY <1>2 DEF Link
<1>4. CASE b.kind \in {"create_local", "update_local"}
  <2>1. i = File(b) /\ i \in LocalIds /\ remote' = remote /\ \A l \in LocalIds : l # i => local'[l] = local[l]
    BY <1>1, <1>4 DEF Stores, Listings
  <2>2. CASE k.l # i
    BY <1>2, <1>3, <2>1, <2>2 DEF Dated, Lists
  <2>3. CASE k.l = i
    <3>1. remote[k.r] # k.rh
      <4>1. b.r \in RemoteIds /\ b.rec \in Values /\ remote[b.r] = b.rec /\ Unseen(File(b), b.rec) /\ Mates(File(b), b.r)
        BY <1>1, <1>4 DEF WellFormed, TornDue, FileDue, Reads, Joins
      <4>2. k.rh # b.rec
        BY <2>1, <2>3, <4>1 DEF Unseen
      <4>3. SUFFICES ASSUME remote[k.r] = k.rh PROVE FALSE
        OBVIOUS
      <4>4. remote[k.r] # None
        BY <1>1, <1>3, <4>3
      <4>5. remote[b.r] # None
        BY <1>1, <4>1
      <4>6. Title(remote[b.r]) = i
        BY <2>1, <4>1, <4>5 DEF Mates
      <4>7. b.r = k.r
        BY <1>2, <2>3, <4>1, <4>5, <4>6 DEF Mates
      <4> QED BY <4>1, <4>2, <4>3, <4>7
    <3> QED BY <1>2, <2>1, <3>1 DEF Dated, Lists
  <2> QED BY <2>2, <2>3
<1>5. CASE b.kind = "delete_local"
  <2>1. remote' = remote /\ \A l \in LocalIds : local'[l] \in {local[l], None}
    BY <1>1, <1>5 DEF Stores, Listings
  <2> QED BY <1>2, <1>3, <2>1 DEF Dated, Lists
<1>6. CASE b.kind = "create_remote"
  <2>1. local' = local /\ i \notin used /\ \A r \in RemoteIds : r # i => remote'[r] = remote[r]
    BY <1>1, <1>6 DEF Stores, Listings
  <2>2. k.r # i
    BY <1>2, <2>1
  <2> QED BY <1>2, <1>3, <2>1, <2>2 DEF Dated, Lists
<1>7. CASE b.kind = "delete_remote"
  <2>1. local' = local /\ \A r \in RemoteIds : remote'[r] \in {remote[r], None}
    BY <1>1, <1>7 DEF Stores, Listings
  <2> QED BY <1>1, <1>2, <1>3, <2>1 DEF Dated, Lists
<1>8. CASE b.kind = "update_remote"
  <2>1. /\ i = b.r /\ i \in RemoteIds /\ remote[i] # None /\ local' = local /\ remote'[i] = RemoteForm[b.rec]
        /\ \A r \in RemoteIds : r # i => remote'[r] = remote[r]
    BY <1>1, <1>8 DEF Stores, Listings
  <2>2. CASE k.r # i
    BY <1>2, <1>3, <2>1, <2>2 DEF Dated, Lists
  <2>3. CASE k.r = i
    <3>1. /\ b.rec \in Values \ TornValues /\ remote[i] \in Values /\ RemoteForm[b.rec] \in Values /\ age[remote[i]] < age[b.rec]
          /\ age[RemoteForm[b.rec]] = age[b.rec]
      BY <1>1, <1>8, <2>1, FormsType DEF WellFormed, TornDue, TornIsKnown, Listings, Maybe
    <3>2. age[k.rh] \in Nat /\ age[remote[i]] \in Nat /\ age[b.rec] \in Nat
      BY <1>3, <3>1 DEF TornIsKnown
    <3>3. ~Lists(k.rh) \/ age[k.rh] < age[remote'[i]]
      <4>1. remote[i] = k.rh \/ ~Lists(k.rh) \/ age[k.rh] < age[remote[i]]
        BY <1>2, <2>1, <2>3 DEF Dated
      <4> QED BY <2>1, <3>1, <3>2, <4>1
    <3>4. Lists(remote'[i]) /\ remote'[i] \in Values
      BY <2>1, <3>1, FormsAssumption DEF Lists
    <3>5. remote'[i] # k.rh
      <4>1. age[remote'[i]] = age[b.rec]
        BY <2>1, <3>1
      <4> QED BY <3>2, <3>3, <3>4, <4>1
    <3>6. Lists(k.rh) => age[k.lh] = age[k.rh]
      BY <1>2 DEF Dated
    <3> QED BY <2>3, <3>3, <3>5, <3>6 DEF Dated, Lists
  <2> QED BY <2>2, <2>3
<1>9. CASE b.kind \in {"link", "unlink", "skip"}
  <2>1. local' = local /\ remote' = remote
    BY <1>9 DEF Stores
  <2> QED BY <1>2, <2>1 DEF Dated, Lists
<1> QED BY <1>1, <1>4, <1>5, <1>6, <1>7, <1>8, <1>9 DEF Kinds, StoreKinds

(* ... and a link just made knows what is there.                           *)
LEMMA DatedNewly ==
    ASSUME IInv, IInv', AgreeInv, FileInv, TitlesAreNames, NEW age, TornIsKnown(age), TornInv(age),
           NEW b \in pending, NEW i, Stores(b, i), NEW k, Newly(b, i, k)
    PROVE  Dated(k, age)'
<1>1. /\ local \in Listings(LocalIds) /\ remote \in Listings(RemoteIds) /\ remote' \in Listings(RemoteIds)
      /\ None \notin LocalIds \cup RemoteIds \cup Values
      /\ WellFormed(b) /\ b.kind \in Kinds /\ FileDue(b) /\ TornDue(b, age) /\ Listed
  BY IdsAssumption DEF IInv, TypeOK, Action, FileInv, TornInv
<1>2. b.rec \in Values /\ RemoteForm[b.rec] \in Values
  BY <1>1, FormsType DEF Newly, Joins, Creation, WellFormed
<1>3. CASE b.kind \in {"create_local", "update_local"}
  <2>1. i = File(b) /\ i \in LocalIds /\ remote' = remote /\ local'[i] = LocalForm[i][b.rec]
    BY <1>3 DEF Stores, Newly, Answered
  <2>2. k.l = i /\ k.r = b.r /\ k.lh = LocalForm[i][b.rec] /\ k.rh = b.rec
    BY <1>3, <2>1 DEF Newly
  <2>3. remote[b.r] = b.rec /\ b.r \in RemoteIds
    BY <1>1, <1>3 DEF TornDue, WellFormed
  <2>4. b.rec \notin TornValues
    BY <1>1, <1>2, <2>3 DEF Listed
  <2>5. age[k.lh] = age[k.rh]
    BY <1>2, <2>1, <2>2, <2>4 DEF TornIsKnown
  <2> QED BY <2>1, <2>2, <2>3, <2>5 DEF Dated, Lists
<1>4. CASE b.kind \in {"create_remote", "update_remote"}
  <2>1. i \in RemoteIds /\ local' = local /\ remote'[i] = RemoteForm[b.rec] /\ (b.kind = "update_remote" => i = b.r)
    BY <1>1, <1>4 DEF Stores, Listings
  <2>2. k.l = b.l /\ k.r = i /\ k.lh = b.rec /\ k.rh = RemoteForm[b.rec] /\ b.l \in LocalIds
    BY <1>1, <1>4, <2>1 DEF Newly, File, WellFormed
  <2>3. local[b.l] = b.rec /\ b.rec \notin TornValues
    BY <1>1, <1>4 DEF TornDue
  <2>4. age[k.lh] = age[k.rh]
    BY <1>2, <2>2, <2>3 DEF TornIsKnown
  <2> QED BY <2>1, <2>2, <2>3, <2>4 DEF Dated, Lists
<1>5. CASE b.kind = "link"
  <2>1. local' = local /\ remote' = remote /\ k.l = b.l /\ k.r = b.r /\ k.lh = b.rec /\ k.rh = b.rec /\ b.l \in LocalIds
    BY <1>1, <1>5 DEF Stores, Newly, File, WellFormed
  <2>2. local[b.l] = b.rec
    BY <1>1, <1>5 DEF TornDue
  <2>3. ~Lists(b.rec)
    BY <1>1, <1>2, <2>1, <2>2 DEF Listed
  <2> QED BY <2>1, <2>2, <2>3 DEF Dated, Lists
<1> QED BY <1>3, <1>4, <1>5 DEF Newly, Joins, Creation

LEMMA UnseenStays ==
    ASSUME IInv, IInv', AgreeInv, FileInv, TitlesAreNames, Folder, NEW b \in pending, NEW i,
           Stores(b, i), UNCHANGED <<links, touched>> \/ Answered(b, i), saved' = saved,
           NEW l, NEW v, \A k \in Known : k.l = l => k.rh # v,
           Answered(b, i) /\ (Joins(b) \/ Creation(b)) => l # File(b) \/ (b.kind = "link" /\ v # b.rec)
    PROVE  \A k \in Known' : k.l = l => k.rh # v
  BY KnownThen DEF Newly

LEMMA StoredAsListed ==
    ASSUME IInv, IInv', FileInv, TitlesAreNames, NEW age, TornIsKnown(age), TornInv(age), NEW b \in pending, NEW i, Stores(b, i)
    PROVE  Listed'
<1>1. /\ local \in Listings(LocalIds) /\ remote \in Listings(RemoteIds) /\ WellFormed(b) /\ b.kind \in Kinds
      /\ Listed /\ TornDue(b, age)
  BY DEF IInv, TypeOK, Action, TornInv
<1>2. \A l \in LocalIds : local'[l] # None => ~Lists(local'[l])
  <2>1. ASSUME b.kind \in {"create_local", "update_local"}, i \in LocalIds, NEW v \in {LocalForm[i][b.rec], TornForm[i][b.rec]}
        PROVE  ~Lists(v)
    BY <1>1, <2>1 DEF WellFormed, Lists, TornIsKnown
  <2> HIDE DEF Lists
  <2> QED BY <1>1, <2>1 DEF Stores, Listings, Listed
<1>3. \A r \in RemoteIds : remote'[r] # None => Lists(remote'[r]) /\ remote'[r] \notin TornValues
  <2>1. ASSUME b.kind \in {"create_remote", "update_remote"}
        PROVE  Lists(RemoteForm[b.rec]) /\ RemoteForm[b.rec] \notin TornValues
    <3>1. b.rec \in Values \ TornValues
      BY <1>1, <2>1 DEF WellFormed, TornDue
    <3> QED BY <3>1, FormsAssumption DEF Lists, TornIsKnown
  <2> HIDE DEF Lists
  <2> QED BY <1>1, <2>1 DEF Stores, Listings, Listed
<1> QED BY <1>2, <1>3 DEF Listed

LEMMA TornStaysUnseen ==
    ASSUME IInv, IInv', AgreeInv, FileInv, TitlesAreNames, Folder, ~Reuse, NEW age, TornIsKnown(age), TornInv(age),
           NEW b \in pending, NEW i, Stores(b, i), UNCHANGED <<links, touched>> \/ Answered(b, i), saved' = saved
    PROVE  TornIsUnseen'
<1>1. /\ local \in Listings(LocalIds) /\ remote \in Listings(RemoteIds) /\ None \notin LocalIds \cup RemoteIds \cup Values
      /\ WellFormed(b) /\ b.kind \in Kinds /\ FileDue(b) /\ TornDue(b, age) /\ Listed /\ TornIsUnseen
  BY IdsAssumption DEF IInv, TypeOK, Action, FileInv, TornInv
<1>2. None \notin TornValues
  BY <1>1, FormsType DEF TornValues
<1> SUFFICES ASSUME NEW l \in LocalIds, local'[l] \in TornValues
             PROVE  \E r \in RemoteIds : remote'[r] # None /\ Title(remote'[r]) = l /\ Unseen(l, remote[r])'
  BY DEF TornIsUnseen
<1>3. CASE b.kind \in {"create_local", "update_local"}
  <2>1. i = File(b) /\ i \in LocalIds /\ remote' = remote /\ \A n \in LocalIds : n # i => local'[n] = local[n]
    BY <1>1, <1>3 DEF Stores, Listings
  <2>2. b.r \in RemoteIds /\ b.rec \in Values /\ remote[b.r] = b.rec /\ Unseen(i, b.rec)
    BY <1>1, <1>3, <2>1 DEF WellFormed, TornDue
  <2>3. CASE l # i
    <3>1. PICK r \in RemoteIds : remote[r] # None /\ Title(remote[r]) = l /\ Unseen(l, remote[r])
      BY <1>1, <2>1, <2>3 DEF TornIsUnseen
    <3>2. Unseen(l, remote[r])'
      <4>1. \A k \in Known : k.l = l => k.rh # remote[r]
        BY <3>1 DEF Unseen
      <4>2. \A k \in Known' : k.l = l => k.rh # remote[r]
        BY <2>1, <2>3, <4>1, UnseenStays
      <4> QED BY <2>1, <4>2 DEF Unseen
    <3> QED BY <2>1, <3>1, <3>2
  <2>4. CASE l = i
    <3>1. ~Answered(b, i)
      <4>1. b.rec \notin TornValues
        BY <1>1, <2>2 DEF Listed
      <4>2. LocalForm[i][b.rec] \notin TornValues
        BY <2>1, <2>2, <4>1 DEF TornIsKnown
      <4> QED BY <1>3, <2>4, <4>2 DEF Answered
    <3>2. Unseen(i, b.rec)'
      <4>1. \A k \in Known' : k \in Known
        BY <3>1, KnownThen DEF Newly
      <4> QED BY <2>2, <4>1 DEF Unseen
    <3>3. Title(remote[b.r]) = i
      <4>1. Mates(File(b), b.r)
        BY <1>1, <1>3 DEF FileDue, Reads, Joins
      <4> QED BY <1>1, <2>1, <2>2, <4>1 DEF Mates
    <3>4. remote'[b.r] = b.rec /\ b.rec # None
      BY <1>1, <2>1, <2>2
    <3> QED BY <2>1, <2>2, <2>4, <3>2, <3>3, <3>4
  <2> QED BY <2>3, <2>4
<1>4. CASE b.kind \notin {"create_local", "update_local"}
  <2>1. local[l] \in TornValues
    BY <1>1, <1>2, <1>4 DEF Stores, Listings
  <2>2. PICK r \in RemoteIds : remote[r] # None /\ Title(remote[r]) = l /\ Unseen(l, remote[r])
    BY <1>1, <2>1 DEF TornIsUnseen
  <2>3. r # i \/ b.kind \in {"delete_local", "link", "unlink", "skip"}
    <3>1. CASE b.kind = "create_remote"
      BY <2>2, <3>1 DEF Stores
    <3>2. CASE b.kind \in {"update_remote", "delete_remote"}
      <4>1. Mates(b.l, b.r)
        BY <1>1, <3>2 DEF FileDue, Reads, Joins, File
      <4>2. local[b.l] \notin TornValues
        BY <1>1, <1>2, <3>2 DEF TornDue
      <4>3. i = b.r
        BY <3>2 DEF Stores
      <4> QED BY <2>1, <2>2, <4>1, <4>2, <4>3 DEF Mates
    <3> QED BY <1>1, <1>4, <3>1, <3>2 DEF Kinds, StoreKinds
  <2>4. remote'[r] = remote[r]
    BY <1>1, <1>4, <2>2, <2>3 DEF Stores, Listings
  <2>5. Lists(remote[r]) /\ \A k \in Known : k.l = l => k.rh # remote[r]
    BY <1>1, <2>2 DEF Listed, Unseen
  <2>6. Joins(b) \/ Creation(b) => l # b.l \/ (b.kind = "link" /\ remote[r] # b.rec)
    <3>1. CASE b.kind \in {"create_remote", "update_remote"}
      BY <1>1, <2>1, <3>1 DEF TornDue
    <3>2. CASE b.kind = "link"
      <4>1. local[b.l] = b.rec /\ b.l \in LocalIds /\ b.rec \in Values
        BY <1>1, <3>2 DEF TornDue, WellFormed
      <4>2. ~Lists(b.rec)
        BY <1>1, <4>1 DEF Listed
      <4> QED BY <2>5, <3>2, <4>2
    <3> QED BY <1>4, <3>1, <3>2 DEF Joins, Creation
  <2>7. \A k \in Known' : k.l = l => k.rh # remote[r]
    BY <1>4, <2>5, <2>6, UnseenStays DEF File
  <2>8. Unseen(l, remote[r])'
    BY <2>4, <2>7 DEF Unseen
  <2> QED BY <2>2, <2>4, <2>8
<1> QED BY <1>3, <1>4

LEMMA TornStaysDue ==
    ASSUME IInv, IInv', AgreeInv, FileInv, TitlesAreNames, Folder, ~Reuse, NEW age, TornIsKnown(age), TornInv(age),
           NEW b \in pending, Ready(b), NEW i, Stores(b, i), UNCHANGED <<links, touched>> \/ Answered(b, i), saved' = saved,
           NEW a \in pending, a # b
    PROVE  TornDue(a, age)'
<1>1. /\ local \in Listings(LocalIds) /\ remote \in Listings(RemoteIds) /\ None \notin LocalIds \cup RemoteIds \cup Values
      /\ WellFormed(b) /\ b.kind \in Kinds /\ FileDue(b) /\ TornDue(b, age) /\ Listed
      /\ WellFormed(a) /\ a.kind \in Kinds /\ FileDue(a) /\ TornDue(a, age)
  BY IdsAssumption DEF IInv, TypeOK, Action, FileInv, TornInv
<1>2. ASSUME Serves(a), Serves(b), b.kind # "link"
      PROVE  File(a) # File(b) /\ (Reads(a) /\ Reads(b) /\ a.r \in RemoteIds /\ remote[a.r] # None => a.r # b.r)
  BY <1>2, OneFileOnce
(* The records of the others stay as they are, ...                         *)
<1>3. ASSUME a.kind \in {"create_remote", "update_remote", "link", "delete_remote"}
      PROVE  local'[a.l] = local[a.l]
  <2>1. Serves(a) /\ File(a) = a.l /\ a.l \in LocalIds
    BY <1>1, <1>3 DEF Serves, File, WellFormed, TornDue
  <2>2. CASE b.kind \in {"create_local", "update_local", "delete_local"}
    <3>1. Serves(b) /\ i = File(b) /\ i \in LocalIds
      BY <2>2 DEF Serves, File, Stores
    <3>2. a.l # i
      BY <1>2, <2>1, <2>2, <3>1
    <3> QED BY <1>1, <2>1, <2>2, <3>1, <3>2 DEF Stores, Listings
  <2> QED BY <1>1, <2>2 DEF Stores, Kinds, StoreKinds
<1>4. ASSUME a.kind \in {"create_local", "update_local", "update_remote"}, remote[a.r] # None
      PROVE  remote'[a.r] = remote[a.r]
  <2>1. Serves(a) /\ Reads(a) /\ a.r \in RemoteIds /\ a.r \in used
    BY <1>1, <1>4 DEF Serves, Reads, Joins, WellFormed, FileDue
  <2>2. CASE b.kind = "create_remote"
    BY <1>1, <2>1, <2>2 DEF Stores, Listings
  <2>3. CASE b.kind \in {"update_remote", "delete_remote"}
    <3>1. Serves(b) /\ Reads(b) /\ i = b.r
      BY <2>3 DEF Serves, Reads, Joins, Stores
    <3>2. a.r # i
      BY <1>2, <1>4, <2>1, <2>3, <3>1
    <3> QED BY <1>1, <2>1, <2>3, <3>1, <3>2 DEF Stores, Listings
  <2> QED BY <1>1, <2>2, <2>3 DEF Stores, Kinds, StoreKinds
(* ... and stay unseen.                                                    *)
<1>5. ASSUME a.kind \in {"create_local", "update_local"}
      PROVE  (remote[a.r] = a.rec /\ Unseen(File(a), a.rec))'
  <2>1. remote[a.r] = a.rec /\ a.r \in RemoteIds /\ a.rec \in Values /\ Serves(a) /\ \A k \in Known : k.l = File(a) => k.rh # a.rec
    BY <1>1, <1>5 DEF TornDue, WellFormed, Serves, Unseen
  <2>2. b.kind = "link" => a.rec # b.rec
    <3>1. b.kind = "link" => local[b.l] = b.rec /\ b.l \in LocalIds /\ b.rec \in Values
      BY <1>1 DEF TornDue, WellFormed
    <3>2. Lists(a.rec)
      BY <1>1, <2>1 DEF Listed
    <3>3. b.kind = "link" => ~Lists(b.rec)
      BY <1>1, <3>1 DEF Listed
    <3> QED BY <3>2, <3>3
  <2>3. Joins(b) \/ Creation(b) => File(a) # File(b) \/ (b.kind = "link" /\ a.rec # b.rec)
    BY <1>2, <2>1, <2>2 DEF Serves, Joins, Creation
  <2>4. \A k \in Known' : k.l = File(a) => k.rh # a.rec
    BY <2>1, <2>3, UnseenStays
  <2>5. remote'[a.r] = a.rec
    BY <1>1, <1>4, <1>5, <2>1
  <2> QED BY <2>4, <2>5 DEF Unseen, File
<1>6. ASSUME a.kind = "update_remote", remote'[a.r] # None
      PROVE  age[remote'[a.r]] < age[a.rec]
  <2>1. a.r \in RemoteIds /\ a.r \in used
    BY <1>1, <1>6 DEF WellFormed, FileDue, Reads, Joins
  <2>2. remote[a.r] # None
    <3>1. SUFFICES ASSUME remote[a.r] = None PROVE FALSE
      OBVIOUS
    <3>2. i # a.r \/ b.kind \notin {"create_remote", "update_remote"}
      BY <2>1, <3>1 DEF Stores
    <3> QED BY <1>1, <1>6, <2>1, <3>1, <3>2 DEF Stores, Listings
  <2> QED BY <1>1, <1>4, <1>6, <2>2 DEF TornDue
<1> QED BY <1>1, <1>3, <1>5, <1>6 DEF TornDue

(* An action keeps what is known of the torn files.                        *)
LEMMA TornAction ==
    ASSUME IInv, IInv', AgreeInv, FileInv, TitlesAreNames, Folder, ~Reuse, NEW age, TornIsKnown(age), TornInv(age),
           NEW b \in pending, Apply(b) \/ Refuse(b) \/ Fail(b) \/ LoseAnswer(b) \/ CutUpload(b)
    PROVE  TornInv(age)'
<1>1. pending' = pending \ {b} /\ saved' = saved /\ phase' = phase /\ args' = args /\ Ready(b)
  BY DEF Apply, Refuse, Fail, LoseAnswer, CutUpload, Error, Done
<1>2. PICK i \in Maybe(Ids) : FileCall(b, i)
  BY FileCalls
<1>3. PulledFirst'
  BY <1>1 DEF TornInv, PulledFirst
<1>4. CASE UNCHANGED <<local, remote, links, touched, raw>>
  <2>1. Known' = Known
    BY <1>1, <1>4 DEF Known
  <2>2. \A l, v : Unseen(l, v) => Unseen(l, v)'
    BY <2>1 DEF Unseen
  <2> QED BY <1>1, <1>3, <1>4, <2>1, <2>2 DEF TornInv, Listed, TornIsUnseen, Dated, TornDue, Lists, File, Title, Unseen
<1>5. CASE Stores(b, i) /\ (UNCHANGED <<links, touched>> \/ Answered(b, i))
  <2>1. Listed' /\ TornIsUnseen'
    BY <1>1, <1>5, StoredAsListed, TornStaysUnseen
  <2>2. \A k \in Known' : Dated(k, age)'
    <3> SUFFICES ASSUME NEW k \in Known' PROVE Dated(k, age)'
      OBVIOUS
    <3>1. k \in Known \/ Newly(b, i, k)
      BY <1>1, <1>5, KnownThen
    <3> QED BY <1>5, <3>1, DatedStays, DatedNewly
  <2>3. ASSUME NEW a \in pending' PROVE TornDue(a, age)'
    <3>1. a \in pending /\ a # b
      BY <1>1
    <3> QED BY <1>1, <1>5, <3>1, TornStaysDue
  <2> QED BY <1>3, <2>1, <2>2, <2>3 DEF TornInv
<1> QED BY <1>2, <1>4, <1>5 DEF FileCall

(* What a plan finds torn it pulls again, and nothing else overwrites the  *)
(* modern record.                                                          *)
LEMMA TornPlan ==
    ASSUME IInv, IInv', SettleInv, AgreeInv, FileInv, TitlesAreNames, NEW age, TornIsKnown(age), TornInv(age), Plan
    PROVE  TornInv(age)'
<1>1. /\ UNCHANGED <<local, remote, saved, links, touched, args>> /\ phase = "listed"
      /\ links \in SUBSET Link /\ OneToOne(links)
      /\ local \in Listings(LocalIds) /\ remote \in Listings(RemoteIds) /\ touched = {}
      /\ None \notin LocalIds \cup RemoteIds \cup Values
  BY IdsAssumption DEF Plan, stores, IInv, TypeOK, LinksOneToOne, AgreeInv
<1>2. Listing(remote) = remote /\ Listing(local) = local
  BY <1>1 DEF Listing, FileInv, Listings
<1>3. localItems = local /\ links = saved
  BY <1>1, <1>2 DEF AgreeInv, SettleInv, OnDevice
<1>4. PICK P \in Pairings(local, remote, links) : pending' = plan(local, remote, links, P, args)
  BY <1>2, <1>3 DEF Plan
<1>5. /\ Known = links /\ Known' = Known
      /\ \A k \in Known : Mates(k.l, k.r) /\ Dated(k, age)
      /\ writes_local(args) /\ args.prefer = "remote" /\ TornIsUnseen /\ Listed
  BY <1>1, <1>3, KnownLinks DEF Known, TornInv, PulledFirst
<1>6. FileInv' /\ \A a \in pending' : WellFormed(a)
  BY FilePlan DEF IInv, TypeOK
<1>7. ASSUME NEW k \in links, NEW a \in plan_link(k, local, remote, args) PROVE TornDue(a, age)'
  <2>1. k.l \in LocalIds /\ k.r \in RemoteIds /\ a.l = k.l /\ a.r = k.r
    BY <1>1, LinkActions DEF Link
  <2>2. /\ a.kind = "update_local" => a.rec = remote[k.r] /\ remote[k.r] # k.rh
        /\ a.kind = "update_remote" => /\ a.rec = local[k.l] /\ local[k.l] \notin {None, k.lh}
                                       /\ remote[k.r] = k.rh /\ remote[k.r] # None
        /\ a.kind = "link" => a.rec = local[k.l]
        /\ a.kind = "delete_remote" => local[k.l] = None
        /\ a.kind \notin {"create_local", "create_remote"}
    BY <1>5, <1>7 DEF plan_link, push, pull, resolve_conflict, Act
  <2>3. a.kind = "update_local" => \A j \in Known : j.l = k.l => j.rh # a.rec
    BY <1>1, <1>5, <2>2 DEF OneToOne
  <2>4. ASSUME a.kind = "update_remote" PROVE a.rec \notin TornValues /\ age[remote[k.r]] < age[a.rec]
    <3>1. age[remote[k.r]] < age[a.rec]
      BY <1>5, <2>2, <2>4 DEF Dated
    <3>2. SUFFICES ASSUME local[k.l] \in TornValues PROVE FALSE
      BY <2>2, <2>4, <3>1
    <3>3. PICK r \in RemoteIds : remote[r] # None /\ Title(remote[r]) = k.l /\ Unseen(k.l, remote[r])
      BY <1>5, <2>1, <3>2 DEF TornIsUnseen
    <3>4. r = k.r
      BY <1>5, <3>3 DEF Mates
    <3> QED BY <1>5, <2>2, <2>4, <3>3, <3>4 DEF Unseen
  <2> QED BY <1>1, <1>5, <2>1, <2>2, <2>3, <2>4 DEF TornDue, Unseen, File
<1>8. ASSUME NEW p \in P, NEW a \in pair(p[1], p[2], local[p[1]], remote[p[2]], args) PROVE TornDue(a, age)'
  <2>1. p[1] \in new_local(local, links)
    BY DEF Pairings
  <2>2. a.l = p[1] /\ a.r = p[2] /\ \/ a.kind = "link" /\ a.rec = local[p[1]]
                                    \/ a.kind = "update_local" /\ a.rec = remote[p[2]]
    BY <1>5, <1>8 DEF pair, resolve_conflict, Act
  <2>3. \A k \in Known : k.l # p[1]
    BY <1>5, <2>1 DEF new_local
  <2> QED BY <1>1, <1>5, <2>2, <2>3 DEF TornDue, Unseen, File
<1>9. ASSUME NEW l \in new_local(local, links), NEW a \in pending', a = unpaired_local(l, local[l], args) PROVE TornDue(a, age)'
  <2>1. l \in LocalIds /\ a.l = l /\ (a.kind = "skip" \/ (a.kind = "create_remote" /\ a.rec = local[l]))
    BY <1>1, <1>9 DEF unpaired_local, Act, new_local, Present, Listings
  <2>2. a.kind = "create_remote" => \A r \in RemoteIds : remote[r] # None => Title(remote[r]) # l
    BY <1>1, <1>6, <1>9, <2>1 DEF FileInv, FileDue
  <2>3. a.kind = "create_remote" => local[l] \notin TornValues
    BY <1>5, <2>1, <2>2 DEF TornIsUnseen
  <2> QED BY <1>1, <2>1, <2>3 DEF TornDue
<1>10. ASSUME NEW r \in new_remote(remote, links), NEW a \in pending', a = unpaired_remote(r, remote[r], args) PROVE TornDue(a, age)'
  <2>1. r \in RemoteIds /\ remote[r] # None /\ a.r = r /\ (a.kind = "skip" \/ (a.kind = "create_local" /\ a.rec = remote[r]))
    BY <1>1, <1>10 DEF unpaired_remote, Act, new_remote, Present, Listings
  <2>2. \A k \in Known : k.l # Title(remote[r])
    <3> SUFFICES ASSUME NEW k \in Known, k.l = Title(remote[r]) PROVE FALSE
      OBVIOUS
    <3>1. k.r = r
      BY <1>5, <2>1 DEF Mates
    <3> QED BY <1>5, <3>1 DEF new_remote
  <2> QED BY <1>1, <1>5, <2>1, <2>2 DEF TornDue, Unseen, File
<1>11. \A a \in pending' : TornDue(a, age)'
  BY <1>4, <1>7, <1>8, <1>9, <1>10, PlanCases
<1>12. PulledFirst' /\ Listed' /\ TornIsUnseen' /\ \A k \in Known' : Dated(k, age)'
  BY <1>1, <1>5 DEF PulledFirst, Listed, TornIsUnseen, Dated, Unseen, Lists
<1> QED BY <1>11, <1>12 DEF TornInv

(* An edit is newer than what any link knows.                              *)
LEMMA TornUser ==
    ASSUME IInv, IInv', SettleInv, FileInv, TitlesAreNames, ~Unreadable, ~Interfere, NEW age, TornIsKnown(age), TornInv(age), User
    PROVE  TornInv(age)'
<1>1. /\ phase = "idle" /\ pending' = {} /\ UNCHANGED <<saved, links, touched, phase>> /\ touched = {}
      /\ local \in Listings(LocalIds) /\ remote \in Listings(RemoteIds) /\ Creates = {}
      /\ LocalIds \cap RemoteIds = {} /\ None \notin LocalIds \cup RemoteIds \cup Values
  BY IdsAssumption DEF User, UserCreates, UserEdits, UserDeletesRecord, ReadabilityChanges, UserStep, memory, SettleInv,
                       IInv, TypeOK, TitlesAreNames
<1>2. /\ Known = saved \cup links /\ Known' = saved \cup links
      /\ \A k \in Known : k \in Link /\ Mates(k.l, k.r) /\ Dated(k, age)
      /\ Listed /\ TornIsUnseen
  <2>1. links \in SUBSET Link
    BY DEF IInv, TypeOK
  <2>2. Known' = saved \cup links
    BY <1>1, <2>1, NothingRefreshed DEF Known
  <2> QED BY <1>1, <2>2, KnownLinks DEF TornInv
<1>3. ASSUME Listed', TornIsUnseen', \A k \in Known : Dated(k, age)'
      PROVE  TornInv(age)'
  BY <1>1, <1>2, <1>3 DEF TornInv, PulledFirst
<1>4. None \notin TornValues
  BY <1>1, FormsType DEF TornValues
<1>5. CASE UserEdits
  <2>1. PICK e \in Edits :
           \/ \E i \in LocalIds : local[i] = e[1] /\ UserPutsLocal(i, e[2])
           \/ \E i \in RemoteIds : remote[i] = e[1] /\ UserPutsRemote(i, e[2])
    BY <1>5 DEF UserEdits
  <2>2. /\ e[1] \in Values /\ e[2] \in Values \ TornValues /\ e[1] # None /\ age[e[1]] < age[e[2]]
        /\ Title(e[1]) = Title(e[2]) /\ Title(RemoteForm[e[2]]) = Title(e[2])
    BY <1>1, StoresAssumption DEF TornIsKnown, TitlesAreNames
  <2>3. \A v \in Values : age[v] \in Nat
    BY DEF TornIsKnown
  <2>4. CASE \E i \in LocalIds : local[i] = e[1] /\ UserPutsLocal(i, e[2])
    <3>1. PICK i \in LocalIds : local[i] = e[1] /\ local' = [local EXCEPT ![i] = LocalForm[i][e[2]]] /\ remote' = remote
      BY <2>4 DEF UserPutsLocal
    <3> DEFINE w == LocalForm[i][e[2]]
    <3>2. w \in Values \ TornValues /\ age[w] = age[e[2]] /\ ~Lists(w)
      BY <2>2, FormsType DEF TornIsKnown, Lists
    <3> HIDE DEF w
    <3>3. \A l \in LocalIds : local'[l] = IF l = i THEN w ELSE local[l]
      BY <1>1, <3>1 DEF Listings, w
    <3>4. Listed'
      <4> HIDE DEF Lists
      <4> QED BY <1>2, <3>1, <3>2, <3>3 DEF Listed
    <3>5. TornIsUnseen'
      <4> HIDE DEF Title
      <4> QED BY <1>2, <3>1, <3>2, <3>3 DEF TornIsUnseen, Unseen
    <3>6. ASSUME NEW k \in Known PROVE Dated(k, age)'
      <4>1. k.l \in LocalIds /\ k.rh \in Values /\ k.lh \in Values /\ k.r \in RemoteIds /\ Dated(k, age)
        BY <1>2 DEF Link
      <4>2. remote[k.r] = k.rh /\ k.l = i => age[k.rh] < age[w]
        <5>1. remote[k.r] = k.rh => Lists(k.rh)
          BY <1>1, <1>2, <4>1 DEF Listed
        <5>2. remote[k.r] = k.rh /\ k.l = i => age[k.rh] = age[e[1]] \/ age[k.rh] < age[e[1]]
          BY <2>2, <3>1, <4>1, <5>1 DEF Dated
        <5>3. age[k.rh] \in Nat /\ age[e[1]] \in Nat /\ age[e[2]] \in Nat /\ age[w] = age[e[2]]
          BY <2>2, <2>3, <3>2, <4>1
        <5> QED BY <2>2, <5>2, <5>3
      <4> QED BY <3>1, <3>3, <4>1, <4>2 DEF Dated, Lists
    <3> QED BY <1>3, <3>4, <3>5, <3>6
  <2>5. CASE \E i \in RemoteIds : remote[i] = e[1] /\ UserPutsRemote(i, e[2])
    <3>1. PICK i \in RemoteIds : remote[i] = e[1] /\ remote' = [remote EXCEPT ![i] = RemoteForm[e[2]]] /\ local' = local
      BY <2>5 DEF UserPutsRemote
    <3> DEFINE w == RemoteForm[e[2]]
    <3>2. w \in Values \ TornValues /\ age[w] = age[e[2]] /\ Lists(w) /\ Title(w) = Title(remote[i]) /\ remote[i] # None
      BY <2>2, <3>1, FormsAssumption, FormsType DEF TornIsKnown, Lists
    <3> HIDE DEF w
    <3>3. \A r \in RemoteIds : remote'[r] = IF r = i THEN w ELSE remote[r]
      BY <1>1, <3>1 DEF Listings, w
    <3>4. Listed'
      <4> HIDE DEF Lists
      <4> QED BY <1>2, <3>1, <3>2, <3>3 DEF Listed
    <3>5. ASSUME NEW k \in Known, k.r = i PROVE k.rh # w /\ (~Lists(k.rh) \/ age[k.rh] < age[w])
      <4>1. k.rh \in Values /\ Dated(k, age)
        BY <1>2 DEF Link
      <4>2. ~Lists(k.rh) \/ age[k.rh] = age[e[1]] \/ age[k.rh] < age[e[1]]
        BY <2>2, <3>1, <3>5, <4>1 DEF Dated
      <4>3. age[k.rh] \in Nat /\ age[e[1]] \in Nat /\ age[e[2]] \in Nat /\ age[w] = age[e[2]]
        BY <2>2, <2>3, <3>2, <4>1
      <4>4. ~Lists(k.rh) \/ age[k.rh] < age[w]
        BY <2>2, <4>2, <4>3
      <4>5. k.rh # w
        BY <3>2, <4>3, <4>4
      <4> QED BY <4>4, <4>5
    <3>6. TornIsUnseen'
      <4> SUFFICES ASSUME NEW l \in LocalIds, local[l] \in TornValues
                   PROVE  \E r \in RemoteIds : remote'[r] # None /\ Title(remote'[r]) = l /\ \A k \in Known : k.l = l => k.rh # remote'[r]
        BY <1>2, <3>1 DEF TornIsUnseen, Unseen
      <4>1. PICK r \in RemoteIds : remote[r] # None /\ Title(remote[r]) = l /\ Unseen(l, remote[r])
        BY <1>2 DEF TornIsUnseen
      <4>2. CASE r # i
        BY <3>3, <4>1, <4>2 DEF Unseen
      <4>3. CASE r = i
        <5>1. \A k \in Known : k.l = l => k.rh # w
          BY <1>2, <3>5, <4>1, <4>3 DEF Mates
        <5>2. w # None
          BY <1>1, <3>2
        <5> QED BY <3>2, <3>3, <4>1, <4>3, <5>1, <5>2
      <4> QED BY <4>2, <4>3
    <3>7. ASSUME NEW k \in Known PROVE Dated(k, age)'
      <4>1. k.r \in RemoteIds /\ Dated(k, age)
        BY <1>2 DEF Link
      <4>2. k.r = i => k.rh # w /\ (~Lists(k.rh) \/ age[k.rh] < age[w])
        BY <3>5
      <4> QED BY <3>1, <3>3, <4>1, <4>2 DEF Dated, Lists
    <3> QED BY <1>3, <3>4, <3>6, <3>7
  <2> QED BY <2>1, <2>4, <2>5
<1>6. CASE UserDeletesRecord
  <2>1. PICK i \in LocalIds : /\ local' = [j \in LocalIds |-> IF j = i THEN None ELSE local[j]]
                              /\ remote' = [j \in RemoteIds |-> IF j = i THEN None ELSE remote[j]]
    BY <1>6 DEF UserDeletesRecord, TornIsKnown
  <2>2. remote' = remote /\ \A l \in LocalIds : local'[l] \in {None, local[l]}
    BY <1>1, <2>1 DEF Listings
  <2>3. Listed'
    <3> HIDE DEF Lists
    <3> QED BY <1>2, <2>2 DEF Listed
  <2>4. TornIsUnseen'
    <3> HIDE DEF Title
    <3> QED BY <1>2, <1>4, <2>2 DEF TornIsUnseen, Unseen
  <2>5. \A k \in Known : Dated(k, age)'
    BY <1>2, <2>2 DEF Dated, Lists, Link
  <2> QED BY <1>3, <2>3, <2>4, <2>5
<1> QED BY <1>1, <1>5, <1>6 DEF User, UserCreates, ReadabilityChanges

LEMMA TornStep ==
    ASSUME IInv, IInv', SettleInv, AgreeInv, FileInv, TitlesAreNames, Folder, ~Reuse, ~Unreadable, ~Interfere,
           NEW age, TornIsKnown(age), TornInv(age), [Next]_vars
    PROVE  TornInv(age)'
<1>1. ASSUME UNCHANGED <<local, remote>>, Known' \subseteq Known, pending' = {}, PulledFirst'
      PROVE  TornInv(age)'
  <2>1. \A l, v : Unseen(l, v) => \A k \in Known' : k.l = l => k.rh # v
    BY <1>1 DEF Unseen
  <2>2. Listed' /\ TornIsUnseen'
    BY <1>1, <2>1 DEF TornInv, Listed, TornIsUnseen, Unseen, Lists
  <2>3. \A k \in Known' : Dated(k, age)'
    BY <1>1 DEF TornInv, Dated, Lists
  <2> QED BY <1>1, <2>2, <2>3 DEF TornInv
<1>2. links \in SUBSET Link /\ saved \in SUBSET Link /\ local \in Listings(LocalIds) /\ remote \in Listings(RemoteIds)
  BY DEF IInv, TypeOK
<1>3. ASSUME links' = {} PROVE Known' = saved'
  BY <1>3 DEF Known, refresh_hashes
<1>4. CASE User
  BY <1>4, TornUser
<1>5. CASE \E o \in Runs : Start(o)
  <2>1. PICK o \in Runs : Start(o)
    BY <1>5
  <2>2. UNCHANGED <<local, remote, saved, pending, touched>> /\ links' = saved /\ phase = "idle" /\ args' = o
    BY <2>1 DEF Start, stores
  <2>3. pending = {} /\ touched = {}
    BY <2>2 DEF SettleInv
  <2>4. Known' = saved
    BY <1>2, <2>2, <2>3, NothingRefreshed DEF Known
  <2>5. PulledFirst'
    BY <2>2 DEF PulledFirst, TornIsKnown
  <2> QED BY <1>1, <2>2, <2>3, <2>4, <2>5 DEF Known
<1>6. CASE Plan
  BY <1>6, TornPlan
<1>7. CASE DryRun \/ Crash
  <2>1. UNCHANGED <<local, remote, saved>> /\ pending' = {} /\ links' = {} /\ phase' = "idle"
    BY <1>7 DEF DryRun, Crash, Exit, stores
  <2> QED BY <1>1, <1>3, <2>1 DEF Known, PulledFirst
<1>8. CASE SaveUntouched
  <2>1. UNCHANGED <<local, remote>> /\ saved' = links /\ touched = {} /\ pending' = {} /\ links' = {} /\ phase' = "idle"
    BY <1>8 DEF SaveUntouched, Exit, stores
  <2>2. links \subseteq Known
    BY <1>2, <2>1, NothingRefreshed DEF Known
  <2> QED BY <1>1, <1>3, <2>1, <2>2 DEF PulledFirst
<1>9. CASE SaveRefreshed
  <2>1. /\ UNCHANGED <<local, remote>> /\ saved' = refresh_hashes(links, localItems, Listing(remote), touched)
        /\ pending' = {} /\ links' = {} /\ phase' = "idle" /\ phase = "relisted"
    BY <1>9 DEF SaveRefreshed, Exit, stores
  <2>2. Listing(remote) = remote /\ Listing(local) = local
    BY <1>2 DEF Listing, FileInv, Listings
  <2>3. localItems = local
    BY <2>1, <2>2 DEF AgreeInv, OnDevice
  <2>4. Known' \subseteq Known
    BY <1>3, <2>1, <2>2, <2>3 DEF Known
  <2> QED BY <1>1, <2>1, <2>4 DEF PulledFirst
<1>10. CASE Relist
  <2>1. UNCHANGED <<local, remote, saved, links, touched, pending, args>> /\ pending = {} /\ phase = "apply"
    BY <1>10 DEF Relist, stores
  <2>2. PulledFirst'
    BY <2>1 DEF TornInv, PulledFirst
  <2> QED BY <1>1, <2>1, <2>2 DEF Known
<1>11. CASE StateLost
  <2>1. UNCHANGED <<local, remote, links, touched, pending, phase>> /\ saved' = {} /\ phase = "idle"
    BY <1>11 DEF StateLost, stores, memory
  <2>2. pending = {}
    BY <2>1 DEF SettleInv
  <2> QED BY <1>1, <2>1, <2>2 DEF Known, PulledFirst
<1>12. CASE UNCHANGED vars
  <2>1. UNCHANGED <<local, remote, saved, links, touched, pending, phase, args>>
    BY <1>12 DEF vars, stores, memory
  <2>2. Known' = Known
    BY <2>1 DEF Known
  <2>3. Listed' /\ TornIsUnseen' /\ PulledFirst' /\ (\A k \in Known' : Dated(k, age)') /\ \A a \in pending' : TornDue(a, age)'
    BY <2>1, <2>2 DEF TornInv, Listed, TornIsUnseen, PulledFirst, Dated, TornDue, Unseen, Lists, File
  <2> QED BY <2>3 DEF TornInv
<1>13. ASSUME NEW b \in pending, Apply(b) \/ Refuse(b) \/ Fail(b) \/ LoseAnswer(b) \/ CutUpload(b)
       PROVE  TornInv(age)'
  BY <1>13, TornAction
<1> QED BY <1>4, <1>5, <1>6, <1>7, <1>8, <1>9, <1>10, <1>11, <1>12, <1>13 DEF Next, Sync, Trouble

LEMMA InitTorn ==
    ASSUME NEW age, TornIsKnown(age)
    PROVE  Init => TornInv(age)
<1> SUFFICES ASSUME Init PROVE TornInv(age)
  OBVIOUS
<1>1. local \in InitLocal /\ remote \in InitRemote /\ saved = {} /\ links = {} /\ pending = {} /\ phase = "idle"
  BY DEF Init
<1>2. local \in Listings(LocalIds) /\ remote \in Listings(RemoteIds)
  BY <1>1, StoresAssumption
<1>3. ASSUME NEW l \in LocalIds, local[l] # None PROVE ~Lists(local[l]) /\ local[l] \notin TornValues
  <2>1. PICK v \in Values \ TornValues : local[l] = LocalForm[l][v]
    BY <1>1, <1>2, <1>3 DEF TornIsKnown, Present, Listings
  <2> QED BY <2>1 DEF TornIsKnown, Lists
<1>4. ASSUME NEW r \in RemoteIds, remote[r] # None PROVE Lists(remote[r]) /\ remote[r] \notin TornValues
  <2>1. PICK v \in Values \ TornValues : remote[r] = RemoteForm[v]
    BY <1>1, <1>2, <1>4 DEF TornIsKnown, Present, Listings
  <2> QED BY <2>1, FormsAssumption DEF TornIsKnown, Lists
<1>5. Known = {}
  BY <1>1 DEF Known, refresh_hashes
<1>6. None \notin TornValues
  BY FormsType, IdsAssumption DEF TornValues
<1>7. Listed /\ TornIsUnseen
  <2> HIDE DEF Lists
  <2> QED BY <1>3, <1>4, <1>6 DEF Listed, TornIsUnseen
<1> QED BY <1>1, <1>5, <1>7 DEF TornInv, PulledFirst

(* On a folder account synced with `--prefer remote': what an interrupted  *)
(* upload left in a file is gone from both sides after every clean two-way *)
(* run, also when several uploads were cut, the process died, answers or   *)
(* the state file were lost and the user edited either side in between     *)
(* (engine.py, apply and plan; filestore.py, create and update).           *)
THEOREM TornUploadsAreRepaired ==
    ASSUME Folder, ~Reuse, ~Unreadable, ~Interfere, TitlesAreNames, NEW age, TornIsKnown(age)
    PROVE  Spec => []TornIsRepaired
<1> DEFINE Inv == IInv /\ SettleInv /\ AgreeInv /\ FileInv /\ TornInv(age)
<1>1. Inv => TornIsRepaired
  <2> SUFFICES ASSUME Inv, settled, NEW i \in Ids
               PROVE  (IF i \in LocalIds THEN local[i] ELSE remote[i]) \notin TornValues
    BY DEF TornIsRepaired
  <2>1. local \in Listings(LocalIds) /\ remote \in Listings(RemoteIds) /\ hidden = {} /\ saved \in SUBSET Link /\ Listed
    BY DEF IInv, TypeOK, FileInv, TornInv
  <2>2. OnDevice = local /\ OnRemote = remote
    BY <2>1 DEF OnDevice, OnRemote, Listing, Listings
  <2>3. None \notin TornValues
    BY FormsType, IdsAssumption DEF TornValues
  <2>4. CASE i \in RemoteIds
    BY <2>1, <2>3, <2>4, IdsAssumption DEF Listed
  <2>5. CASE i \in LocalIds /\ local[i] # None
    <3>1. PICK k \in saved : k.l = i
      BY <2>1, <2>2, <2>5 DEF SettleInv, InStep, Linked, Present, Listings
    <3>2. local[i] = k.lh /\ remote[k.r] = k.rh /\ remote[k.r] # None /\ SameContent(i, k.lh, k.rh) /\ k.r \in RemoteIds
      BY <2>1, <2>2, <3>1 DEF SettleInv, AgreeInv, InStep, AsListed, Link
    <3>3. remote[k.r] \in Values /\ remote[k.r] \notin TornValues
      BY <2>1, <3>2 DEF Listed, Listings, Maybe
    <3>4. CASE local[i] = remote[k.r]
      BY <2>5, <3>3, <3>4
    <3>5. CASE local[i] = LocalForm[i][remote[k.r]]
      BY <2>5, <3>3, <3>5 DEF TornIsKnown
    <3>6. CASE remote[k.r] = RemoteForm[local[i]]
      <4>1. \A v \in TornValues : RemoteForm[v] \in TornValues
        BY FormsAssumption DEF TornValues
      <4> QED BY <2>5, <3>3, <3>6, <4>1
    <3> QED BY <3>2, <3>4, <3>5, <3>6 DEF SameContent
  <2> QED BY <2>3, <2>4, <2>5 DEF Ids
<1>2. Init => Inv
  BY InitType, InitSettles, InitAgrees, InitFiles, InitTorn
<1>3. Inv /\ [Next]_vars => Inv'
  BY StepType, StepSettles, StepAgrees, FileStep, TornStep
<1> QED BY <1>1, <1>2, <1>3, PTL DEF Spec
===============================================================================
