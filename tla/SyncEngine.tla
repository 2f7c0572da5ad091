------------------------------ MODULE SyncEngine ------------------------------
(***************************************************************************)
(* The pure part of the sync engine (jornada/sync/engine.py and            *)
(* jornada/sync/state.py): the three-way plan computed from two listings   *)
(* and the saved links, the effect of an action on the links, and the      *)
(* refresh of the hashes after writing.                                    *)
(*                                                                         *)
(* A neutral record is a member of Values and stands for its own           *)
(* fingerprint (hash collisions are left out); match_key is the natural    *)
(* key by which records never seen before are paired.  A listing maps      *)
(* every possible id of a store to the record listed under it, or to None. *)
(***************************************************************************)
EXTENDS Naturals, FiniteSets

CONSTANTS
    LocalIds,   \* ids the device store can hand out
    RemoteIds,  \* ids the modern store can hand out
    Values,     \* neutral records, up to their fingerprint
    Keys,       \* natural keys
    match_key,  \* Record.match_key
    None        \* Python's None

ASSUME IdsAssumption == LocalIds \cap RemoteIds = {} /\ None \notin LocalIds \cup RemoteIds \cup Values
ASSUME KeyAssumption == match_key \in [Values -> Keys]

Maybe(S) == S \cup {None}
Listings(Ids) == [Ids -> Maybe(Values)]
Present(s) == {i \in DOMAIN s : s[i] # None}

Directions == {"both", "to-device", "from-device"}
Prefers == {"remote", "local"}
Options == [direction : Directions, prefer : Prefers, propagate_deletes : BOOLEAN, dry_run : BOOLEAN]

writes_local(o) == o.direction \in {"both", "to-device"}
writes_remote(o) == o.direction \in {"both", "from-device"}

Link == [l : LocalIds, r : RemoteIds, lh : Values, rh : Values]

StoreKinds == {"create_local", "update_local", "delete_local",
               "create_remote", "update_remote", "delete_remote"}
Kinds == StoreKinds \cup {"link", "unlink", "skip"}

(***************************************************************************)
(* Planned actions.  `stage' keeps what matters of their order: the        *)
(* actions of known links come first, then those of new device records,    *)
(* then those of the remaining remote records.  The record of an action    *)
(* that only needs it for its log line is left out (None).                 *)
(***************************************************************************)
Action == [kind : Kinds, l : Maybe(LocalIds), r : Maybe(RemoteIds), rec : Maybe(Values), stage : 1..3]

Act(kind, l, r, rec, stage) == [kind |-> kind, l |-> l, r |-> r, rec |-> rec, stage |-> stage]

(* A planned action carries the ids and the record _apply_one uses for it. *)
WellFormed(a) ==
    /\ a.kind \in {"update_local", "delete_local", "create_remote", "update_remote", "link", "unlink"}
         => a.l \in LocalIds
    /\ a.kind \in {"create_local", "update_local", "update_remote", "delete_remote", "link", "unlink"}
         => a.r \in RemoteIds
    /\ a.kind \in {"create_local", "update_local", "create_remote", "update_remote", "link"}
         => a.rec \in Values

push(l, r, lv, o, stage) ==
    IF writes_remote(o) THEN Act("update_remote", l, r, lv, stage) ELSE Act("skip", l, r, None, stage)

pull(l, r, rv, o, stage) ==
    IF writes_local(o) THEN Act("update_local", l, r, rv, stage) ELSE Act("skip", l, r, None, stage)

(* Mutant: a conflict follows the side the code can write, not `prefer'.   *)
resolve_conflict_DeviceWins(l, r, lv, rv, o, stage) ==
    IF writes_remote(o) THEN Act("update_remote", l, r, lv, stage) ELSE Act("update_local", l, r, rv, stage)

(***************************************************************************)
(* Both sides changed: one-way runs follow their source side, otherwise    *)
(* `prefer' decides.  Every direction writes at least one side, so the     *)
(* "left as is" branch of the code cannot be reached and is left out.      *)
(***************************************************************************)
resolve_conflict(l, r, lv, rv, o, stage) ==
    IF writes_local(o) /\ (~writes_remote(o) \/ o.prefer = "remote")
    THEN Act("update_local", l, r, rv, stage)
    ELSE Act("update_remote", l, r, lv, stage)

plan_link(k, local, remote, o) ==
    LET lv == local[k.l]
        rv == remote[k.r]
    IN CASE lv = None /\ rv = None ->
              {Act("unlink", k.l, k.r, None, 1)}
         [] lv # None /\ rv = None ->
              {Act(IF o.propagate_deletes /\ writes_local(o) THEN "delete_local" ELSE "unlink",
                   k.l, k.r, None, 1)}
         [] lv = None /\ rv # None ->
              {Act(IF o.propagate_deletes /\ writes_remote(o) THEN "delete_remote" ELSE "unlink",
                   k.l, k.r, None, 1)}
         [] lv # None /\ rv # None /\ lv = k.lh /\ rv = k.rh -> {}
         [] lv # None /\ rv # None /\ lv # k.lh /\ rv # k.rh ->
              {IF lv = rv THEN Act("link", k.l, k.r, lv, 1)
                          ELSE resolve_conflict(k.l, k.r, lv, rv, o, 1)}
         [] lv # None /\ rv # None /\ lv # k.lh /\ rv = k.rh -> {push(k.l, k.r, lv, o, 1)}
         [] lv # None /\ rv # None /\ lv = k.lh /\ rv # k.rh -> {pull(k.l, k.r, rv, o, 1)}

new_local(local, links) == Present(local) \ {k.l : k \in links}
new_remote(remote, links) == Present(remote) \ {k.r : k \in links}

(***************************************************************************)
(* _pair_new hands the remote records of a key out to the device records   *)
(* of that key in listing order.  The order of a listing is the store's    *)
(* business, so every largest one-to-one pairing by key is possible.       *)
(***************************************************************************)
SameKey(l, r, local, remote) == match_key[local[l]] = match_key[remote[r]]

IsPairing(P, newL, newR, local, remote) ==
    /\ \A p \in P : SameKey(p[1], p[2], local, remote)
    /\ \A p, q \in P : (p[1] = q[1] \/ p[2] = q[2]) => p = q
    /\ \A l \in newL, r \in newR :
         SameKey(l, r, local, remote) => \E p \in P : p[1] = l \/ p[2] = r

(* Mutant: records never seen before are not matched by their key.         *)
Pairings_None(local, remote, links) == {{}}

Pairings(local, remote, links) ==
    LET newL == new_local(local, links)
        newR == new_remote(remote, links)
    IN {P \in SUBSET (newL \X newR) : IsPairing(P, newL, newR, local, remote)}

pair(l, r, lv, rv, o) ==
    {Act("link", l, r, lv, 2)}
      \cup (IF lv = rv THEN {} ELSE {resolve_conflict(l, r, lv, rv, o, 2)})

unpaired_local(l, lv, o) ==
    IF writes_remote(o) THEN Act("create_remote", l, None, lv, 2) ELSE Act("skip", l, None, None, 2)

unpaired_remote(r, rv, o) ==
    IF writes_local(o) THEN Act("create_local", None, r, rv, 3) ELSE Act("skip", None, r, None, 3)

pair_new(local, remote, links, P, o) ==
    (UNION {pair(p[1], p[2], local[p[1]], remote[p[2]], o) : p \in P})
      \cup {unpaired_local(l, local[l], o) : l \in new_local(local, links) \ {p[1] : p \in P}}
      \cup {unpaired_remote(r, remote[r], o) : r \in new_remote(remote, links) \ {p[2] : p \in P}}

(* Mutant: a remote record that is gone is taken for a deletion to carry   *)
(* out on the device without looking whether the device record is gone.    *)
plan_GoneIsDeleted(local, remote, links, P, o) ==
    (UNION {IF remote[k.r] = None THEN {Act("delete_local", k.l, k.r, None, 1)}
            ELSE plan_link(k, local, remote, o) : k \in links})
      \cup pair_new(local, remote, links, P, o)

plan(local, remote, links, P, o) ==
    (UNION {plan_link(k, local, remote, o) : k \in links})
      \cup pair_new(local, remote, links, P, o)

-------------------------------------------------------------------------------
(* Mutant: a new link replaces the old link of the remote record only.     *)
with_link_RemoteOnly(links, k) == {x \in links : x.r # k.r} \cup {k}

(* SyncState: a link replaces every link that shares one of its two ids.   *)
with_link(links, k) == {x \in links : x.l # k.l /\ x.r # k.r} \cup {k}

without(links, l, r) == {x \in links : x.l # l /\ x.r # r}

(***************************************************************************)
(* The links after _apply_one has carried out action a; i is the id the    *)
(* store returned, for the two creates.                                    *)
(***************************************************************************)
Agreed(l, r, v) == [l |-> l, r |-> r, lh |-> v, rh |-> v]

apply_one(a, links, i) ==
    CASE a.kind = "create_remote" -> with_link(links, Agreed(a.l, i, a.rec))
      [] a.kind = "create_local" -> with_link(links, Agreed(i, a.r, a.rec))
      [] a.kind \in {"update_remote", "update_local", "link"} -> with_link(links, Agreed(a.l, a.r, a.rec))
      [] a.kind = "delete_local" -> without(links, a.l, None)
      [] a.kind = "delete_remote" -> without(links, None, a.r)
      [] a.kind = "unlink" -> without(links, a.l, a.r)
      [] a.kind = "skip" -> links

(* Result.touched_local and touched_remote, kept in one set.               *)
touch(a, i) ==
    CASE a.kind \in {"create_local", "create_remote"} -> {i}
      [] a.kind = "update_local" -> {a.l}
      [] a.kind = "update_remote" -> {a.r}
      [] a.kind \notin {"create_local", "create_remote", "update_local", "update_remote"} -> {}

(* Mutants: only the device side is refreshed; every link is refreshed.    *)
refresh_hashes_LocalOnly(links, local, remote, touched) ==
    {[k EXCEPT !.lh = IF k.l \in touched /\ local[k.l] # None THEN local[k.l] ELSE @] : k \in links}

refresh_hashes_AllLinks(links, local, remote, touched) ==
    {[k EXCEPT !.lh = IF local[k.l] # None THEN local[k.l] ELSE @,
               !.rh = IF remote[k.r] # None THEN remote[k.r] ELSE @] : k \in links}

refresh_hashes(links, local, remote, touched) ==
    {[k EXCEPT !.lh = IF k.l \in touched /\ local[k.l] # None THEN local[k.l] ELSE @,
               !.rh = IF k.r \in touched /\ remote[k.r] # None THEN remote[k.r] ELSE @] : k \in links}
===============================================================================
