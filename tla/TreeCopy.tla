------------------------------ MODULE TreeCopy ------------------------------
(***************************************************************************)
(* Backup, restore and recursive removal of a subtree of the device:       *)
(* jornada/backup.py, restore.py and remove.py.  Each walks a tree depth   *)
(* first with one RAPI call at a time, collects the errors per entry and   *)
(* goes on.  Copies are compared by size alone, and an interrupted walk    *)
(* leaves what it has done so far: a later walk starts from there.         *)
(*                                                                         *)
(* Only the path of an entry, its kind, its size and which version of a    *)
(* file it holds matter.  Answers are assumed to belong to the call they   *)
(* are taken for (module Rapi says when they do).                          *)
(***************************************************************************)
EXTENDS Naturals, Sequences, FiniteSets

CONSTANTS
    Paths, Root, Parent,  \* the names there may be: Parent[p] is the directory of p
    Rank,                 \* the order in which a directory lists its entries
    Cards,                \* directories called "storage card..."
    Rom,                  \* files in ROM, a function from paths to versions
    Archived,             \* paths whose last part looks like an archived version
    Excluded,             \* paths called like a manifest or .DS_Store
    Versions,             \* what whole files may hold
    Size, CutSize,        \* the size of a whole version, and of one cut off in a transfer
    None, Dir,            \* nothing there; a directory
    InitDevice, InitKept, \* the device's tree at the start, and the trees on the Mac
    Walks,                \* the commands the user may give
    UserPaths,            \* where the user works on the device
    Sound,                \* the user restores only from a tree without cut-off files
    MaxEvents,            \* commands given, files sent, and what the user does on the device
    MaxFaults

Content == [of : Versions, whole : BOOLEAN]
File(v) == [of |-> v, whole |-> TRUE]
Cut(v) == [of |-> v, whole |-> FALSE]  \* the beginning of a file, possibly empty
size(c) == IF c.whole THEN Size[c.of] ELSE CutSize[c.of]

Entries == Content \cup {Dir, None}
IsFile(x) == x \notin {Dir, None}

(* p, its directory and so on up to the root: what every set holds that holds p and
   the directory of each of its paths. *)
UpwardClosed == {S \in SUBSET Paths : \A q \in S \ {Root} : Parent[q] \in S}
AncestorsAndSelf == [p \in Paths |-> {q \in Paths : \A S \in UpwardClosed : p \in S => q \in S}]
Below(p) == {q \in Paths : p \in AncestorsAndSelf[q]}
Tree == {t \in [Paths -> Entries] : t[Root] = Dir /\ \A p \in Paths \ {Root} : t[p] # None => t[Parent[p]] = Dir}
Children(t, p) == {q \in Paths \ {Root} : Parent[q] = p /\ t[q] # None}
mkdirs(t, p) == [q \in Paths |-> IF q \in AncestorsAndSelf[p] THEN Dir ELSE t[q]]  \* mkdir(parents=True)
mkdirs_raises(t, p) == \E q \in AncestorsAndSelf[p] : IsFile(t[q])
listdir(t, p) == [q \in Children(t, p) |-> t[q]]

Sources == {"backup", "mirror"}  \* the two kinds of tree on the Mac
Kinds == {"backup", "restore", "remove"}
Walk == [kind : Kinds, root : Paths, source : Sources,
         include_rom : BOOLEAN, include_cards : BOOLEAN, force : BOOLEAN, dry_run : BOOLEAN]

ASSUME PathsAssumption ==
    /\ Root \in Paths /\ Parent \in [Paths \ {Root} -> Paths] /\ Rank \in [Paths -> Nat]
    /\ \A p, q \in Paths : Rank[p] = Rank[q] => p = q
    /\ \A p \in Paths \ {Root} : p \notin AncestorsAndSelf[Parent[p]] /\ Parent[p] \notin DOMAIN Rom
    /\ Cards \subseteq Paths /\ DOMAIN Rom \subseteq Paths \ {Root} /\ \A p \in DOMAIN Rom : Rom[p] \in Versions
    /\ Archived \subseteq Paths /\ Excluded \subseteq Paths
ASSUME EntriesAssumption == None # Dir /\ {None, Dir} \cap Content = {}
ASSUME SizesAssumption ==  \* no two versions, whole or cut off, agree in size
    /\ {Size, CutSize} \subseteq [Versions -> Nat]
    /\ \A c, d \in Content : size(c) = size(d) => c = d
ASSUME WalksAssumption == InitDevice \in Tree /\ InitKept \in [Sources -> Tree] /\ Walks \subseteq Walk /\ UserPaths \subseteq Paths \ {Root} /\ Sound \in BOOLEAN

VARIABLES
    device,   \* the device's tree
    kept,     \* the trees on the Mac
    walk,     \* the command under way, or None
    status,   \* "idle", "walking", "done", "died" (an exception ended the command)
    stack,    \* the directories being walked, the innermost last
    errors,   \* stats.errors: the paths named there
    changed,  \* paths others have changed since the command began, on the device or in the tree
    locked,   \* device files another connection has open for writing
    events, faults

job == <<walk, status, stack, errors>>
treeVars == <<device, kept, job, changed, locked, events, faults>>

(* A directory under way: `new' until it is listed (with the directories to be made
   before in `todo'); then `seen' is the device's listing of it and `todo' the entries
   still to be handled. *)
IsFrame(f) == /\ f.dir \in Paths /\ f.new \in BOOLEAN /\ f.todo \subseteq Paths
              /\ DOMAIN f.seen \subseteq Paths /\ \A p \in DOMAIN f.seen : f.seen[p] \in Entries
Entered(p) == [dir |-> p, new |-> TRUE, todo |-> {}, seen |-> <<>>]
top == stack[Len(stack)]
popped == SubSeq(stack, 1, Len(stack) - 1)
without(e) == [stack EXCEPT ![Len(stack)].todo = @ \ {e}]

Init ==
    /\ device = InitDevice
    /\ kept = InitKept
    /\ walk = None /\ status = "idle" /\ stack = <<>> /\ errors = {}
    /\ changed = {} /\ locked = {} /\ events = 0 /\ faults = 0

-----------------------------------------------------------------------------
(* One call to the device: `after' is its tree once the call has been carried
   out.  A call may fail with or without effect; a torn transfer leaves `torn'. *)

Outcome(t, failed, fault) == [tree |-> t, failed |-> failed, fault |-> fault]
Broken(trees) == IF faults < MaxFaults THEN {Outcome(t, TRUE, 1) : t \in trees} ELSE {}
call(allowed, after) ==
    IF allowed THEN {Outcome(after, FALSE, 0)} \cup Broken({device, after})
               ELSE {Outcome(device, TRUE, 0)}

create_directory(p) ==  \* ERROR_ALREADY_EXISTS is not an error to _ensure_directory
    LET there == device[p] # None
    IN  call(there \/ device[Parent[p]] = Dir, IF there THEN device ELSE [device EXCEPT ![p] = Dir])
upload(p, c) ==
    LET allowed == device[Parent[p]] = Dir /\ device[p] # Dir /\ p \notin locked
    IN  call(allowed, [device EXCEPT ![p] = c])
          \cup (IF allowed THEN Broken({[device EXCEPT ![p] = Cut(c.of)]}) ELSE {})
InRom(p, x) == p \in DOMAIN Rom /\ x = File(Rom[p])
delete_file(p) == call(IsFile(device[p]) /\ ~InRom(p, device[p]) /\ p \notin locked, [device EXCEPT ![p] = None])
remove_directory(p) == call(device[p] = Dir /\ Children(device, p) = {}, [device EXCEPT ![p] = None])

Took(o) == device' = o.tree /\ faults' = faults + o.fault
(* Mutant: an entry that fails is skipped silently. *)
Reported_Silent(o, p) == UNCHANGED errors
Reported(o, p) == errors' = IF o.failed THEN errors \cup {p} ELSE errors

(* Leaving the outermost directory ends the command. *)
Leave(rest) == stack' = rest /\ status' = (IF rest = <<>> THEN "done" ELSE status)
Die == status' = "died" /\ stack' = <<>>

-----------------------------------------------------------------------------
(* The commands *)

eligible_source(w) ==
    w.kind = "restore" => /\ kept[w.source][w.root] = Dir  \* source.is_dir()
                          /\ Sound => \A p \in Paths : kept[w.source][p] \notin {Cut(v) : v \in Versions}

on_the_way(w) ==
    IF w.kind = "restore" /\ ~w.dry_run THEN AncestorsAndSelf[w.root] \ {Root} ELSE {}

Begin(w) ==
    /\ status \in {"idle", "done", "died"} /\ events < MaxEvents
    /\ eligible_source(w)
    /\ w.kind = "remove" => w.root # Root  \* refusing to delete the device root
    /\ walk' = w /\ errors' = {} /\ changed' = {} /\ events' = events + 1
    /\ UNCHANGED kept
    /\ \/ /\ w.kind = "remove" /\ device[w.root] = None
          /\ Die /\ UNCHANGED <<device, faults>>
       \/ /\ w.kind = "remove" /\ IsFile(device[w.root])
          /\ \E o \in delete_file(w.root) :
               /\ Took(o) /\ errors' = (IF o.failed THEN {w.root} ELSE {})
          /\ status' = "done" /\ stack' = <<>>
       \/ /\ w.kind = "remove" => device[w.root] = Dir
          /\ status' = "walking" /\ stack' = <<[Entered(w.root) EXCEPT !.todo = on_the_way(w)]>>
          /\ UNCHANGED <<device, faults>>

(* restore_tree makes the directories on the way to its root first; a failure
   there ends the command. *)
Unprepared == top.new /\ top.todo # {}
ensure_device_path ==
    /\ status = "walking" /\ Unprepared
    /\ \E p \in top.todo :
         /\ top.todo \cap AncestorsAndSelf[p] = {p}
         /\ \E o \in create_directory(p) :
              /\ Took(o)
              /\ IF o.failed THEN Die ELSE stack' = without(p) /\ UNCHANGED status
    /\ UNCHANGED <<kept, walk, errors, changed, events>>

Walking(kind) == status = "walking" /\ walk.kind = kind /\ stack # <<>>
Listed(todo, seen) == stack' = [stack EXCEPT ![Len(stack)] = [@ EXCEPT !.new = FALSE, !.todo = todo, !.seen = seen]]
listing_fails ==
    \/ device[top.dir] # Dir /\ UNCHANGED faults
    \/ faults < MaxFaults /\ faults' = faults + 1
listing_works == device[top.dir] = Dir /\ UNCHANGED faults

tree == kept[walk.source]
First(S) == CHOOSE e \in S : \A f \in S : Rank[e] <= Rank[f]
Handling(kind, e) == Walking(kind) /\ ~top.new /\ top.todo # {} /\ e = First(top.todo)

-----------------------------------------------------------------------------
(* backup_tree *)

backup_list ==
    /\ Walking("backup") /\ top.new
    /\ \/ /\ listing_fails
          /\ errors' = errors \cup {top.dir} /\ Leave(popped)
          /\ UNCHANGED kept
       \/ /\ listing_works /\ ~mkdirs_raises(tree, top.dir)
          /\ kept' = [kept EXCEPT ![walk.source] = mkdirs(@, top.dir)]
          /\ Listed(Children(device, top.dir), listdir(device, top.dir))
          /\ UNCHANGED <<status, errors>>
       \/ /\ listing_works /\ mkdirs_raises(tree, top.dir)
          /\ Die /\ UNCHANGED <<kept, errors>>
    /\ UNCHANGED <<device, walk, changed, events>>

skipped_rom(e) == ~walk.include_rom /\ InRom(e, top.seen[e])
skipped_card(e) == ~walk.include_cards /\ e \in Cards
downloads(e) == IsFile(device[e]) /\ e \notin locked
(* Mutant: a file that is there is taken for complete. *)
skipped_existing_ByName(e) == IsFile(tree[e])
skipped_existing(e) == IsFile(tree[e]) /\ size(tree[e]) = size(top.seen[e])

backup_directory(e) ==
    /\ Handling("backup", e) /\ top.seen[e] = Dir
    /\ stack' = (IF skipped_card(e) THEN without(e) ELSE Append(without(e), Entered(e)))
    /\ UNCHANGED <<device, kept, walk, status, errors, changed, events, faults>>

(* The local file is opened for writing, and so emptied, before the download. *)
backup_file(e) ==
    /\ Handling("backup", e) /\ IsFile(top.seen[e])
    /\ stack' = without(e)
    /\ \/ /\ skipped_rom(e) \/ skipped_existing(e)
          /\ UNCHANGED <<kept, errors, faults>>
       \/ /\ ~skipped_rom(e) /\ ~skipped_existing(e) /\ tree[e] = Dir
          /\ errors' = errors \cup {e} /\ UNCHANGED <<kept, faults>>
       \/ /\ ~skipped_rom(e) /\ ~skipped_existing(e) /\ tree[e] # Dir
          /\ \/ /\ downloads(e)
                /\ kept' = [kept EXCEPT ![walk.source][e] = device[e]]
                /\ UNCHANGED <<errors, faults>>
             \/ /\ downloads(e) => faults < MaxFaults
                /\ kept' = [kept EXCEPT ![walk.source][e] = Cut((IF downloads(e) THEN device[e] ELSE top.seen[e]).of)]
                /\ errors' = errors \cup {e}
                /\ faults' = (IF downloads(e) THEN faults + 1 ELSE faults)
    /\ UNCHANGED <<device, walk, status, changed, events>>

-----------------------------------------------------------------------------
(* restore_tree *)

should_skip(e) == e \in Excluded \/ (e \in Archived /\ IsFile(tree[e]))
restore_list ==
    /\ Walking("restore") /\ top.new /\ ~Unprepared
    /\ \/ listing_fails /\ errors' = errors \cup {top.dir} /\ Listed(Children(tree, top.dir), <<>>)
       \/ listing_works /\ UNCHANGED errors /\ Listed(Children(tree, top.dir), listdir(device, top.dir))
    /\ UNCHANGED <<device, kept, walk, status, changed, events>>

existing(e) == e \in DOMAIN top.seen
subdirectories == {d \in top.todo : tree[d] = Dir}
Restoring(e) ==  \* sorted: directories come first
    IF Walking("restore") /\ subdirectories # {} THEN ~top.new /\ e = First(subdirectories) ELSE Handling("restore", e)

restore_skip(e) ==
    /\ Restoring(e) /\ should_skip(e)
    /\ stack' = without(e)
    /\ UNCHANGED <<device, kept, walk, status, errors, changed, events, faults>>

restore_directory(e) ==
    /\ Restoring(e) /\ ~should_skip(e) /\ tree[e] = Dir
    /\ \/ /\ existing(e) \/ walk.dry_run
          /\ stack' = Append(without(e), Entered(e)) /\ UNCHANGED <<device, errors, faults>>
       \/ /\ ~existing(e) /\ ~walk.dry_run
          /\ \E o \in create_directory(e) :
               /\ Took(o) /\ Reported(o, e)
               /\ stack' = (IF o.failed THEN without(e) ELSE Append(without(e), Entered(e)))
    /\ UNCHANGED <<kept, walk, status, changed, events>>

(* Mutant: a file that is on the device is not compared. *)
already_there_ByName(e) == existing(e) /\ IsFile(top.seen[e]) /\ ~walk.force
already_there(e) == /\ existing(e) /\ IsFile(top.seen[e]) /\ size(top.seen[e]) = size(tree[e])
                    /\ ~walk.force

restore_file(e) ==
    /\ Restoring(e) /\ ~should_skip(e) /\ tree[e] # Dir
    /\ \/ /\ tree[e] = None  \* renamed away since the directory was read
          /\ Die /\ UNCHANGED <<device, errors, faults>>
       \/ /\ tree[e] # None /\ (already_there(e) \/ walk.dry_run)
          /\ stack' = without(e) /\ UNCHANGED <<device, status, errors, faults>>
       \/ /\ tree[e] # None /\ ~already_there(e) /\ ~walk.dry_run
          /\ \E o \in upload(e, tree[e]) : Took(o) /\ Reported(o, e)
          /\ stack' = without(e) /\ UNCHANGED status
    /\ UNCHANGED <<kept, walk, changed, events>>

-----------------------------------------------------------------------------
(* remove_tree *)

remove_list ==
    /\ Walking("remove") /\ top.new
    /\ \/ listing_fails /\ errors' = errors \cup {top.dir} /\ Leave(popped)
       \/ /\ listing_works /\ Listed(Children(device, top.dir), listdir(device, top.dir))
          /\ UNCHANGED <<errors, status>>
    /\ UNCHANGED <<device, kept, walk, changed, events>>

remove_entry(e) ==
    /\ Handling("remove", e)
    /\ \/ /\ top.seen[e] = Dir
          /\ stack' = Append(without(e), Entered(e)) /\ UNCHANGED <<device, errors, faults>>
       \/ /\ top.seen[e] # Dir
          /\ \E o \in delete_file(e) : Took(o) /\ Reported(o, e)
          /\ stack' = without(e)
    /\ UNCHANGED <<kept, walk, status, changed, events>>

leave_directory ==
    /\ status = "walking" /\ stack # <<>> /\ ~top.new /\ top.todo = {}
    /\ IF walk.kind = "remove"
         THEN \E o \in remove_directory(top.dir) : Took(o) /\ Reported(o, top.dir)
         ELSE UNCHANGED <<device, errors, faults>>
    /\ Leave(popped)
    /\ UNCHANGED <<kept, walk, changed, events>>

-----------------------------------------------------------------------------
(* The user, the device and the end of the process *)

UserChanges(ps, t) ==
    /\ events < MaxEvents /\ events' = events + 1
    /\ device' = t /\ changed' = changed \cup ps
    /\ UNCHANGED <<kept, job, faults>>
UserPuts(p, v) ==
    /\ device[Parent[p]] = Dir /\ device[p] \notin {Dir, File(v)} /\ p \notin locked
    /\ UserChanges({p}, [device EXCEPT ![p] = File(v)])
UserRemoves(p) ==
    /\ device[p] # None /\ Below(p) \cap (DOMAIN Rom \cup locked) = {}
    /\ UserChanges(Below(p), [q \in Paths |-> IF q \in Below(p) THEN None ELSE device[q]])

(* The object store is RAM: without power only the ROM and the cards remain, and
   the directories they are in. *)
OnCard(p) == \E c \in Cards : p \in Below(c)
Remains(p) == (device[p] # None /\ OnCard(p)) \/ p \in DOMAIN Rom
PowerLoss ==
    /\ status # "walking" /\ locked = {}
    /\ UserChanges(Paths, [p \in Paths |->
            IF p = Root \/ OnCard(p) THEN device[p]
            ELSE IF p \in DOMAIN Rom THEN File(Rom[p])
            ELSE IF \E q \in Below(p) : Remains(q) THEN Dir ELSE None])

Killed ==
    /\ status = "walking" /\ faults < MaxFaults /\ faults' = faults + 1
    /\ Die
    /\ UNCHANGED <<device, kept, walk, errors, changed, events>>

Step ==
    \/ ensure_device_path \/ backup_list \/ restore_list \/ remove_list \/ leave_directory
    \/ \E e \in Paths : backup_directory(e) \/ backup_file(e) \/ restore_skip(e)
                        \/ restore_directory(e) \/ restore_file(e) \/ remove_entry(e)
Program == ((\E w \in Walks : Begin(w)) \/ Step) /\ UNCHANGED locked
Environment ==
    /\ UNCHANGED locked
    /\ \/ \E p \in UserPaths : UserRemoves(p) \/ \E v \in Versions : UserPuts(p, v)
       \/ PowerLoss
       \/ Killed
Next == Program \/ Environment
Spec == Init /\ [][Next]_treeVars

-----------------------------------------------------------------------------
TypeOK ==
    /\ device \in Tree /\ kept \in [Sources -> Tree]
    /\ walk \in Walk \cup {None} /\ status \in {"idle", "walking", "done", "died"}
    /\ (\A i \in DOMAIN stack : IsFrame(stack[i])) /\ (status = "walking" <=> stack # <<>>)
    /\ {errors, changed, locked} \subseteq SUBSET Paths

Ended(kind) == status = "done" /\ walk.kind = kind
Excused(p) == p \in changed \/ errors \cap AncestorsAndSelf[p] # {}
Inside(p) == Below(walk.root) \cap AncestorsAndSelf[p]  \* the path from the root of the walk to p

(* A backup that has ended holds every file of the subtree as it is on the
   device, whatever earlier runs left half done, unless the file changed since
   the run began or an error names it or a directory above it (backup.py:84:
   only the size is compared). *)
BackedUpOrReported ==
    Ended("backup") => \A p \in Below(walk.root) :
        /\ IsFile(device[p])
        /\ ~InRom(p, device[p]) \/ walk.include_rom
        /\ (Inside(p) \ {walk.root}) \cap Cards = {} \/ walk.include_cards
        => tree[p] = device[p] \/ Excused(p)

(* A restore that has ended has brought the device to what the tree says, also
   where an earlier one was interrupted in the middle of a file (restore.py:125). *)
RestoredOrReported ==
    Ended("restore") /\ ~walk.dry_run => \A p \in Below(walk.root) :
        /\ tree[p] # None
        /\ \A q \in Inside(p) \ {walk.root} : ~should_skip(q)
        => device[p] = tree[p] \/ Excused(p)

(* A recursive removal that reports no error has removed its root, whatever was
   created below it meanwhile (remove.py:5). *)
RemovedOrReported ==
    Ended("remove") => device[walk.root] = None \/ errors # {} \/ walk.root \in changed
=============================================================================
