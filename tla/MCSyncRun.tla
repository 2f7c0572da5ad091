------------------------------ MODULE MCSyncRun ------------------------------
(* Small instances of SyncRun.                                             *)
EXTENDS SyncRun, TLC

(* Notes of two titles.  The device lists them without a folder ("d"), the *)
(* modern store with one ("r"): the same note has two fingerprints.        *)
Note(t, n, f) == <<t, n, f>>
FolderNotes == {Note(t, n, f) : t \in {"a"}, n \in 1..2, f \in {"d", "r"}}
TwoTitles == FolderNotes \cup {Note("b", 1, "d"), Note("b", 1, "r")}
MCKeys == {"a", "b"}
KeyOf == [v \in Values |-> v[1]]
ToDevice == [i \in LocalIds |-> [v \in Values |-> <<v[1], v[2], "d">>]]
ToRemote == [v \in Values |-> <<v[1], v[2], "r">>]
Unnamed == [v \in Values |-> <<>>]

(* A folder of files: the title is the name, and a second "a" is an "a-2".  *)
FileTitles == {"a", "a-2"}
Txt(t) == <<t, ".txt">>
TextFiles == {Txt(t) : t \in FileTitles}
ToTextFile == [i \in LocalIds |-> [v \in Values |-> <<i[1], v[2], "d">>]]
Torn == [i \in LocalIds |-> [v \in Values |-> <<i[1], 0, "d">>]]
FilesFor == [v \in Values |-> IF v[1] = "a" THEN <<Txt("a"), Txt("a-2")>> ELSE <<Txt(v[1])>>]
FileNotes == {Note(t, n, f) : t \in FileTitles, n \in 0..2, f \in {"d", "r"}}

Authored == {v \in Values : v[2] # 0}
Recurring == {Note("a", 1, "d")}

AnyDevice == {s \in Listings(LocalIds) : \A i \in Present(s) : s[i] = LocalForm[i][s[i]]}
AnyRemote == {s \in Listings(RemoteIds) : \A i \in Present(s) : s[i] = RemoteForm[s[i]]}
NoneOrA == {s \in AnyDevice : \A i \in Present(s) : s[i] \in Authored /\ s[i][1] = "a"}
NewestA2 == {s \in AnyRemote : UniqueKeys(s) /\ \A i \in Present(s) : s[i] \in Authored /\ (s[i][1] = "a-2" => s[i][2] = 2)}
OneOnDevice == {s \in AnyDevice : Cardinality(Present(s)) <= 1}
OneOnRemote == {s \in AnyRemote : Cardinality(Present(s)) <= 1}

AnyEdit == Values \X Values
SameTitleEdit == {e \in AnyEdit : e[1][1] = e[2][1] /\ e[2][2] # 0}
EditOfA == {e \in AnyEdit : e[1][1] = "a" /\ e[1] # e[2]}  \* another text, or the title "b"
ForwardEdit == {e \in SameTitleEdit : e[1][2] < e[2][2]}

Opt(d, p, del) == [direction |-> d, prefer |-> p, propagate_deletes |-> del, dry_run |-> FALSE]
DeviceWins == {Opt("both", "local", TRUE)}
RemoteWins == {Opt("both", "remote", TRUE), Opt("to-device", "remote", TRUE), Opt("both", "remote", FALSE)}
MixedRuns == {Opt("both", "remote", TRUE), Opt("both", "local", TRUE), Opt("to-device", "remote", TRUE),
              Opt("from-device", "remote", TRUE), Opt("both", "remote", FALSE),
              [Opt("both", "remote", TRUE) EXCEPT !.dry_run = TRUE]}

(* The folder's records are as the theorems about folders want them.       *)
Number == [v \in Values |-> v[2]]
ASSUME FolderInstance == Folder => TitlesAreNames /\ TornIsKnown(Number)

Symmetry == Permutations(LocalIds) \cup Permutations(RemoteIds)
===============================================================================
