------------------------------ MODULE MCFiles ------------------------------
(* A directory with a file in it, a file in ROM, a card with a file, and a  *)
(* name that looks like an archived version; every command the user has.    *)
EXTENDS SentMirror, TLC

MCPaths == {"", "d", "d/g", "rom", "card", "card/h", "g.20260101-120000"}
MCParent == [p \in MCPaths \ {""} |-> CASE p = "d/g" -> "d" [] p = "card/h" -> "card" [] OTHER -> ""]
MCRank == [p \in MCPaths |-> CASE p = "" -> 0 [] p = "d" -> 2 [] p = "card" -> 3
                              [] p = "rom" -> 4 [] p = "d/g" -> 5 [] p = "card/h" -> 6 [] OTHER -> 7]
MCRom == ("rom" :> 1)
MCSize == [v \in Versions |-> 2 * v]
MCCutSize == [v \in Versions |-> 2 * v - 1]
MCInit == [p \in MCPaths |-> IF p \in {"", "d", "card"} THEN Dir ELSE File(1)]
MCEmpty == [p \in MCPaths |-> IF p = "" THEN Dir ELSE None]
MCSent == [MCEmpty EXCEPT !["d"] = Dir, !["d/g"] = File(1)]
MCKept == [s \in {"backup", "mirror"} |-> IF s = "backup" THEN MCEmpty ELSE MCSent]
MCArchive == {}
Command(k, r, s) == [kind |-> k, root |-> r, source |-> s, include_rom |-> FALSE,
                     include_cards |-> FALSE, force |-> FALSE, dry_run |-> FALSE]
MCWalks == {Command("backup", "", "backup"), Command("restore", "", "backup"),
            Command("restore", "d", "backup"), Command("restore", "", "mirror"), Command("remove", "d", "backup"),
            [Command("backup", "", "backup") EXCEPT !.include_rom = TRUE, !.include_cards = TRUE],
            [Command("restore", "", "backup") EXCEPT !.force = TRUE],
            [Command("restore", "", "backup") EXCEPT !.dry_run = TRUE],
            Command("remove", "d/g", "backup")}
=============================================================================
