------------------------------ MODULE PppEngine ------------------------------
(***************************************************************************)
(* The processes around one serial port: bin/jornada-ppp, jornada-connect  *)
(* and the loop it leaves behind, the app's fallback run-ppp.sh,           *)
(* jornada-disconnect and stopLink's own command; the pppds they start;    *)
(* the handheld that dials in; and the one listener on port 5679, which is *)
(* the app's or one that a jornada-ppp has started.                        *)
(*                                                                         *)
(* A process is a run of a script and happens at most once.  All names of  *)
(* the port match the patterns the scripts kill by.  What a listener says  *)
(* to the handheld is module Dccm's; here a session is there or not.       *)
(***************************************************************************)
EXTENDS Naturals, Sequences, FiniteSets

CONSTANTS
    Wrappers,   \* runs of bin/jornada-ppp as root
    Connects,   \* runs of jornada-connect; the detached loop goes by the same name
    Runners,    \* runs of run-ppp.sh
    Stops,      \* runs of jornada-disconnect
    Kills,      \* runs of the command stopLink falls back to
    None, App,
    MaxRuns,    \* how many runs there are at most
    MaxTaps     \* how often PC Link is tapped on the handheld

Engines == Wrappers \cup Connects \cup Runners
Procs == Engines \cup Stops \cup Kills

ASSUME TapsAssumption == MaxTaps \in Nat /\ {None, App} \cap Procs = {}

(* Every run is of one kind. *)
ASSUME KindsAssumption ==
    \A i, j \in 1..5 : i # j =>
        LET kinds == <<Wrappers, Connects, Runners, Stops, Kills>> IN kinds[i] \cap kinds[j] = {}

VARIABLES
    at,       \* where each run is in its script
    found,    \* the engines a jornada-connect or jornada-disconnect found running, or gone (history)
    stop,     \* the wrappers that have a signal to handle or have STOP = 1
    pppd,     \* the pppd each engine has started last; it may outlive the engine
    dccm,     \* the listener each wrapper has started
    port,     \* who listens on 5679
    session,  \* the session the listener serves: its number and who serves it
    called,   \* the last session the handheld has called for
    taps,     \* sessions are numbered by the tap that began them
    file      \* connection.json: the session it describes

engineVars == <<at, found, stop, pppd, dccm>>
engine == <<at, found, stop, pppd, dccm, port, session, called, taps, file>>

Stages == {"idle", "kills", "clears", "listens", "flushes", "waits", "pauses", "gone"}
Pppd == {"none", "opens", "chat", "up", "dead"}  \* "dead": the peer is gone, pppd has not noticed

EngineInit ==
    /\ at = [p \in Procs |-> "idle"] /\ found = [p \in Connects \cup Stops |-> {}] /\ stop = {}
    /\ pppd = [e \in Engines |-> "none"] /\ dccm = [w \in Wrappers |-> "none"]
    /\ port = None /\ session = None /\ called = 0 /\ taps = 0 /\ file = None

Alive(p) == at[p] \notin {"idle", "gone"}
Begun(p) == at[p] \notin {"idle", "kills", "clears"}
Looping(p) == at[p] \in {"flushes", "waits", "pauses"}
linkIsUp == \E e \in Engines : pppd[e] \in {"up", "dead"}  \* the interface is still there
Holding(e) == pppd[e] \in {"chat", "up", "dead"}

-----------------------------------------------------------------------------
(* Listeners of wrappers *)

(* SIGTERM ends a listener without its finally clauses: the file stays. *)
KillListeners(ws) ==
    /\ dccm' = [w \in Wrappers |-> IF w \in ws THEN "none" ELSE dccm[w]]
    /\ port' = (IF port \in ws THEN None ELSE port)
    /\ session' = (IF session # None /\ port \in ws THEN None ELSE session)

Bind(w) ==
    /\ dccm[w] = "starts"
    /\ \/ port = None /\ port' = w /\ dccm' = [dccm EXCEPT ![w] = "on"]
       \/ port # None /\ dccm' = [dccm EXCEPT ![w] = "none"] /\ UNCHANGED port
    /\ UNCHANGED <<at, found, stop, pppd, session, called, taps, file>>

-----------------------------------------------------------------------------
(* Starting and stopping *)

Begin(p) ==
    /\ at[p] = "idle" /\ Cardinality({q \in Procs : at[q] # "idle"}) < MaxRuns
    /\ at' = [at EXCEPT ![p] = "kills"]
    /\ UNCHANGED <<found, stop, pppd, dccm, port, session, called, taps, file>>

(* The loops a run kills with -9: their traps do not run, and what they have
   started lives on. *)
(* Mutant: the helpers leave the wrappers of the command line alone. *)
LoopsKilledBy_OwnLoops(p) ==
    {e \in Wrappers \cup Runners : Alive(e) /\ e # p /\ (e \in Wrappers <=> p \in Wrappers)}
      \cup {c \in Connects : Looping(c) /\ p \in Connects \cup Stops}
LoopsKilledBy(p) ==
    CASE p \in Wrappers -> {w \in Wrappers \ {p} : Alive(w)}
      [] p \in Runners \cup Kills -> {r \in Runners \ {p} : Alive(r)}
      [] p \in Connects \cup Stops -> {e \in Wrappers \cup Runners : Alive(e)} \cup {c \in Connects : Looping(c)}

(* on_signal in the wrappers `ws'.  Before the traps are set the signal ends the
   script; during the flush the shell handles it afterwards, and pppd is started
   whatever STOP says.  A pppd whose peer is gone may ignore the signal. *)
EndedBySignal(ws) == {w \in ws : at[w] # "flushes"}
Signalled(ws) ==
    LET trapped == {w \in EndedBySignal(ws) : Looping(w)}
    IN  /\ stop' = stop \cup {w \in ws : at[w] = "flushes"}
        /\ \E deaf \in SUBSET {w \in trapped : pppd[w] = "dead"} :
             pppd' = [e \in Engines |-> IF e \in trapped \ deaf THEN "none" ELSE pppd[e]]
        /\ KillListeners(trapped)

Interrupt(w) ==
    /\ Alive(w) /\ ~(w \in stop /\ at[w] = "flushes")
    /\ at' = [p \in Procs |-> IF p \in EndedBySignal({w}) THEN "gone" ELSE at[p]]
    /\ Signalled({w})
    /\ UNCHANGED <<found, called, taps, file>>

(* What is there when a run begins to kill, except a jornada-connect that is itself
   still killing and clearing: its loop is yet to be started. *)
Older(p) ==
    {e \in Engines \ {p} : at[e] # "idle"} \ {c \in Connects : at[c] \in {"kills", "clears"}}

(* stopLink's command asks the wrappers to end; the others kill what they know. *)
KillLoops(p) ==
    LET asked == IF p \in Kills THEN {w \in Wrappers : Alive(w)} ELSE {}
    IN  /\ at[p] = "kills"
        /\ at' = [q \in Procs |-> IF q = p THEN "clears"
                                  ELSE IF q \in LoopsKilledBy(p) \cup EndedBySignal(asked) THEN "gone" ELSE at[q]]
        /\ Signalled(asked)
        /\ found' = (IF p \in DOMAIN found THEN [found EXCEPT ![p] = Older(p)] ELSE found)
        /\ UNCHANGED <<called, taps, file>>

(* Every pppd is asked to end and killed if it does not. *)
ClearPort(p) ==
    /\ at[p] = "clears"
    /\ at' = [at EXCEPT ![p] = CASE p \in Wrappers -> "listens"
                                 [] p \in Connects \cup Runners -> "flushes"
                                 [] p \in Stops \cup Kills -> "gone"]
    /\ pppd' = [e \in Engines |-> "none"]
    /\ UNCHANGED <<found, stop, dccm, port, session, called, taps, file>>

(* nc -z: somebody listens already, or a listener is started. *)
Listen(w) ==
    /\ at[w] = "listens" /\ w \in Wrappers
    /\ at' = [at EXCEPT ![w] = "flushes"]
    /\ dccm' = [dccm EXCEPT ![w] = IF port = None THEN "starts" ELSE "none"]
    /\ UNCHANGED <<found, stop, pppd, port, session, called, taps, file>>

-----------------------------------------------------------------------------
(* The retry loops; one that does not flush is at "flushes" from its pause until it
   starts its pppd. *)

StartPppd(e) ==
    /\ at[e] = "flushes" /\ e \in Engines
    /\ at' = [at EXCEPT ![e] = "waits"] /\ pppd' = [pppd EXCEPT ![e] = "opens"]
    /\ KillListeners(stop \cap {e})
    /\ UNCHANGED <<found, stop, called, taps, file>>

(* "Resource busy" when another pppd holds the port. *)
OpenPort(e) ==
    /\ pppd[e] = "opens"
    /\ pppd' = [pppd EXCEPT ![e] = IF \E f \in Engines : Holding(f) THEN "none" ELSE "chat"]
    /\ UNCHANGED <<at, found, stop, dccm, port, session, called, taps, file>>

(* chat gives up after CHAT_TIMEOUT. *)
ChatTimesOut(e) ==
    /\ pppd[e] = "chat" /\ pppd' = [pppd EXCEPT ![e] = "none"]
    /\ UNCHANGED <<at, found, stop, dccm, port, session, called, taps, file>>

(* The peer has hung up, or five echo requests went unanswered. *)
Notice(e) ==
    /\ pppd[e] = "dead" /\ pppd' = [pppd EXCEPT ![e] = "none"]
    /\ UNCHANGED <<at, found, stop, dccm, port, session, called, taps, file>>

PppdEnded(e) ==
    /\ at[e] = "waits" /\ pppd[e] = "none"
    /\ at' = [at EXCEPT ![e] = IF e \in stop THEN "gone" ELSE IF e \in Wrappers THEN "pauses" ELSE "flushes"]
    /\ UNCHANGED <<found, stop, pppd, dccm, port, session, called, taps, file>>

Wake(e) ==
    /\ at[e] = "pauses" /\ at' = [at EXCEPT ![e] = "flushes"]
    /\ UNCHANGED <<found, stop, pppd, dccm, port, session, called, taps, file>>

-----------------------------------------------------------------------------
(* The handheld *)

Tap ==
    /\ taps < MaxTaps /\ taps' = taps + 1
    /\ \E e \in Engines : pppd[e] = "chat" /\ pppd' = [pppd EXCEPT ![e] = "up"]
    /\ UNCHANGED <<at, found, stop, dccm, port, session, called, file>>

up == \E e \in Engines : pppd[e] = "up"

Call ==
    /\ up /\ called < taps /\ port # None /\ session = None
    /\ called' = taps /\ session' = [id |-> taps, by |-> port]
    /\ file' = (IF port = App THEN file ELSE taps)
    /\ UNCHANGED <<at, found, stop, pppd, dccm, port, taps>>

Leave ==
    /\ up /\ pppd' = [e \in Engines |-> IF pppd[e] = "up" THEN "dead" ELSE pppd[e]]
    /\ UNCHANGED <<at, found, stop, dccm, port, session, called, taps, file>>

(* Without pings the handheld hangs up the whole link. *)
Unserved == port = None \/ (called = taps /\ session = None)
HangUp == Unserved /\ Leave

(* The listener loses the connection, or counts its missed pings. *)
EndSession ==
    /\ session # None /\ ~(up /\ session.id = taps)
    /\ session' = None
    /\ file' = (IF session.by = App THEN file ELSE None)
    /\ UNCHANGED <<at, found, stop, pppd, dccm, port, called, taps>>

EngineStep ==
    \/ \E p \in Procs : Begin(p) \/ KillLoops(p)
    \/ \E w \in Wrappers : Bind(w) \/ Interrupt(w) \/ Listen(w)
    \/ \E e \in Engines : \/ StartPppd(e) \/ OpenPort(e) \/ ChatTimesOut(e) \/ Notice(e)
                          \/ PppdEnded(e) \/ Wake(e)
    \/ Tap \/ Leave

-----------------------------------------------------------------------------
(* "stop EVERY previous engine, then start a fresh detached loop" (jornada-connect,
   and jornada-disconnect): of the engines such a run found, whatever was begun while
   it killed and cleared, no loop is left once it has cleared the port, and no pppd;
   nor does one come back.  It cannot find a jornada-connect that is still clearing. *)
NothingOlderSurvives ==
    \A p \in Connects \cup Stops :
        Begun(p) => \A e \in found[p] : ~Looping(e) /\ pppd[e] = "none"

=============================================================================
