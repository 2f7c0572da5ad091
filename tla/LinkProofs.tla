----------------------------- MODULE LinkProofs -----------------------------
(* Safety of the scripts around the port and of the app's first listing, for *)
(* any number of runs, sessions and polls.                                   *)
EXTENDS AppModel, TLAPS

-----------------------------------------------------------------------------
(* A command that clears the port.                                           *)

(***************************************************************************)
(* Commands may overlap.  Of the engines a run found, all that were not    *)
(* gone have been killed when it begins to clear, and a run that is gone   *)
(* starts no pppd; so their pppds end with the port's clearing for good.   *)
(***************************************************************************)
Ruling == Connects \cup Stops

CommandInv ==
    /\ at \in [Procs -> Stages] /\ pppd \in [Engines -> Pppd] /\ found \in [Ruling -> SUBSET Engines]
    /\ \A c \in Connects : at[c] # "listens"
    /\ \A p \in Ruling : at[p] \notin {"idle", "kills"} => \A e \in found[p] : at[e] = "gone"
    /\ \A p \in Ruling : Begun(p) => \A e \in found[p] : pppd[e] = "none"

LEMMA Kinds ==
    /\ Wrappers \cap Connects = {} /\ Wrappers \cap Runners = {} /\ Wrappers \cap Stops = {}
    /\ Wrappers \cap Kills = {} /\ Connects \cap Runners = {} /\ Connects \cap Stops = {}
    /\ Connects \cap Kills = {} /\ Runners \cap Stops = {} /\ Runners \cap Kills = {}
    /\ Stops \cap Kills = {}
<1> DEFINE kinds == <<Wrappers, Connects, Runners, Stops, Kills>>
<1>1. ASSUME NEW i \in 1..5, NEW j \in 1..5, i # j PROVE kinds[i] \cap kinds[j] = {}
  BY <1>1, KindsAssumption
<1>2. /\ kinds[1] = Wrappers /\ kinds[2] = Connects /\ kinds[3] = Runners
      /\ kinds[4] = Stops /\ kinds[5] = Kills
  OBVIOUS
<1> HIDE DEF kinds
<1> QED BY <1>1, <1>2

LEMMA CommandInit == Init => CommandInv
BY DEF Init, EngineInit, CommandInv, Ruling, Begun, Stages, Pppd, Procs, Engines

(* A signal makes pppds go and starts none. *)
LEMMA SignalledLosesPppds ==
    ASSUME NEW ws \in SUBSET Wrappers, pppd \in [Engines -> Pppd], Signalled(ws)
    PROVE  /\ pppd' \in [Engines -> Pppd]
           /\ \A e \in Engines : pppd'[e] \in {pppd[e], "none"}
BY DEF Signalled, Pppd

(* What happens to pppds and loops alone. *)
LEMMA LoopKeeps ==
    ASSUME CommandInv, NEW e \in Engines,
           StartPppd(e) \/ OpenPort(e) \/ ChatTimesOut(e) \/ Notice(e) \/ PppdEnded(e) \/ Wake(e)
    PROVE  CommandInv'
<1> USE DEF CommandInv, Ruling, Begun, Stages, Pppd, Procs, Engines
<1>1. CASE StartPppd(e)
  BY <1>1 DEF StartPppd
<1>2. CASE OpenPort(e) \/ ChatTimesOut(e) \/ Notice(e)
  BY <1>2 DEF OpenPort, ChatTimesOut, Notice
<1>3. CASE PppdEnded(e) \/ Wake(e)
  BY <1>3 DEF PppdEnded, Wake
<1> QED BY <1>1, <1>2, <1>3

LEMMA BeginKeeps ==
    ASSUME CommandInv, NEW p \in Procs, Begin(p)
    PROVE  CommandInv'
BY DEF CommandInv, Ruling, Begun, Stages, Pppd, Procs, Engines, Begin

(* A signal ends wrappers, which are no run that clears for itself. *)
LEMMA InterruptKeeps ==
    ASSUME CommandInv, NEW w \in Wrappers, Interrupt(w)
    PROVE  CommandInv'
<1>1. (\A p \in Procs : at'[p] \in {at[p], "gone"}) /\ \A p \in Ruling : at'[p] = at[p]
  BY Kinds DEF Interrupt, EndedBySignal, Ruling, Procs, Engines
<1>2. at' \in [Procs -> Stages]
  BY <1>1 DEF Interrupt, CommandInv, Stages
<1>3. pppd' \in [Engines -> Pppd] /\ \A e \in Engines : pppd'[e] \in {pppd[e], "none"}
  BY SignalledLosesPppds DEF Interrupt, CommandInv
<1>4. found' = found
  BY DEF Interrupt
<1> QED BY <1>1, <1>2, <1>3, <1>4 DEF CommandInv, Ruling, Begun, Procs, Engines

(* What a run finds and does not kill is gone already. *)
LEMMA KillLoopsKeeps ==
    ASSUME CommandInv, NEW p \in Procs, KillLoops(p)
    PROVE  CommandInv'
<1> DEFINE asked == IF p \in Kills THEN {w \in Wrappers : Alive(w)} ELSE {}
<1>0. LoopsKilledBy(p) \subseteq Wrappers \cup Runners \cup {c \in Connects : Looping(c)}
  BY Kinds DEF LoopsKilledBy, Procs, Engines
<1>1. /\ at' \in [Procs -> Stages] /\ at[p] = "kills" /\ at'[p] = "clears"
      /\ \A q \in Procs \ {p} : at'[q] \in {at[q], "gone"}
      /\ \A q \in (LoopsKilledBy(p) \cap Procs) \ {p} : at'[q] = "gone"
  BY DEF KillLoops, CommandInv, Stages
<1>2. pppd' \in [Engines -> Pppd] /\ \A e \in Engines : pppd'[e] \in {pppd[e], "none"}
  BY SignalledLosesPppds DEF KillLoops, CommandInv
<1>3. /\ found' \in [Ruling -> SUBSET Engines]
      /\ \A r \in Ruling \ {p} : found'[r] = found[r]
      /\ p \in Ruling => found'[p] = Older(p)
  BY DEF KillLoops, CommandInv, Older, Ruling
<1>4. ASSUME p \in Ruling, NEW e \in Older(p) PROVE at'[e] = "gone"
  <2>1. e \in Engines \ {p} /\ at[e] # "idle" /\ (e \in Connects => at[e] \notin {"kills", "clears"})
    BY <1>4 DEF Older
  <2>2. LoopsKilledBy(p) = {w \in Wrappers \cup Runners : Alive(w)} \cup {d \in Connects : Looping(d)}
    BY <1>4, Kinds DEF LoopsKilledBy, Ruling
  <2>3. at[e] = "gone" \/ e \in LoopsKilledBy(p)
    BY <2>1, <2>2 DEF CommandInv, Alive, Looping, Stages, Procs, Engines
  <2> QED BY <1>1, <2>1, <2>3 DEF Procs
(* A run that kills or clears is ended by no other. *)
<1>5. ASSUME NEW r \in Ruling, at'[r] \notin {"idle", "kills"}, NEW e \in found'[r] PROVE at'[e] = "gone"
  <2>1. CASE r = p
    BY <1>3, <1>4, <1>5, <2>1
  <2>2. CASE r # p
    <3>1. at[r] \notin {"idle", "kills"}
      <4>1. r \in Connects \/ r \in Stops
        BY DEF Ruling
      <4>2. r \notin EndedBySignal(asked)
        BY Kinds, <4>1 DEF EndedBySignal
      <4>3. CASE at[r] \in {"idle", "kills"}
        <5>1. r \notin LoopsKilledBy(p)
          BY <1>0, Kinds, <4>1, <4>3 DEF Looping
        <5>2. at'[r] = at[r]
          BY <2>2, <4>2, <5>1 DEF KillLoops, Ruling, Procs, Engines
        <5> QED BY <1>5, <4>3, <5>2
      <4> QED BY <4>3
    <3>2. e \in found[r] /\ e \in Procs
      BY <1>3, <1>5, <2>2 DEF CommandInv, Procs
    <3> QED BY <1>1, <3>1, <3>2 DEF CommandInv
  <2> QED BY <2>1, <2>2
<1>6. ASSUME NEW r \in Ruling, Begun(r)', NEW e \in found'[r] PROVE pppd'[e] = "none"
  <2>1. r # p
    BY <1>1, <1>6 DEF Begun
  <2>2. Begun(r)
    <3>1. r \in Connects \/ r \in Stops
      BY DEF Ruling
    <3>2. r \notin EndedBySignal(asked)
      BY Kinds, <3>1 DEF EndedBySignal
    <3>3. r \in LoopsKilledBy(p) => Begun(r)
      BY <1>0, Kinds, <3>1 DEF Looping, Begun
    <3>4. r \notin LoopsKilledBy(p) => at'[r] = at[r]
      BY <2>1, <3>2 DEF KillLoops, Ruling, Procs, Engines
    <3> QED BY <1>6, <3>3, <3>4 DEF Begun
  <2>3. e \in found[r] /\ e \in Engines
    BY <1>3, <1>6, <2>1 DEF CommandInv
  <2> QED BY <1>2, <2>2, <2>3 DEF CommandInv
<1>7. \A c \in Connects : at'[c] # "listens"
  BY <1>1 DEF CommandInv, Procs, Engines
<1> QED BY <1>1, <1>2, <1>3, <1>5, <1>6, <1>7 DEF CommandInv, Begun

LEMMA ClearPortKeeps ==
    ASSUME CommandInv, NEW p \in Procs, ClearPort(p)
    PROVE  CommandInv'
<1>1. /\ at[p] = "clears" /\ at'[p] \in {"listens", "flushes", "gone"} /\ at' \in [Procs -> Stages]
      /\ p \in Connects => at'[p] = "flushes"
  BY Kinds DEF ClearPort, CommandInv, Stages, Procs, Engines
<1>2. \A q \in Procs \ {p} : at'[q] = at[q]
  BY DEF ClearPort, CommandInv
<1>3. pppd' \in [Engines -> Pppd] /\ (\A e \in Engines : pppd'[e] = "none") /\ found' = found
  BY DEF ClearPort, Pppd
<1>4. ASSUME NEW r \in Ruling, at'[r] \notin {"idle", "kills"}, NEW e \in found[r] PROVE at'[e] = "gone"
  <2>1. at[r] \notin {"idle", "kills"}
    BY <1>1, <1>2, <1>4 DEF Ruling, Procs, Engines
  <2>2. at[e] = "gone" /\ e \in Procs
    BY <1>4, <2>1 DEF CommandInv, Procs
  <2> QED BY <1>1, <1>2, <2>2
<1>5. \A c \in Connects : at'[c] # "listens"
  BY <1>1, <1>2 DEF CommandInv, Procs, Engines
<1> QED BY <1>1, <1>3, <1>4, <1>5 DEF CommandInv

LEMMA CommandStep ==
    ASSUME CommandInv, [Next]_vars
    PROVE  CommandInv'
<1>1. CASE EngineStep /\ UNCHANGED app
  <2>1. CASE \E p \in Procs : Begin(p) \/ KillLoops(p)
    BY <2>1, BeginKeeps, KillLoopsKeeps
  <2>2. CASE \E w \in Wrappers : Bind(w)
    BY <2>2 DEF Bind, CommandInv, Begun
  <2>3. CASE \E w \in Wrappers : Interrupt(w)
    BY <2>3, InterruptKeeps
  <2>4. CASE \E w \in Wrappers : Listen(w)
    BY <2>4, Kinds DEF Listen, CommandInv, Ruling, Begun, Stages, Pppd, Procs, Engines
  <2>5. CASE \E e \in Engines : \/ StartPppd(e) \/ OpenPort(e) \/ ChatTimesOut(e) \/ Notice(e)
                                \/ PppdEnded(e) \/ Wake(e)
    BY <2>5, LoopKeeps
  <2>6. CASE Tap \/ Leave
    BY <2>6 DEF Tap, Leave, CommandInv, Begun, Pppd
  <2> QED BY <1>1, <2>1, <2>2, <2>3, <2>4, <2>5, <2>6 DEF EngineStep
<1>2. CASE \E p \in Procs : AppClearPort(p)
  BY <1>2, ClearPortKeeps DEF AppClearPort
<1>3. CASE \/ AppCall \/ AppEndSession \/ start
           \/ \E fifth, eighth \in BOOLEAN : pollLinkState(fifth, eighth)
           \/ handle_deviceDisconnected \/ disconnectLink
  <2>1. UNCHANGED <<at, pppd, found>>
    BY <1>3 DEF AppCall, AppEndSession, start, pollLinkState, handle_deviceDisconnected, disconnectLink,
                Call, EndSession, engineVars
  <2> QED BY <2>1 DEF CommandInv, Begun
<1>4. CASE \/ handle_listener \/ handle_deviceConnected \/ beginSync \/ attemptSucceeds \/ attemptFails
           \/ nextAttempt \/ retrySync
  <2>1. UNCHANGED <<at, pppd, found>>
    BY <1>4 DEF handle_listener, handle_deviceConnected, beginSync, attemptSucceeds, attemptFails,
                nextAttempt, retrySync, engine
  <2> QED BY <2>1 DEF CommandInv, Begun
<1>5. CASE UNCHANGED vars
  BY <1>5 DEF vars, engine, CommandInv, Begun
<1> QED BY <1>1, <1>2, <1>3, <1>4, <1>5 DEF Next

(* "stop EVERY previous engine, then start a fresh detached loop" (jornada-connect),
   of any number of runs, however they overlap: the loops and pppds of the engines that
   a jornada-connect or jornada-disconnect found are gone once it has cleared the port,
   and stay gone. *)
THEOREM CommandsRule == Spec => []NothingOlderSurvives
<1>1. CommandInv => NothingOlderSurvives
  BY DEF CommandInv, NothingOlderSurvives, Ruling, Begun, Looping
<1> QED BY <1>1, CommandInit, CommandStep, PTL DEF Spec

-----------------------------------------------------------------------------
(* The first listing of a session.                                           *)

(***************************************************************************)
(* An attempt under way has at most the failures of those before it.  The  *)
(* hard part is that no second task can begin on top of them: where a      *)
(* device is shown, nothing runs and the app has not given up, there is    *)
(* either a listing or no failure, and a job that is still queued to begin *)
(* a task finds one running, a session given up, or no failure.            *)
(***************************************************************************)
MayBegin == ~isSyncing /\ ~gaveUp
JobKinds == {"listening", "portBusy", "connected", "disconnected", "stopped", "sync"}
Jobs == [kind : JobKinds, id : Nat \cup {None}]

Asked(jobs) == \E i \in 1..Len(jobs) : jobs[i].kind = "sync"

SyncTask ==
    /\ failures \in Nat /\ attempt \in Nat /\ taps \in Nat
    /\ stage \in {"idle", "asks", "sleeps"}
    /\ stage = "asks" => attempt <= attempts /\ failures < attempt
    /\ stage = "sleeps" => attempt < attempts /\ failures <= attempt
    /\ failures <= attempts

PressureInv ==
    /\ SyncTask
    /\ inbox \in Seq(Jobs) /\ gaveUp \in BOOLEAN
    /\ MayBegin /\ device # None /\ ~listed => failures = 0
    /\ MayBegin /\ Asked(inbox) => failures = 0

LEMMA PressureInit == Init => PressureInv
<1> SUFFICES ASSUME Init PROVE PressureInv
  OBVIOUS
<1>1. inbox \in Seq(Jobs) /\ failures = 0
  BY DEF Init
<1>2. gaveUp = FALSE /\ device = None
  BY DEF Init
<1>3. SyncTask
  BY DEF Init, EngineInit, SyncTask, attempts
<1> QED BY <1>1, <1>2, <1>3 DEF PressureInv

LEMMA AskedAppend ==
    ASSUME NEW s \in Seq(Jobs), NEW j \in Jobs
    PROVE  /\ Append(s, j) \in Seq(Jobs)
           /\ Asked(Append(s, j)) <=> Asked(s) \/ j.kind = "sync"
<1>1. Append(s, j) \in Seq(Jobs) /\ Len(Append(s, j)) = Len(s) + 1 /\ Append(s, j)[Len(s) + 1] = j
  OBVIOUS
<1>2. \A i \in 1..Len(s) : Append(s, j)[i] = s[i]
  OBVIOUS
<1> QED BY <1>1, <1>2 DEF Asked

LEMMA AskedTail ==
    ASSUME NEW s \in Seq(Jobs), s # <<>>
    PROVE  Tail(s) \in Seq(Jobs) /\ (Asked(Tail(s)) => Asked(s))
<1>1. Tail(s) \in Seq(Jobs) /\ Len(Tail(s)) = Len(s) - 1 /\ Len(s) \in Nat
  OBVIOUS
<1>2. \A i \in 1..Len(Tail(s)) : Tail(s)[i] = s[i + 1] /\ i + 1 \in 1..Len(s)
  BY <1>1
<1> QED BY <1>1, <1>2 DEF Asked

(* A poll that neither begins nor takes over queues at most one task. *)
LEMMA PolledKeeps ==
    ASSUME PressureInv, NEW d, NEW g \in BOOLEAN, NEW l, NEW jobs \in Seq(Jobs),
           NEW fifth \in BOOLEAN, NEW eighth \in BOOLEAN,
           Polled(d, g, l, jobs, fifth, eighth),
           d = device \/ d = None,
           d # None => g = gaveUp /\ l = listed,
           d # None /\ MayBegin /\ Asked(jobs) => failures = 0,
           UNCHANGED sync, taps' = taps, listed' = l
    PROVE  PressureInv'
<1> DEFINE shown == IF ~companion THEN d
                    ELSE IF file # None THEN (IF d = None THEN file ELSE d)
                    ELSE IF linkIsUp THEN d ELSE None
           begun == d = None /\ shown # None
           latch == g /\ ~begun
           again == eighth /\ shown # None /\ ~l /\ ~isSyncing /\ ~latch
           first == IF begun THEN <<Job("sync", None)>> ELSE <<>>
           second == IF again THEN <<Job("sync", None)>> ELSE <<>>
           queued == jobs \o first \o second
<1>1. /\ device' = shown /\ gaveUp' = latch
      /\ failures' = (IF begun \/ shown = None THEN 0 ELSE failures)
      /\ \/ inbox' = queued
         \/ inbox' = Append(queued, Job("listening", None))
         \/ inbox' = Append(queued, Job("portBusy", None))
  BY DEF Polled, runListener
<1>2. /\ Job("sync", None) \in Jobs /\ Job("listening", None) \in Jobs /\ Job("portBusy", None) \in Jobs
      /\ Job("listening", None).kind # "sync" /\ Job("portBusy", None).kind # "sync"
  BY DEF Job, Jobs, JobKinds
<1>3. first \in Seq(Jobs) /\ second \in Seq(Jobs)
  BY <1>2
<1>4. queued \in Seq(Jobs)
  BY <1>3
<1>5. Asked(queued) => Asked(jobs) \/ begun \/ again
  <2>1. SUFFICES ASSUME ~begun, ~again PROVE queued = jobs
    OBVIOUS
  <2>2. first = <<>> /\ second = <<>>
    BY <2>1
  <2>3. jobs \o <<>> = jobs
    OBVIOUS
  <2> QED BY <2>2, <2>3
<1> HIDE DEF queued, first, second
<1>6. inbox' \in Seq(Jobs) /\ (Asked(inbox') => Asked(queued))
  <2>1. CASE inbox' = queued
    BY <1>4, <2>1
  <2>2. CASE inbox' = Append(queued, Job("listening", None))
    BY <1>2, <1>4, <2>2, AskedAppend
  <2>3. CASE inbox' = Append(queued, Job("portBusy", None))
    BY <1>2, <1>4, <2>3, AskedAppend
  <2> QED BY <1>1, <2>1, <2>2, <2>3
<1>7. shown = d \/ shown = None \/ begun
  OBVIOUS
<1>8. CASE failures' = 0
  <2>1. SyncTask'
    BY <1>8 DEF PressureInv, SyncTask, sync, attempts
  <2> QED BY <1>1, <1>6, <1>8, <2>1 DEF PressureInv
<1>9. CASE failures' # 0
  <2>1. d # None /\ shown = d /\ ~begun /\ failures' = failures /\ d = device
    BY <1>1, <1>7, <1>9
  <2>2. gaveUp' = gaveUp /\ listed' = listed /\ device' = device /\ MayBegin' = MayBegin
    BY <1>1, <2>1 DEF PressureInv, MayBegin, isSyncing, sync
  <2>3. SyncTask'
    BY <2>1 DEF PressureInv, SyncTask, sync
  <2>4. MayBegin /\ again => failures = 0
    BY <2>1 DEF PressureInv
  <2>5. MayBegin' /\ Asked(inbox') => failures' = 0
    BY <1>5, <1>6, <2>1, <2>2, <2>4
  <2>6. Asked(inbox)' = Asked(inbox')
    BY DEF Asked
  <2> QED BY <1>1, <1>6, <2>1, <2>2, <2>3, <2>5, <2>6 DEF PressureInv
<1> QED BY <1>8, <1>9

LEMMA StartKeeps == PressureInv /\ start => PressureInv'
<1> SUFFICES ASSUME PressureInv, start PROVE PressureInv'
  OBVIOUS
<1>1. Job("listening", None) \in Jobs /\ Job("portBusy", None) \in Jobs
      /\ Job("listening", None).kind # "sync" /\ Job("portBusy", None).kind # "sync"
  BY DEF Job, Jobs, JobKinds
<1>2. <<>> \in Seq(Jobs) /\ ~Asked(<<>>)
  BY DEF Asked
<1>3. PICK j \in {Job("listening", None), Job("portBusy", None)} : inbox' = Append(<<>>, j)
  BY DEF start, runListener
<1>4. inbox' \in Seq(Jobs) /\ ~Asked(inbox')
  <2>1. j \in Jobs /\ j.kind # "sync"
    BY <1>1
  <2> HIDE DEF Jobs
  <2> QED BY <1>2, <1>3, <2>1, AskedAppend
<1>5. UNCHANGED <<taps, device, gaveUp, listed, attempt, stage, failures>>
  BY DEF start, sync
<1>6. Asked(inbox)' = Asked(inbox')
  BY DEF Asked
<1> QED BY <1>4, <1>5, <1>6 DEF PressureInv, SyncTask, MayBegin, isSyncing

(* Steps that change nothing of the app but append to the inbox. *)
LEMMA QueuedKeeps ==
    ASSUME PressureInv, NEW j \in Jobs, j.kind # "sync", inbox' = inbox \/ inbox' = Append(inbox, j),
           taps' \in Nat, UNCHANGED <<device, gaveUp, listed, attempt, stage, failures>>
    PROVE  PressureInv'
<1>1. inbox' \in Seq(Jobs) /\ (Asked(inbox') => Asked(inbox))
  BY AskedAppend DEF PressureInv
<1>2. Asked(inbox)' = Asked(inbox')
  BY DEF Asked
<1> QED BY <1>1, <1>2 DEF PressureInv, SyncTask, MayBegin, isSyncing

(* An event of the listener or of a command is taken from the inbox. *)
LEMMA HandleListenerKeeps == PressureInv /\ handle_listener => PressureInv'
<1> SUFFICES ASSUME PressureInv, handle_listener PROVE PressureInv'
  OBVIOUS
<1>1. inbox # <<>> /\ inbox' = Tail(inbox)
  BY DEF handle_listener, Is
<1>2. inbox' \in Seq(Jobs) /\ (Asked(inbox') => Asked(inbox))
  BY <1>1, AskedTail DEF PressureInv
<1>3. UNCHANGED <<taps, device, gaveUp, listed, attempt, stage, failures>>
  BY DEF handle_listener, engine, sync
<1>4. Asked(inbox)' = Asked(inbox')
  BY DEF Asked
<1> QED BY <1>2, <1>3, <1>4 DEF PressureInv, SyncTask, MayBegin, isSyncing

(* A new session starts counting again. *)
LEMMA ConnectedKeeps == PressureInv /\ handle_deviceConnected => PressureInv'
<1> SUFFICES ASSUME PressureInv, handle_deviceConnected PROVE PressureInv'
  OBVIOUS
<1>1. inbox # <<>> /\ inbox' = Append(Tail(inbox), Job("sync", None)) /\ failures' = 0 /\ gaveUp' = FALSE
      /\ UNCHANGED <<taps, attempt, stage>>
  BY DEF handle_deviceConnected, Is, engine, sync
<1>2. Job("sync", None) \in Jobs
  BY DEF Job, Jobs, JobKinds
<1>3. inbox' \in Seq(Jobs)
  BY <1>1, <1>2, AskedTail, AskedAppend DEF PressureInv
<1>4. SyncTask'
  BY <1>1 DEF PressureInv, SyncTask, attempts
<1> QED BY <1>1, <1>3, <1>4 DEF PressureInv

LEMMA DisconnectedKeeps == PressureInv /\ handle_deviceDisconnected => PressureInv'
<1> SUFFICES ASSUME PressureInv, handle_deviceDisconnected PROVE PressureInv'
  OBVIOUS
<1>1. PICK fifth, eighth \in BOOLEAN : Polled(None, FALSE, FALSE, Tail(inbox), fifth, eighth)
  BY DEF handle_deviceDisconnected
<1>2. Tail(inbox) \in Seq(Jobs)
  BY AskedTail DEF handle_deviceDisconnected, Is, PressureInv
<1>3. UNCHANGED sync /\ taps' = taps /\ listed' = FALSE
  BY DEF handle_deviceDisconnected
<1> QED BY <1>1, <1>2, <1>3, PolledKeeps

LEMMA DisconnectLinkKeeps == PressureInv /\ disconnectLink => PressureInv'
<1> SUFFICES ASSUME PressureInv, disconnectLink PROVE PressureInv'
  OBVIOUS
<1>1. PICK fifth, eighth \in BOOLEAN : Polled(None, gaveUp, listed, Tail(inbox), fifth, eighth)
  BY DEF disconnectLink
<1>2. Tail(inbox) \in Seq(Jobs) /\ gaveUp \in BOOLEAN
  BY AskedTail DEF disconnectLink, Is, PressureInv
<1>3. UNCHANGED sync /\ taps' = taps /\ listed' = listed
  BY DEF disconnectLink
<1> QED BY <1>1, <1>2, <1>3, PolledKeeps

LEMMA PollKeeps ==
    ASSUME PressureInv, NEW fifth \in BOOLEAN, NEW eighth \in BOOLEAN, pollLinkState(fifth, eighth)
    PROVE  PressureInv'
<1>1. Polled(device, gaveUp, listed, inbox, fifth, eighth) /\ UNCHANGED sync /\ taps' = taps /\ listed' = listed
  BY DEF pollLinkState
<1>2. inbox \in Seq(Jobs) /\ gaveUp \in BOOLEAN /\ (MayBegin /\ Asked(inbox) => failures = 0)
  BY DEF PressureInv
<1> QED BY <1>1, <1>2, PolledKeeps

(* A job that begins the task finds no failure. *)
LEMMA BeginSyncKeeps == PressureInv /\ beginSync => PressureInv'
<1> SUFFICES ASSUME PressureInv, beginSync PROVE PressureInv'
  OBVIOUS
<1>1. inbox # <<>> /\ Head(inbox).kind = "sync" /\ inbox' = Tail(inbox)
      /\ UNCHANGED <<taps, device, gaveUp, listed, failures>>
  BY DEF beginSync, Is, Next1, engine
<1>2. Asked(inbox)
  <2>1. 1 \in 1..Len(inbox) /\ inbox[1] = Head(inbox)
    BY <1>1 DEF PressureInv
  <2> QED BY <1>1, <2>1 DEF Asked
<1>3. inbox' \in Seq(Jobs) /\ (Asked(inbox') => Asked(inbox))
  BY <1>1, AskedTail DEF PressureInv
<1>4. Asked(inbox)' = Asked(inbox')
  BY DEF Asked
<1>5. CASE isSyncing \/ gaveUp
  BY <1>1, <1>3, <1>4, <1>5 DEF beginSync, sync, PressureInv, SyncTask, MayBegin, isSyncing
<1>6. CASE ~(isSyncing \/ gaveUp)
  <2>1. failures = 0 /\ attempt' = 1 /\ stage' = "asks"
    BY <1>2, <1>6 DEF beginSync, PressureInv, MayBegin
  <2> QED BY <1>1, <1>3, <2>1 DEF PressureInv, SyncTask, MayBegin, isSyncing, attempts
<1> QED BY <1>5, <1>6

(* Attempts are made one after the other, and the third that fails is the last. *)
LEMMA AttemptKeeps ==
    PressureInv /\ (attemptSucceeds \/ attemptFails \/ nextAttempt) => PressureInv'
<1> SUFFICES ASSUME PressureInv, attemptSucceeds \/ attemptFails \/ nextAttempt PROVE PressureInv'
  OBVIOUS
<1>1. inbox = <<>> /\ inbox' = inbox /\ taps' = taps /\ device' = device
  BY DEF attemptSucceeds, attemptFails, nextAttempt, idle, engine
<1>2. ~Asked(inbox)' /\ inbox' \in Seq(Jobs)
  BY <1>1 DEF Asked, PressureInv
<1>3. CASE attemptSucceeds
  BY <1>1, <1>2, <1>3 DEF attemptSucceeds, PressureInv, SyncTask, MayBegin, isSyncing, attempts
<1>4. CASE attemptFails
  <2>1. SyncTask'
    BY <1>1, <1>4 DEF attemptFails, PressureInv, SyncTask, attempts
  <2>2. gaveUp' \in BOOLEAN /\ (MayBegin' => device = None)
    BY <1>4 DEF attemptFails, PressureInv, MayBegin, isSyncing
  <2> QED BY <1>1, <1>2, <2>1, <2>2 DEF PressureInv
<1>5. CASE nextAttempt
  BY <1>1, <1>2, <1>5 DEF nextAttempt, PressureInv, SyncTask, MayBegin, isSyncing, attempts
<1> QED BY <1>3, <1>4, <1>5

LEMMA RetryKeeps == PressureInv /\ retrySync => PressureInv'
<1> SUFFICES ASSUME PressureInv, retrySync PROVE PressureInv'
  OBVIOUS
<1>1. failures' = 0 /\ gaveUp' = FALSE /\ inbox' = Append(inbox, Job("sync", None))
      /\ UNCHANGED <<taps, attempt, stage>>
  BY DEF retrySync, Queued, engine, sync
<1>2. Job("sync", None) \in Jobs
  BY DEF Job, Jobs, JobKinds
<1>3. inbox' \in Seq(Jobs)
  BY <1>1, <1>2, AskedAppend DEF PressureInv
<1>4. SyncTask'
  BY <1>1 DEF PressureInv, SyncTask, attempts
<1> QED BY <1>1, <1>3, <1>4 DEF PressureInv

LEMMA PressureStep == PressureInv /\ [Next]_vars => PressureInv'
<1> SUFFICES ASSUME PressureInv, [Next]_vars PROVE PressureInv'
  OBVIOUS
<1> DEFINE quiet == Job("stopped", None)
<1>1. taps \in Nat
  BY DEF PressureInv, SyncTask
<1>2. quiet \in Jobs /\ quiet.kind # "sync"
  BY DEF Job, Jobs, JobKinds
<1>3. CASE EngineStep /\ UNCHANGED app
  <2>1. taps' \in {taps, taps + 1}
    <3>1. ASSUME NEW p \in Procs, Begin(p) \/ KillLoops(p) PROVE taps' = taps
      BY <3>1 DEF Begin, KillLoops
    <3>2. ASSUME NEW w \in Wrappers, Bind(w) \/ Interrupt(w) \/ Listen(w) PROVE taps' = taps
      BY <3>2 DEF Bind, Interrupt, Listen
    <3>3. ASSUME NEW e \in Engines, \/ StartPppd(e) \/ OpenPort(e) \/ ChatTimesOut(e) \/ Notice(e)
                                    \/ PppdEnded(e) \/ Wake(e)
          PROVE  taps' = taps
      BY <3>3 DEF StartPppd, OpenPort, ChatTimesOut, Notice, PppdEnded, Wake
    <3>4. ASSUME Tap \/ Leave PROVE taps' \in {taps, taps + 1}
      BY <3>4 DEF Tap, Leave
    <3> QED BY <1>3, <3>1, <3>2, <3>3, <3>4 DEF EngineStep
  <2> QED BY <1>1, <1>2, <1>3, <2>1, QueuedKeeps DEF app
<1>4. CASE \E p \in Procs : AppClearPort(p)
  BY <1>1, <1>2, <1>4, QueuedKeeps DEF AppClearPort, ClearPort, Queued, sync
<1>5. CASE AppCall
  <2>1. Job("connected", taps) \in Jobs /\ Job("connected", taps).kind # "sync"
    BY <1>1 DEF Job, Jobs, JobKinds
  <2> QED BY <1>1, <1>5, <2>1, QueuedKeeps DEF AppCall, Call, sync
<1>6. CASE AppEndSession
  <2>1. Job("disconnected", None) \in Jobs /\ Job("disconnected", None).kind # "sync"
    BY DEF Job, Jobs, JobKinds
  <2> QED BY <1>1, <1>6, <2>1, QueuedKeeps DEF AppEndSession, EndSession, Queued, sync
<1>7. CASE UNCHANGED vars
  BY <1>1, <1>2, <1>7, QueuedKeeps DEF vars, engine, app
<1> QED BY <1>3, <1>4, <1>5, <1>6, <1>7, StartKeeps, PollKeeps, HandleListenerKeeps, ConnectedKeeps,
           DisconnectedKeeps, DisconnectLinkKeeps, BeginSyncKeeps, AttemptKeeps, RetryKeeps DEF Next

(* "Prevents the poll loop from retrying forever" (AppModel.swift): however many runs
   and sessions there are, and however polls, listings and the user overlap, a session
   meets at most three failed attempts until the user asks again. *)
THEOREM SessionsAreSpared == Spec => []PressureIsBounded
<1>1. PressureInv => PressureIsBounded
  BY DEF PressureInv, SyncTask, PressureIsBounded
<1> QED BY <1>1, PressureInit, PressureStep, PTL DEF Spec
=============================================================================
