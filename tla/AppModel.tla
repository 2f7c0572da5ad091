------------------------------- MODULE AppModel -------------------------------
(***************************************************************************)
(* The Mac app beside PppEngine: its listener (DccmListener.swift, whose   *)
(* stream of packets is that of module Dccm), and AppModel.swift with its  *)
(* poll, companion mode and the first listing of a new session, which is   *)
(* tried three times.                                                      *)
(*                                                                         *)
(* The main actor runs one job at a time, in the order they were queued;   *)
(* an await gives way to others.  The periods of the poll (every fifth     *)
(* one tries to take over the port, every eighth one may list again) are   *)
(* left to chance.  Browsing by the user and transfers are left out.       *)
(***************************************************************************)
EXTENDS PppEngine

VARIABLES
    own,        \* the app's listener: None until the app is opened, "bound", "busy"
    inbox,      \* jobs queued on the main actor
    companion,  \* companionMode
    device,     \* the session shown, or None
    gaveUp,     \* syncGaveUp
    listed,     \* entries are not empty
    attempt,    \* initialSync: the attempt under way
    stage,      \* "idle", "asks" (awaits RAPI), "sleeps"
    failures    \* attempts failed since the session began or the user asked again (history)

app == <<own, inbox, companion, device, gaveUp, listed, attempt, stage, failures>>
vars == <<engine, app>>
sync == <<attempt, stage>>

attempts == 3  \* backoffSeconds.count
isSyncing == stage # "idle"
idle == inbox = <<>>  \* what resumes or fires now was queued after the jobs before
Job(kind, id) == [kind |-> kind, id |-> id]
Queued(kind) == inbox' = Append(inbox, Job(kind, None))

Init ==
    /\ EngineInit
    /\ own = None /\ inbox = <<>> /\ companion = FALSE
    /\ device = None /\ gaveUp = FALSE /\ listed = FALSE
    /\ attempt = 0 /\ stage = "idle" /\ failures = 0

-----------------------------------------------------------------------------
(* The app's listener, on a thread of its own.  It binds, or finds the port taken,
   as soon as it is started. *)

runListener(jobs) ==
    IF port = None THEN own' = "bound" /\ port' = App /\ inbox' = Append(jobs, Job("listening", None))
                   ELSE own' = "busy" /\ UNCHANGED port /\ inbox' = Append(jobs, Job("portBusy", None))

start ==
    /\ own = None /\ runListener(<<>>)
    /\ UNCHANGED <<engineVars, session, called, taps, file>>
    /\ UNCHANGED <<companion, device, gaveUp, listed, sync, failures>>

AppCall ==
    /\ Call
    /\ inbox' = (IF port = App THEN Append(inbox, Job("connected", taps)) ELSE inbox)
    /\ UNCHANGED <<own, companion, device, gaveUp, listed, sync, failures>>
AppEndSession ==
    /\ EndSession
    /\ IF session.by = App THEN Queued("disconnected") ELSE UNCHANGED inbox
    /\ UNCHANGED <<own, companion, device, gaveUp, listed, sync, failures>>

(* disconnectLink goes on when the command it waits for has ended; the user may also
   have given the command by hand. *)
AppClearPort(p) ==
    /\ ClearPort(p)
    /\ \/ UNCHANGED inbox
       \/ p \in Stops \cup Kills /\ own # None /\ Queued("stopped")
    /\ UNCHANGED <<own, companion, device, gaveUp, listed, sync, failures>>

-----------------------------------------------------------------------------
(* Jobs of the main actor *)

(* pollLinkState with a device `d' and a latch `g', after the job at hand: in
   companion mode it reads the file, and every fifth time tries to take over the
   port; every eighth time it lists again what was not listed. *)
(* Mutant: what the file named stays when the file and the link are gone. *)
Polled_Keeps(d, g, l, jobs, fifth, eighth) ==
    LET shown == IF companion /\ file # None /\ d = None THEN file ELSE d
        begun == d = None /\ shown # None
        latch == g /\ ~begun
    IN  /\ device' = shown /\ gaveUp' = latch
        /\ inbox' = jobs \o (IF begun THEN <<Job("sync", None)>> ELSE <<>>)
        /\ failures' = (IF begun THEN 0 ELSE failures)
        /\ UNCHANGED <<own, port>>
Polled(d, g, l, jobs, fifth, eighth) ==
    LET shown == IF ~companion THEN d
                 ELSE IF file # None THEN (IF d = None THEN file ELSE d)
                 ELSE IF linkIsUp THEN d ELSE None
        begun == d = None /\ shown # None
        latch == g /\ ~begun
        again == eighth /\ shown # None /\ ~l /\ ~isSyncing /\ ~latch
        queued == jobs \o (IF begun THEN <<Job("sync", None)>> ELSE <<>>)
                       \o (IF again THEN <<Job("sync", None)>> ELSE <<>>)
    IN  /\ device' = shown /\ gaveUp' = latch
        /\ IF companion /\ fifth /\ shown = None /\ own = "busy"
             THEN runListener(queued) ELSE inbox' = queued /\ UNCHANGED <<own, port>>
        /\ failures' = (IF begun \/ shown = None THEN 0 ELSE failures)

pollLinkState(fifth, eighth) ==
    /\ own # None /\ idle
    /\ Polled(device, gaveUp, listed, inbox, fifth, eighth)
    /\ UNCHANGED <<engineVars, session, called, taps, file, companion, listed, sync>>

Next1 == Head(inbox)
Is(kind) == inbox # <<>> /\ Next1.kind = kind

handle_listener ==
    /\ Is("listening") \/ Is("portBusy")
    /\ companion' = Is("portBusy") /\ inbox' = Tail(inbox)
    /\ UNCHANGED <<engine, own, device, gaveUp, listed, sync, failures>>

handle_deviceConnected ==
    /\ Is("connected")
    /\ device' = Next1.id /\ gaveUp' = FALSE /\ failures' = 0
    /\ inbox' = Append(Tail(inbox), Job("sync", None))
    /\ UNCHANGED <<engine, own, companion, listed, sync>>

handle_deviceDisconnected ==
    /\ Is("disconnected")
    /\ listed' = FALSE
    /\ \E fifth, eighth \in BOOLEAN : Polled(None, FALSE, FALSE, Tail(inbox), fifth, eighth)
    /\ UNCHANGED <<engineVars, session, called, taps, file, companion, sync>>

disconnectLink ==
    /\ Is("stopped")
    /\ \E fifth, eighth \in BOOLEAN : Polled(None, gaveUp, listed, Tail(inbox), fifth, eighth)
    /\ UNCHANGED <<engineVars, session, called, taps, file, companion, listed, sync>>

(* initialSync: one task at a time, none once the session has given up. *)
beginSync ==
    /\ Is("sync") /\ inbox' = Tail(inbox)
    /\ IF isSyncing \/ gaveUp THEN UNCHANGED sync ELSE attempt' = 1 /\ stage' = "asks"
    /\ UNCHANGED <<engine, own, companion, device, gaveUp, listed, failures>>

(* An attempt over a live link may succeed or fail; over a dead one it fails. *)
attemptSucceeds ==
    /\ idle /\ stage = "asks" /\ up
    /\ listed' = TRUE /\ stage' = "idle" /\ attempt' = 0
    /\ UNCHANGED <<engine, own, inbox, companion, device, gaveUp, failures>>

(* Mutant: the session is never given up. *)
attemptFails_NoLatch ==
    /\ idle /\ stage = "asks" /\ failures < 2 * attempts
    /\ failures' = failures + 1
    /\ \/ (device = None \/ attempt = attempts) /\ stage' = "idle" /\ attempt' = 0
       \/ device # None /\ attempt < attempts /\ stage' = "sleeps" /\ UNCHANGED attempt
    /\ UNCHANGED <<engine, own, inbox, companion, device, gaveUp, listed>>
(* Mutant: the early return leaves isSyncing set. *)
attemptFails_Leaks ==
    /\ idle /\ stage = "asks"
    /\ failures' = failures + 1
    /\ \/ device = None /\ stage' = "returned" /\ UNCHANGED <<attempt, gaveUp>>
       \/ device # None /\ attempt < attempts /\ stage' = "sleeps" /\ UNCHANGED <<attempt, gaveUp>>
       \/ device # None /\ attempt = attempts /\ stage' = "idle" /\ attempt' = 0 /\ gaveUp' = TRUE
    /\ UNCHANGED <<engine, own, inbox, companion, device, listed>>
attemptFails ==
    /\ idle /\ stage = "asks"
    /\ failures' = failures + 1
    /\ \/ device = None /\ stage' = "idle" /\ attempt' = 0 /\ UNCHANGED gaveUp
       \/ device # None /\ attempt < attempts /\ stage' = "sleeps" /\ UNCHANGED <<attempt, gaveUp>>
       \/ device # None /\ attempt = attempts /\ stage' = "idle" /\ attempt' = 0 /\ gaveUp' = TRUE
    /\ UNCHANGED <<engine, own, inbox, companion, device, listed>>

nextAttempt ==
    /\ idle /\ stage = "sleeps" /\ stage' = "asks" /\ attempt' = attempt + 1
    /\ UNCHANGED <<engine, own, inbox, companion, device, gaveUp, listed, failures>>

(* Asked for while a task is under way it changes nothing; of the rest, only the
   user who asks again after the app has given up is modelled. *)
retrySync ==
    /\ idle /\ gaveUp
    /\ gaveUp' = FALSE /\ failures' = 0 /\ Queued("sync")
    /\ UNCHANGED <<engine, own, companion, device, listed, sync>>

Next ==
    \/ EngineStep /\ UNCHANGED app
    \/ \E p \in Procs : AppClearPort(p)
    \/ AppCall \/ AppEndSession \/ start
    \/ \E fifth, eighth \in BOOLEAN : pollLinkState(fifth, eighth)
    \/ handle_listener \/ handle_deviceConnected \/ handle_deviceDisconnected
    \/ disconnectLink \/ beginSync \/ attemptSucceeds \/ attemptFails \/ nextAttempt \/ retrySync

(* What follows by itself on the line: the handheld calls, or hangs up when nobody
   serves it; pppd notices a peer that is gone, and so does the listener. *)
Line ==
    \/ AppCall \/ AppEndSession
    \/ HangUp /\ UNCHANGED app
    \/ \E e \in Engines : Notice(e) /\ UNCHANGED app

(* The line's timeouts pass, the main actor runs its jobs, every fortieth poll is a
   fifth and an eighth one, and calls and sleeps end however busy the main actor is.
   Nothing is owed by the user. *)
Fairness ==
    /\ WF_vars(Line)
    /\ WF_vars(handle_listener \/ handle_deviceConnected \/ handle_deviceDisconnected \/ disconnectLink \/ beginSync)
    /\ SF_vars(pollLinkState(TRUE, TRUE))
    /\ SF_vars(attemptSucceeds \/ attemptFails \/ nextAttempt)

Spec == Init /\ [][Next]_vars /\ Fairness

-----------------------------------------------------------------------------
(* Properties *)

(* "Prevents the poll loop from retrying forever -- sustained retry pressure is what
   wedges the device's rapisrv": however tasks, polls, sessions and retries by the
   user overlap, no more than three attempts fail before the app leaves a session
   alone. *)
PressureIsBounded == failures <= attempts

(* A session is not left connected but blank: its files are listed, or the app has
   given up and says so, or the session is over. *)
NeverBlank == (device # None /\ ~listed) ~> (listed \/ gaveUp \/ device = None)

(* A device that is shown while no listener serves one goes, unless a new session
   begins or the file of a killed listener still names it. *)
Lingers == companion /\ file # None /\ session = None
ShownIsReal == (device # None /\ session = None) ~> (device = None \/ session # None \/ Lingers)
=============================================================================
