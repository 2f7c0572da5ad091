-------------------------------- MODULE Rapi --------------------------------
(***************************************************************************)
(* RAPI calls over one connection to the device's file service: the frame  *)
(* exchange (jornada/rapi.py, RapiClient.swift), the whole-file helpers    *)
(* built on it, and what their callers do when a call fails: a batch of    *)
(* the command line that carries on with its next entry (remove.py,        *)
(* backup.py, restore.py, sync/engine.py), or the app's RapiService, which *)
(* closes the connection after a socket error.                             *)
(*                                                                         *)
(* Nothing in a frame says which call it answers: a client takes the next  *)
(* frame for the answer to its last call.                                  *)
(***************************************************************************)
EXTENDS Naturals, Sequences

CONSTANTS
    Jobs,         \* entries of a batch, or actions of the app's user
    Program,      \* the calls of a job: <<"call">>, or "open", some "write", "close"
    CloseOnError, \* TRUE: RapiService; FALSE: a batch over one RapiClient
    SwallowClose, \* TRUE: `defer { try? closeHandle }'; FALSE: Python's finally
    SlowOps,      \* calls the device may answer later than the client waits
    MaxFaults,    \* bound on timeouts and lost connections
    None

ASSUME ProgramAssumption ==
    \A j \in Jobs :
      /\ Program[j] \in Seq({"call", "open", "write", "close"}) /\ Program[j] # <<>>
      /\ Program[j] = <<"call">>
           \/ /\ Len(Program[j]) > 1 /\ Program[j][1] = "open" /\ Program[j][Len(Program[j])] = "close"
              /\ \A n \in 2 .. Len(Program[j]) - 1 : Program[j][n] = "write"
ASSUME SwitchesAssumption ==
    {CloseOnError, SwallowClose} \subseteq BOOLEAN /\ MaxFaults \in Nat /\ None \notin Jobs

VARIABLES
    conn,      \* "none", "up", or "broken": dead, but the client still holds its socket
    requests,  \* calls on their way to the device, in order
    answers,   \* answers on their way to the client, in order
    orphans,   \* calls of closed connections that the device may still carry out
    job, pc,   \* the job under way and the call it is at
    waiting,   \* the call has been sent
    handle,    \* the file handle the job works with, named after the job it was opened for
    failure,   \* what went wrong in the job: "none", "refused", "garbled", "socket"
    result,    \* what the caller reports of each job
    content,   \* on the device: which jobs' calls made each job's file what it is, from its
               \* creation on; <<j>> when the single call of job j has been carried out
    opened,    \* on the device: the handles that are open
    faults

client == <<job, pc, waiting, handle, failure, result>>
device == <<content, opened>>
vars == <<conn, requests, answers, orphans, client, device, faults>>

Ops == {"call", "open", "write", "close"}
Handles == Jobs \cup {None}  \* None: a number that is no open handle
Call == [job : Jobs, op : Ops, h : Handles]
Answer == [op : Ops, ok : BOOLEAN, h : Handles]

Init ==
    /\ conn = (IF CloseOnError THEN "none" ELSE "up")
    /\ requests = <<>> /\ answers = <<>> /\ orphans = {}
    /\ job = None /\ pc = 1 /\ waiting = FALSE /\ handle = None /\ failure = "none"
    /\ result = [j \in Jobs |-> "todo"]
    /\ content = [j \in Jobs |-> <<>>] /\ opened = {} /\ faults = 0

op == Program[job][pc]

-------------------------------------------------------------------------------
(* The device: rapisrv carries out one call after the other.               *)

(* What a call does when the device accepts it, and the answer to it.      *)
Performs(c) ==
    CASE c.op = "call" -> content' = [content EXCEPT ![c.job] = <<c.job>>] /\ UNCHANGED opened
      [] c.op = "open" -> content' = [content EXCEPT ![c.job] = <<c.job>>] /\ opened' = opened \cup {c.job}
      [] c.op = "write" -> content' = [content EXCEPT ![c.h] = Append(@, c.job)] /\ UNCHANGED opened
      [] c.op = "close" -> opened' = opened \ {c.h} /\ UNCHANGED content

Accepts(c) == c.op \in {"write", "close"} => c.h \in opened

(* It refuses what it cannot do, and, for lack of room or rights, anything *)
(* but closing an open handle.                                             *)
Carries(c, ok) ==
    \/ ok /\ Accepts(c) /\ Performs(c)
    \/ ~ok /\ (c.op = "close" => ~Accepts(c)) /\ UNCHANGED device

AnswerTo(c, ok) == [op |-> c.op, ok |-> ok, h |-> IF c.op = "open" /\ ok THEN c.job ELSE None]

Serve ==
    /\ conn = "up" /\ requests # <<>>
    /\ \E ok \in BOOLEAN :
         /\ Carries(Head(requests), ok)
         /\ answers' = Append(answers, AnswerTo(Head(requests), ok))
    /\ requests' = Tail(requests)
    /\ UNCHANGED <<conn, orphans, client, faults>>

ServeOrphan ==
    /\ \E c \in orphans : (\E ok \in BOOLEAN : Carries(c, ok)) /\ orphans' = orphans \ {c}
    /\ UNCHANGED <<conn, requests, answers, client, faults>>

-------------------------------------------------------------------------------
(* The connection.                                                         *)
Dropped(state) ==
    /\ conn' = state
    /\ orphans' = orphans \cup {requests[i] : i \in DOMAIN requests}
    /\ requests' = <<>> /\ answers' = <<>>

Fault == faults < MaxFaults /\ faults' = faults + 1

(* The link is lost; the client notices at its next send or receive.       *)
Drop ==
    /\ Fault /\ conn = "up" /\ Dropped("broken")
    /\ UNCHANGED <<client, device>>

-------------------------------------------------------------------------------
(* The client.                                                             *)

(* Mutant: RapiService keeps its connection whatever went wrong.           *)
MustClose_Never(f) == FALSE

(* RapiService closes the connection when the job threw a SocketError.     *)
MustClose(f) == CloseOnError /\ f = "socket"

(* What becomes of the connection when the job is over; rest is what has   *)
(* not been read of the answers.                                           *)
Leaves(f, rest) ==
    IF MustClose(f) THEN Dropped("none")
    ELSE answers' = rest /\ UNCHANGED <<conn, requests, orphans>>

(* The job is over, having failed with f unless that is "none".            *)
End(f, rest) ==
    /\ result' = [result EXCEPT ![job] =
         CASE f = "none" -> "done" [] f = "refused" -> "refused" [] f \in {"garbled", "socket"} -> "failed"]
    /\ job' = None /\ pc' = 1 /\ waiting' = FALSE /\ handle' = None /\ failure' = "none"
    /\ Leaves(f, rest)

(* Mutant: an upload whose write fails is started over.                    *)
Cleanup_StartsOver(j) == 1

Cleanup(j) == Len(Program[j])

(* The job goes on with its call n.                                        *)
GoOn(n, h, f, rest) ==
    /\ pc' = n /\ handle' = h /\ failure' = f /\ waiting' = FALSE /\ answers' = rest
    /\ UNCHANGED <<job, result, conn, requests, orphans>>

(* The call of a job fails: after a write the cleanup closes the handle on *)
(* the same connection; a failure of that close replaces the first one in  *)
(* Python and is ignored in Swift.                                         *)
Fails(f, rest) ==
    CASE op = "write" -> GoOn(Cleanup(job), handle, f, rest)
      [] op = "close" -> End(IF SwallowClose THEN failure ELSE f, rest)
      [] op \in {"open", "call"} -> End(f, rest)

Succeeds(h, rest) ==
    IF pc < Len(Program[job]) THEN GoOn(pc + 1, h, failure, rest) ELSE End(failure, rest)

(* The next entry, or the next action of the user, on the open connection  *)
(* or, in the app, on a new one.                                           *)
Begin(j) ==
    /\ job = None /\ result[j] = "todo"
    /\ IF CloseOnError /\ conn = "none" THEN conn' = "up" ELSE UNCHANGED conn
    /\ job' = j /\ pc' = 1 /\ waiting' = FALSE /\ handle' = None /\ failure' = "none"
    /\ UNCHANGED <<requests, answers, orphans, result, device, faults>>

(* The device cannot be reached: the app's job fails without a call.       *)
CannotConnect(j) ==
    /\ Fault /\ CloseOnError /\ job = None /\ result[j] = "todo" /\ conn = "none"
    /\ result' = [result EXCEPT ![j] = "failed"]
    /\ UNCHANGED <<conn, requests, answers, orphans, job, pc, waiting, handle, failure, device>>

Send ==
    /\ job # None /\ ~waiting /\ conn = "up"
    /\ requests' = Append(requests, [job |-> job, op |-> op, h |-> handle])
    /\ waiting' = TRUE
    /\ UNCHANGED <<conn, answers, orphans, job, pc, handle, failure, result, device, faults>>

(* Mutant: a refused open is not told from an accepted one.                *)
Parse_OpenAlwaysOk(a) == IF op = "open" \/ a.ok THEN "ok" ELSE "refused"

(* How the frame a reads as the answer to the current call.  An open only  *)
(* checks for INVALID_HANDLE_VALUE and takes every other number for its    *)
(* handle; the other calls take every number but 0 for success; a write    *)
(* wants the count of bytes behind it, which only a write's answer has.    *)
Parse(a) ==
    LET invalid == a.op = "open" /\ ~a.ok
        zero == a.op # "open" /\ ~a.ok
    IN CASE op = "open" -> IF invalid THEN "refused" ELSE "ok"
         [] op \in {"call", "close"} -> IF zero THEN "refused" ELSE "ok"
         [] op = "write" -> IF zero THEN "refused" ELSE IF a.op = "write" THEN "ok" ELSE "garbled"

Receive ==
    /\ job # None /\ waiting /\ conn = "up" /\ answers # <<>>
    /\ LET a == Head(answers)
           rest == Tail(answers)
       IN IF Parse(a) = "ok"
          THEN Succeeds(IF op = "open" THEN a.h ELSE handle, rest)
          ELSE Fails(Parse(a), rest)
    /\ UNCHANGED <<device, faults>>

(* The answer does not come in time; it may still come later.              *)
TimeOut ==
    /\ Fault /\ job # None /\ waiting /\ conn = "up" /\ answers = <<>> /\ op \in SlowOps
    /\ Fails("socket", answers)
    /\ UNCHANGED device

(* Mutant: a connection lost while the client waits is not noticed.        *)
Broken_OnlyWhenSending ==
    /\ job # None /\ conn = "broken" /\ ~waiting
    /\ Fails("socket", answers)
    /\ UNCHANGED <<device, faults>>

(* Sending on or receiving from a lost connection fails.                   *)
Broken ==
    /\ job # None /\ conn = "broken"
    /\ Fails("socket", answers)
    /\ UNCHANGED <<device, faults>>

Work == (\E j \in Jobs : Begin(j)) \/ Send \/ Receive \/ Broken

Next ==
    \/ Work \/ Serve \/ ServeOrphan
    \/ TimeOut \/ Drop \/ (\E j \in Jobs : CannotConnect(j))

Spec == Init /\ [][Next]_vars

(* The client works off its jobs and the device answers sooner or later.   *)
LiveSpec == Spec /\ WF_vars(Work) /\ WF_vars(Serve)

-------------------------------------------------------------------------------
(* Properties.                                                             *)
TypeOK ==
    /\ conn \in {"none", "up", "broken"}
    /\ requests \in Seq(Call) /\ answers \in Seq(Answer) /\ orphans \subseteq Call
    /\ job \in Handles /\ (job # None => pc \in DOMAIN Program[job])
    /\ waiting \in BOOLEAN /\ handle \in Handles
    /\ failure \in {"none", "refused", "garbled", "socket"}
    /\ result \in [Jobs -> {"todo", "done", "refused", "failed"}]
    /\ content \in [Jobs -> Seq(Jobs)] /\ opened \subseteq Jobs /\ faults \in 0..MaxFaults

(* A job is reported done exactly when the device has done all of it, to   *)
(* the file the job opened, and refused only when it has not: no call is   *)
(* settled by the answer to another one.                                   *)
Steps(j) == IF Program[j] = <<"call">> THEN 1 ELSE Len(Program[j]) - 1
Copies(j, n) == [i \in 1..n |-> j]
Complete(j) == content[j] = Copies(j, Steps(j))

Whole == {j \in Jobs : Complete(j)}

ReportsAreTrue ==
    \A j \in Jobs : /\ result[j] = "done" => Complete(j)
                    /\ result[j] = "refused" => ~Complete(j)

(* Seen from its caller, the client implements module Calls: moreover a    *)
(* job takes effect once, and nothing late undoes or completes one that    *)
(* has been reported done or refused.                                      *)
C == INSTANCE Calls WITH whole <- Whole
ImplementsCalls == C!Spec

(* A job only ever works with the handle its own open was given, and the   *)
(* device holds that file open for it.                                     *)
OwnHandle == job # None /\ pc > 1 => handle = job /\ (conn = "up" /\ ~waiting => job \in opened)

(* Every job is reported in the end, whatever connection is lost under it. *)
AllReported == <>(\A j \in Jobs : result[j] # "todo")
===============================================================================
