----------------------------- MODULE RapiProofs -----------------------------
(* Safety of the RAPI clients, for any jobs and any bounds.                *)
EXTENDS Rapi, TLAPS

(* What the programs of jobs look like, call by call.                      *)
LEMMA ProgramShape ==
    ASSUME NEW j \in Jobs
    PROVE  /\ Len(Program[j]) \in Nat \ {0} /\ DOMAIN Program[j] = 1..Len(Program[j])
           /\ Steps(j) = IF Len(Program[j]) = 1 THEN 1 ELSE Len(Program[j]) - 1
           /\ \A n \in 1..Len(Program[j]) :
                /\ Program[j][n] \in Ops
                /\ Program[j][n] = "call" => n = 1 /\ Len(Program[j]) = 1
                /\ Program[j][n] = "open" => n = 1 /\ Len(Program[j]) > 1
                /\ Program[j][n] = "write" => 1 < n /\ n < Len(Program[j])
                /\ Program[j][n] = "close" => n = Len(Program[j]) /\ n > 1
           /\ Len(Program[j]) > 1 => Program[j][Len(Program[j])] = "close"
<1>1. Program[j] \in Seq(Ops) /\ Program[j] # <<>> /\ Len(Program[j]) \in Nat \ {0}
      /\ DOMAIN Program[j] = 1..Len(Program[j])
  BY ProgramAssumption DEF Ops
<1>2. CASE Program[j] = <<"call">>
  BY <1>1, <1>2 DEF Ops, Steps
<1>3. CASE /\ Len(Program[j]) > 1 /\ Program[j][1] = "open" /\ Program[j][Len(Program[j])] = "close"
           /\ \A n \in 2 .. Len(Program[j]) - 1 : Program[j][n] = "write"
  <2>1. Program[j] # <<"call">>
    BY <1>3
  <2>2. ASSUME NEW n \in 1..Len(Program[j])
        PROVE  n = 1 \/ n = Len(Program[j]) \/ n \in 2 .. Len(Program[j]) - 1
    BY <1>1
  <2> QED BY <1>1, <1>3, <2>1, <2>2 DEF Ops, Steps
<1> QED BY <1>2, <1>3, ProgramAssumption

(* Sequences of one job's calls.                                           *)
LEMMA CopiesFacts ==
    ASSUME NEW j \in Jobs
    PROVE  /\ Copies(j, 0) = <<>> /\ Copies(j, 1) = <<j>>
           /\ \A n \in Nat : /\ Copies(j, n) \in Seq(Jobs) /\ Len(Copies(j, n)) = n
                             /\ Append(Copies(j, n), j) = Copies(j, n + 1)
<1>1. ASSUME NEW n \in Nat PROVE Copies(j, n) \in Seq(Jobs) /\ Len(Copies(j, n)) = n
  BY DEF Copies
<1>2. Copies(j, 0) = <<>>
  BY <1>1
<1>3. Copies(j, 1) = <<j>>
  BY DEF Copies
<1>4. ASSUME NEW n \in Nat PROVE Append(Copies(j, n), j) = Copies(j, n + 1)
  <2>1. Append(Copies(j, n), j) \in Seq(Jobs) /\ Len(Append(Copies(j, n), j)) = n + 1
    BY <1>1
  <2>2. Copies(j, n + 1) \in Seq(Jobs) /\ Len(Copies(j, n + 1)) = n + 1
    BY <1>1
  <2>3. ASSUME NEW i \in 1..(n + 1) PROVE Append(Copies(j, n), j)[i] = Copies(j, n + 1)[i]
    BY <1>1 DEF Copies
  <2> QED BY <2>1, <2>2, <2>3
<1> QED BY <1>1, <1>2, <1>3, <1>4

-------------------------------------------------------------------------------
(* Type correctness.                                                       *)
Failures == {"none", "refused", "garbled", "socket"}

LEMMA LeavesType ==
    ASSUME TypeOK, NEW f, NEW rest \in Seq(Answer), Leaves(f, rest)
    PROVE  /\ conn' \in {"none", "up", "broken"}
           /\ requests' \in Seq(Call) /\ answers' \in Seq(Answer) /\ orphans' \subseteq Call
<1>1. \A i \in DOMAIN requests : requests[i] \in Call
  BY DEF TypeOK
<1>2. CASE Dropped("none")
  BY <1>1, <1>2 DEF TypeOK, Dropped
<1>3. CASE answers' = rest /\ UNCHANGED <<conn, requests, orphans>>
  BY <1>3 DEF TypeOK
<1> QED BY <1>2, <1>3 DEF Leaves

LEMMA EndType ==
    ASSUME TypeOK, job \in Jobs, NEW f \in Failures, NEW rest \in Seq(Answer), End(f, rest),
           UNCHANGED device, faults' \in 0..MaxFaults
    PROVE  TypeOK'
<1>1. result' \in [Jobs -> {"todo", "done", "refused", "failed"}]
  BY DEF TypeOK, End, Failures
<1>2. /\ conn' \in {"none", "up", "broken"}
      /\ requests' \in Seq(Call) /\ answers' \in Seq(Answer) /\ orphans' \subseteq Call
  BY LeavesType DEF End
<1> QED BY <1>1, <1>2 DEF TypeOK, End, Handles, device

LEMMA GoOnType ==
    ASSUME TypeOK, job \in Jobs, NEW n \in DOMAIN Program[job], NEW h \in Handles,
           NEW f \in Failures, NEW rest \in Seq(Answer), GoOn(n, h, f, rest),
           UNCHANGED device, faults' \in 0..MaxFaults
    PROVE  TypeOK'
BY DEF TypeOK, GoOn, Failures, device

LEMMA FailsType ==
    ASSUME TypeOK, job \in Jobs, NEW f \in Failures, NEW rest \in Seq(Answer), Fails(f, rest),
           UNCHANGED device, faults' \in 0..MaxFaults
    PROVE  TypeOK'
<1>0. job # None
  BY SwitchesAssumption
<1>1. op \in Ops /\ Cleanup(job) \in DOMAIN Program[job]
  BY <1>0, ProgramShape DEF TypeOK, op, Cleanup
<1>2. failure \in Failures /\ handle \in Handles
  BY DEF TypeOK, Failures
<1>3. CASE op = "write"
  BY <1>1, <1>2, <1>3, GoOnType DEF Fails
<1>4. CASE op = "close"
  BY <1>2, <1>4, EndType DEF Fails
<1>5. CASE op \in {"open", "call"}
  BY <1>5, EndType DEF Fails
<1> QED BY <1>1, <1>3, <1>4, <1>5 DEF Ops

LEMMA DeviceType ==
    ASSUME TypeOK, NEW c \in Call, NEW ok \in BOOLEAN, Carries(c, ok)
    PROVE  content' \in [Jobs -> Seq(Jobs)] /\ opened' \subseteq Jobs
<1>1. c.job \in Jobs /\ c.op \in Ops /\ c.h \in Handles
  BY DEF Call
<1>2. CASE UNCHANGED device
  BY <1>2 DEF TypeOK, device
<1>3. CASE Accepts(c) /\ Performs(c)
  <2>1. CASE c.op \in {"call", "open"}
    <3>1. content' = [content EXCEPT ![c.job] = <<c.job>>] /\ opened' \subseteq opened \cup {c.job}
      BY <1>3, <2>1 DEF Performs
    <3> QED BY <1>1, <3>1 DEF TypeOK
  <2>2. CASE c.op = "write"
    <3>1. c.h \in Jobs /\ content' = [content EXCEPT ![c.h] = Append(@, c.job)] /\ opened' = opened
      BY <1>3, <2>2 DEF Performs, Accepts, TypeOK
    <3>2. Append(content[c.h], c.job) \in Seq(Jobs)
      BY <1>1, <3>1 DEF TypeOK
    <3> QED BY <3>1, <3>2 DEF TypeOK
  <2>3. CASE c.op = "close"
    BY <1>3, <2>3 DEF Performs, TypeOK
  <2> QED BY <1>1, <2>1, <2>2, <2>3 DEF Ops
<1> QED BY <1>2, <1>3 DEF Carries

LEMMA TypeStep == TypeOK /\ [Next]_vars => TypeOK'
<1> SUFFICES ASSUME TypeOK, [Next]_vars PROVE TypeOK'
  OBVIOUS
<1> USE SwitchesAssumption
<1>f. faults \in 0..MaxFaults /\ (Fault => faults' \in 0..MaxFaults)
  BY DEF TypeOK, Fault
<1>c. job \in Handles /\ (job # None => job \in Jobs /\ op \in Ops)
  BY ProgramShape DEF TypeOK, Handles, op
<1>1. ASSUME NEW j \in Jobs, Begin(j) PROVE TypeOK'
  <2>1. 1 \in DOMAIN Program[j]
    BY ProgramShape
  <2> QED BY <1>1, <2>1 DEF Begin, TypeOK, Handles, device
<1>2. CASE Send
  <2>1. [job |-> job, op |-> op, h |-> handle] \in Call
    BY <1>2, <1>c DEF Send, Call, TypeOK
  <2>2. requests' \in Seq(Call)
    BY <1>2, <2>1 DEF Send, TypeOK
  <2> QED BY <1>2, <2>2 DEF Send, TypeOK, device
<1>3. CASE Receive
  <2>0. job \in Jobs
    BY <1>3, <1>c DEF Receive
  <2>1. Head(answers) \in Answer /\ Tail(answers) \in Seq(Answer)
    BY <1>3 DEF Receive, TypeOK
  <2>2. Head(answers).h \in Handles /\ handle \in Handles /\ failure \in Failures
    BY <2>1 DEF Answer, TypeOK, Failures
  <2>3. faults' \in 0..MaxFaults /\ UNCHANGED device
    BY <1>3, <1>f DEF Receive
  <2>4. CASE Parse(Head(answers)) = "ok"
    <3>1. PICK h \in Handles : Succeeds(h, Tail(answers))
      BY <1>3, <2>2, <2>4 DEF Receive
    <3>2. CASE pc < Len(Program[job])
      <4>1. pc + 1 \in DOMAIN Program[job]
        BY <2>0, <3>2, ProgramShape DEF TypeOK, Handles
      <4> QED BY <2>0, <2>1, <2>2, <2>3, <3>1, <3>2, <4>1, GoOnType DEF Succeeds
    <3>3. CASE ~(pc < Len(Program[job]))
      BY <2>0, <2>1, <2>2, <2>3, <3>1, <3>3, EndType DEF Succeeds
    <3> QED BY <3>2, <3>3
  <2>5. CASE Parse(Head(answers)) # "ok"
    <3>1. Parse(Head(answers)) \in Failures
      BY <2>0, <1>c, <2>5 DEF Parse, Failures, Ops
    <3>2. Fails(Parse(Head(answers)), Tail(answers))
      BY <1>3, <2>5 DEF Receive
    <3> QED BY <2>0, <2>1, <2>3, <3>1, <3>2, FailsType
  <2> QED BY <2>4, <2>5
<1>4. CASE Broken \/ TimeOut
  <2>1. job \in Jobs /\ answers \in Seq(Answer) /\ "socket" \in Failures
        /\ Fails("socket", answers) /\ UNCHANGED device /\ faults' \in 0..MaxFaults
    BY <1>4, <1>c, <1>f DEF Broken, TimeOut, TypeOK, Failures
  <2> QED BY <2>1, FailsType
<1>5. CASE Serve
  <2>1. PICK ok \in BOOLEAN : /\ Carries(Head(requests), ok)
                              /\ answers' = Append(answers, AnswerTo(Head(requests), ok))
    BY <1>5 DEF Serve
  <2>2. Head(requests) \in Call /\ Tail(requests) \in Seq(Call)
    BY <1>5 DEF Serve, TypeOK
  <2>3. AnswerTo(Head(requests), ok) \in Answer
    BY <2>2 DEF AnswerTo, Answer, Call, Handles
  <2>4. content' \in [Jobs -> Seq(Jobs)] /\ opened' \subseteq Jobs
    BY <2>1, <2>2, DeviceType
  <2>5. answers' \in Seq(Answer) /\ requests' \in Seq(Call)
    BY <1>5, <2>1, <2>2, <2>3 DEF Serve, TypeOK
  <2> QED BY <1>5, <2>4, <2>5 DEF Serve, TypeOK, client
<1>6. CASE ServeOrphan
  <2>1. PICK c \in orphans, ok \in BOOLEAN : Carries(c, ok) /\ orphans' = orphans \ {c}
    BY <1>6 DEF ServeOrphan
  <2>2. content' \in [Jobs -> Seq(Jobs)] /\ opened' \subseteq Jobs
    BY <2>1, DeviceType DEF TypeOK
  <2> QED BY <1>6, <2>1, <2>2 DEF ServeOrphan, TypeOK, client
<1>7. CASE Drop
  <2>1. \A i \in DOMAIN requests : requests[i] \in Call
    BY DEF TypeOK
  <2> QED BY <1>7, <1>f, <2>1 DEF Drop, Dropped, TypeOK, client, device
<1>8. ASSUME NEW j \in Jobs, CannotConnect(j) PROVE TypeOK'
  BY <1>8, <1>f DEF CannotConnect, TypeOK, device
<1>9. CASE UNCHANGED vars
  BY <1>9 DEF vars, client, device, TypeOK
<1> QED BY <1>1, <1>2, <1>3, <1>4, <1>5, <1>6, <1>7, <1>8, <1>9 DEF Next, Work

(* Every variable keeps its type, whatever the jobs are.                   *)
THEOREM TypeCorrect == Spec => []TypeOK
<1>0. 0 \in 0..MaxFaults
  BY SwitchesAssumption
<1>1. ASSUME Init PROVE TypeOK
  <2>1. conn \in {"none", "up", "broken"}
    BY <1>1 DEF Init
  <2>2. result \in [Jobs -> {"todo", "done", "refused", "failed"}]
        /\ content \in [Jobs -> Seq(Jobs)] /\ opened \subseteq Jobs
    BY <1>1 DEF Init
  <2>3. requests \in Seq(Call) /\ answers \in Seq(Answer) /\ orphans \subseteq Call
    BY <1>1 DEF Init
  <2> QED BY <1>0, <1>1, <2>1, <2>2, <2>3 DEF Init, TypeOK, Handles
<1> QED BY <1>1, TypeStep, PTL DEF Spec

-------------------------------------------------------------------------------
(* Reports, for a client that closes its connection after a socket error,  *)
(* ignores the failure of a cleanup and never tires of waiting for one.    *)
Orderly == CloseOnError /\ SwallowClose /\ "close" \notin SlowOps

(* The call the client is at, and what it may still wait for.              *)
current == [job |-> job, op |-> op, h |-> handle]

Idle == Len(requests) = 0 /\ Len(answers) = 0

InFlight ==
    \/ Len(requests) = 1 /\ Len(answers) = 0 /\ requests[1] = current
    \/ Len(requests) = 0 /\ Len(answers) = 1 /\ \E ok \in BOOLEAN : answers[1] = AnswerTo(current, ok)

(* Unless the job has met a socket error, what is under way is exactly the *)
(* call the client waits for, or the answer to it.                         *)
InStep ==
    /\ conn # "up" => Idle
    /\ conn = "none" => job = None
    /\ job = None => Idle /\ ~waiting
    /\ job # None /\ failure # "socket" /\ ~waiting => Idle
    /\ job # None /\ failure # "socket" /\ waiting /\ conn = "up" => InFlight

JobInv ==
    /\ job # None => result[job] = "todo"
    /\ job # None /\ pc > 1 => handle = job
    /\ job # None /\ failure # "none" => op = "close"
    /\ failure # "garbled"

(* What reaches the device only ever touches the file of the job it is of, *)
(* and, the closing of handles aside, comes late only for failed jobs.     *)
OwnRequests ==
    \A i \in 1..Len(requests) :
      requests[i].job = job /\ (requests[i].op = "write" => requests[i].h = job)

Late(c) ==
    \/ c.op = "close" \/ result[c.job] = "failed"
    \/ c.job = job /\ conn = "broken" /\ (failure = "socket" \/ (waiting /\ op # "close"))

OwnOrphans == \A c \in orphans : (c.op = "write" => c.h = c.job) /\ Late(c)

(* How many calls of the job the device has carried out.                   *)
Progress == IF op # "close" /\ Len(answers) = 1 /\ answers[1].ok THEN pc ELSE pc - 1

Partial(j) == \E n \in 0 .. Steps(j) - 1 : content[j] = Copies(j, n)

Settled ==
    \A j \in Jobs : /\ result[j] = "done" => Complete(j)
                    /\ result[j] = "refused" => Partial(j)
                    /\ result[j] = "todo" /\ j # job => content[j] = Copies(j, 0)

UnderWay ==
    /\ job # None /\ failure = "none" /\ (conn = "up" \/ ~waiting \/ op = "close")
         => content[job] = Copies(job, Progress)
    /\ job # None /\ failure = "refused" => Partial(job)

Inv == InStep /\ JobInv /\ OwnRequests /\ OwnOrphans /\ Settled /\ UnderWay

(* The job ends.                                                           *)
LEMMA EndKeeps ==
    ASSUME Orderly, TypeOK, Inv, job \in Jobs,
           NEW f \in {"none", "refused", "socket"}, NEW rest \in Seq(Answer),
           End(f, rest), UNCHANGED device,
           f # "socket" => Len(rest) = 0 /\ Len(requests) = 0 /\ conn # "none",
           f # "socket" => \A c \in orphans : c.job = job => c.op = "close",
           f = "none" => Complete(job),
           f = "refused" => Partial(job)
    PROVE  Inv'
<1>1. None \notin Jobs
  BY SwitchesAssumption
<1>2. /\ job' = None /\ waiting' = FALSE /\ failure' = "none" /\ content' = content
      /\ result' \in [Jobs -> {"todo", "done", "refused", "failed"}]
      /\ \A j \in Jobs \ {job} : result'[j] = result[j]
      /\ f = "none" => result'[job] = "done"
      /\ f = "refused" => result'[job] = "refused"
      /\ f = "socket" => result'[job] = "failed"
  BY DEF End, TypeOK, device
<1>3. \A c \in orphans : c \in Call /\ c.job \in Jobs
  BY DEF TypeOK, Call
<1>4. \A c \in orphans : c.op = "write" => c.h = c.job
  BY DEF Inv, OwnOrphans
<1>5. \A c \in orphans : c.op = "close" \/ result'[c.job] = "failed"
  <2> SUFFICES ASSUME NEW c \in orphans, c.op # "close" PROVE result'[c.job] = "failed"
    OBVIOUS
  <2>1. CASE c.job = job
    BY <1>2, <2>1
  <2>2. CASE c.job # job
    <3>1. result[c.job] = "failed"
      BY <2>2 DEF Inv, OwnOrphans, Late
    <3> QED BY <1>2, <1>3, <2>2, <3>1
  <2> QED BY <2>1, <2>2
<1>6. JobInv' /\ UnderWay'
  BY <1>1, <1>2 DEF JobInv, UnderWay
<1>7. Settled'
  <2>1. \A j \in Jobs : (Complete(j))' = Complete(j) /\ (Partial(j))' = Partial(j)
    BY <1>2 DEF Complete, Partial
  <2> QED BY <1>2, <2>1 DEF Inv, Settled
<1>8. CASE f = "socket"
  <2>1. /\ conn' = "none" /\ requests' = <<>> /\ answers' = <<>>
        /\ orphans' = orphans \cup {requests[i] : i \in DOMAIN requests}
    BY <1>8 DEF End, Leaves, MustClose, Orderly, Dropped
  <2>2. ASSUME NEW i \in DOMAIN requests
        PROVE  requests[i].job = job /\ (requests[i].op = "write" => requests[i].h = job)
    BY <2>2 DEF Inv, OwnRequests, TypeOK
  <2>3. OwnOrphans'
    BY <1>2, <1>4, <1>5, <1>8, <2>1, <2>2 DEF OwnOrphans, Late
  <2>4. InStep' /\ OwnRequests'
    BY <1>1, <1>2, <2>1 DEF InStep, Idle, OwnRequests
  <2> QED BY <1>6, <1>7, <2>3, <2>4 DEF Inv
<1>9. CASE f # "socket"
  <2>1. answers' = rest /\ UNCHANGED <<conn, requests, orphans>>
    BY <1>9 DEF End, Leaves, MustClose
  <2>2. OwnOrphans'
    BY <1>4, <1>5, <2>1 DEF OwnOrphans, Late
  <2>3. InStep' /\ OwnRequests'
    BY <1>1, <1>2, <1>9, <2>1 DEF InStep, Idle, OwnRequests
  <2> QED BY <1>6, <1>7, <2>2, <2>3 DEF Inv
<1> QED BY <1>8, <1>9

(* The job goes on with its call n.                                        *)
LEMMA GoOnKeeps ==
    ASSUME Orderly, TypeOK, Inv, job \in Jobs, NEW n \in DOMAIN Program[job], n > 1,
           NEW f \in {"none", "refused", "socket"}, NEW rest \in Seq(Answer),
           GoOn(n, job, f, rest), UNCHANGED device, conn # "none",
           f # "none" => Program[job][n] = "close",
           conn # "up" \/ f # "socket" => Len(rest) = 0 /\ Len(requests) = 0,
           f # "socket" => \A c \in orphans : c.job = job => c.op = "close",
           f = "none" => content[job] = Copies(job, n - 1),
           f = "refused" => Partial(job)
    PROVE  Inv'
<1>0. job # None
  BY SwitchesAssumption
<1>1. /\ job' = job /\ pc' = n /\ handle' = job /\ failure' = f /\ waiting' = FALSE
      /\ answers' = rest /\ UNCHANGED <<result, conn, requests, orphans, content>>
      /\ op' = Program[job][n]
  BY DEF GoOn, device, op
<1>2. InStep' /\ JobInv'
  BY <1>0, <1>1 DEF Inv, InStep, JobInv, Idle
<1>3. OwnRequests'
  BY <1>1 DEF Inv, OwnRequests
<1>4. OwnOrphans'
  <2> SUFFICES ASSUME NEW c \in orphans PROVE (c.op = "write" => c.h = c.job) /\ (Late(c))'
    BY <1>1 DEF OwnOrphans
  <2>1. (c.op = "write" => c.h = c.job) /\ Late(c)
    BY DEF Inv, OwnOrphans
  <2>2. CASE f = "socket"
    BY <1>1, <2>1, <2>2 DEF Late
  <2>3. CASE f # "socket"
    BY <1>1, <2>1, <2>3 DEF Late
  <2> QED BY <2>1, <2>2, <2>3
<1>5. Settled' /\ UnderWay'
  <2>1. \A j \in Jobs : (Complete(j))' = Complete(j) /\ (Partial(j))' = Partial(j)
    BY <1>1 DEF Complete, Partial
  <2>2. Settled'
    BY <1>1, <2>1 DEF Inv, Settled
  <2>3. f = "none" => Progress' = n - 1
    BY <1>1 DEF Progress
  <2> QED BY <1>1, <2>1, <2>2, <2>3 DEF UnderWay
<1> QED BY <1>2, <1>3, <1>4, <1>5 DEF Inv

-------------------------------------------------------------------------------
(* The client's steps.                                                     *)
LEMMA CallShape ==
    ASSUME TypeOK, job \in Jobs
    PROVE  /\ pc \in 1..Len(Program[job]) /\ Len(Program[job]) \in Nat \ {0} /\ op \in Ops
           /\ DOMAIN Program[job] = 1..Len(Program[job])
           /\ op = "call" => pc = 1 /\ Len(Program[job]) = 1 /\ Steps(job) = 1
           /\ op \in {"open", "write", "close"} => Len(Program[job]) > 1 /\ Steps(job) = Len(Program[job]) - 1
           /\ op = "open" => pc = 1
           /\ op = "write" => 1 < pc /\ pc < Len(Program[job])
           /\ op = "close" => pc = Len(Program[job])
           /\ Len(Program[job]) > 1 => Program[job][Len(Program[job])] = "close"
<1>1. job # None /\ pc \in DOMAIN Program[job]
  BY SwitchesAssumption DEF TypeOK
<1>2. /\ Len(Program[job]) \in Nat \ {0} /\ DOMAIN Program[job] = 1..Len(Program[job])
      /\ Steps(job) = IF Len(Program[job]) = 1 THEN 1 ELSE Len(Program[job]) - 1
      /\ Len(Program[job]) > 1 => Program[job][Len(Program[job])] = "close"
  BY ProgramShape
<1>3. /\ op \in Ops
      /\ op = "call" => pc = 1 /\ Len(Program[job]) = 1
      /\ op = "open" => pc = 1 /\ Len(Program[job]) > 1
      /\ op = "write" => 1 < pc /\ pc < Len(Program[job])
      /\ op = "close" => pc = Len(Program[job]) /\ pc > 1
  BY <1>1, <1>2, ProgramShape DEF op
<1> QED BY <1>1, <1>2, <1>3

(* While the job is unharmed, no call of it but a close is left behind.    *)
LEMMA OwnLateCalls ==
    ASSUME Inv, job \in Jobs, failure # "socket", conn = "up" \/ ~waiting \/ op = "close"
    PROVE  \A c \in orphans : c.job = job => c.op = "close"
<1>1. job # None
  BY SwitchesAssumption
<1> QED BY <1>1 DEF Inv, JobInv, OwnOrphans, Late

(* With the last call answered, all of the job is done.                    *)
LEMMA CloseCompletes ==
    ASSUME TypeOK, Inv, job \in Jobs, op = "close", failure = "none"
    PROVE  Complete(job)
<1>1. job # None
  BY SwitchesAssumption
<1>2. Progress = Steps(job)
  BY CallShape DEF Progress
<1> QED BY <1>1, <1>2 DEF Inv, UnderWay, Complete

LEMMA FailsKeeps ==
    ASSUME Orderly, TypeOK, Inv, job \in Jobs,
           NEW f \in {"refused", "socket"}, NEW rest \in Seq(Answer),
           Fails(f, rest), UNCHANGED device, conn # "none",
           conn # "up" => Len(rest) = 0 /\ Len(requests) = 0,
           f = "refused" /\ failure # "socket" => Len(rest) = 0 /\ Len(requests) = 0 /\ conn = "up",
           f = "refused" /\ op # "close" => Partial(job),
           f = "socket" /\ op = "close" => conn = "broken"
    PROVE  Inv'
<1>1. job # None
  BY SwitchesAssumption
<1>2. /\ failure \in {"none", "refused", "socket"}
      /\ failure # "none" => op = "close"
      /\ pc > 1 => handle = job
  BY <1>1 DEF TypeOK, Inv, JobInv
<1>3. CASE op = "write"
  <2>1. GoOn(Cleanup(job), job, f, rest) /\ failure = "none"
    BY <1>2, <1>3, CallShape DEF Fails
  <2>2. Cleanup(job) \in DOMAIN Program[job] /\ Cleanup(job) > 1 /\ Program[job][Cleanup(job)] = "close"
    BY <1>3, CallShape DEF Cleanup
  <2>3. f # "socket" => \A c \in orphans : c.job = job => c.op = "close"
    BY <2>1, OwnLateCalls
  <2> QED BY <1>3, <2>1, <2>2, <2>3, GoOnKeeps
<1>4. CASE op = "close"
  <2>1. End(failure, rest)
    BY <1>4 DEF Fails, Orderly
  <2>2. failure # "socket" => \A c \in orphans : c.job = job => c.op = "close"
    BY <1>4, OwnLateCalls
  <2>3. failure = "none" => Complete(job)
    BY <1>4, CloseCompletes
  <2>4. failure = "refused" => Partial(job)
    BY <1>1 DEF Inv, UnderWay
  <2>5. failure # "socket" => Len(rest) = 0 /\ Len(requests) = 0
    BY <1>4
  <2> QED BY <1>2, <2>1, <2>2, <2>3, <2>4, <2>5, EndKeeps
<1>5. CASE op \in {"open", "call"}
  <2>1. End(f, rest) /\ failure = "none"
    BY <1>2, <1>5 DEF Fails
  <2>2. f # "socket" => \A c \in orphans : c.job = job => c.op = "close"
    BY <2>1, OwnLateCalls
  <2> QED BY <1>5, <2>1, <2>2, EndKeeps
<1> QED BY <1>3, <1>4, <1>5, CallShape DEF Ops

(* The frame an unharmed job reads is the answer to its call.              *)
LEMMA OwnAnswer ==
    ASSUME TypeOK, Inv, job \in Jobs, failure # "socket", conn = "up", waiting, answers # <<>>
    PROVE  /\ Len(requests) = 0 /\ Len(answers) = 1 /\ Head(answers) = answers[1] /\ Len(Tail(answers)) = 0
           /\ answers[1].ok \in BOOLEAN
           /\ op = "open" /\ answers[1].ok => answers[1].h = job
           /\ Parse(Head(answers)) = IF answers[1].ok THEN "ok" ELSE "refused"
<1>1. job # None /\ Len(answers) # 0
  BY SwitchesAssumption DEF TypeOK
<1>2. Len(requests) = 0 /\ Len(answers) = 1
  BY <1>1 DEF Inv, InStep, InFlight
<1>3. PICK ok \in BOOLEAN : answers[1] = AnswerTo(current, ok)
  BY <1>1, <1>2 DEF Inv, InStep, InFlight
<1>4. /\ answers[1].op = op /\ answers[1].ok = ok
      /\ op = "open" /\ ok => answers[1].h = job
  BY <1>3 DEF AnswerTo, current
<1>5. Head(answers) = answers[1] /\ Len(Tail(answers)) = 0
  BY <1>2 DEF TypeOK
<1>6. op \in Ops
  BY CallShape
<1>7. Parse(answers[1]) = IF ok THEN "ok" ELSE "refused"
  BY <1>4, <1>6 DEF Parse, Ops
<1> QED BY <1>2, <1>4, <1>5, <1>7

LEMMA SendKeeps == ASSUME TypeOK, Inv, Send PROVE Inv'
<1>1. job \in Jobs /\ job # None /\ conn = "up" /\ ~waiting
  BY DEF Send, TypeOK, Handles
<1>2. /\ requests' = Append(requests, current) /\ waiting' = TRUE
      /\ UNCHANGED <<conn, answers, orphans, job, pc, handle, failure, result, content>>
  BY DEF Send, current, device
<1>3. op' = op /\ current' = current
  BY <1>2 DEF op, current
<1>4. InStep'
  <2>1. failure # "socket" => InFlight'
    <3> SUFFICES ASSUME failure # "socket" PROVE InFlight'
      OBVIOUS
    <3>1. Idle /\ requests \in Seq(Call)
      BY <1>1 DEF Inv, InStep, TypeOK
    <3>2. Len(requests') = 1 /\ requests'[1] = current
      BY <1>2, <3>1 DEF Idle
    <3> QED BY <1>2, <1>3, <3>1, <3>2 DEF Idle, InFlight
  <2> QED BY <1>1, <1>2, <2>1 DEF InStep
<1>5. JobInv'
  BY <1>2, <1>3 DEF Inv, JobInv
<1>6. OwnRequests'
  <2>1. op = "write" => handle = job
    BY <1>1, CallShape DEF Inv, JobInv
  <2>2. \A i \in 1..Len(requests') :
          requests'[i] = current \/ (i \in 1..Len(requests) /\ requests'[i] = requests[i])
    BY <1>2 DEF TypeOK
  <2>3. current.job = job /\ current.op = op /\ current.h = handle
    BY DEF current
  <2> QED BY <1>2, <2>1, <2>2, <2>3 DEF Inv, OwnRequests
<1>7. OwnOrphans'
  BY <1>1, <1>2, <1>3 DEF Inv, OwnOrphans, Late
<1>8. Progress' = Progress /\ \A j \in Jobs : (Complete(j))' = Complete(j) /\ (Partial(j))' = Partial(j)
  BY <1>2, <1>3 DEF Progress, Complete, Partial
<1>9. Settled' /\ UnderWay'
  BY <1>1, <1>2, <1>3, <1>8 DEF Inv, Settled, UnderWay
<1> QED BY <1>4, <1>5, <1>6, <1>7, <1>9 DEF Inv

LEMMA ReceiveKeeps == ASSUME Orderly, TypeOK, Inv, Receive PROVE Inv'
<1>1. /\ job \in Jobs /\ job # None /\ conn = "up" /\ waiting /\ answers # <<>> /\ UNCHANGED device
      /\ Tail(answers) \in Seq(Answer)
  BY DEF Receive, TypeOK, Handles
<1>2. CASE Parse(Head(answers)) # "ok"
  <2>1. Fails(Parse(Head(answers)), Tail(answers))
    BY <1>2 DEF Receive
  <2>2. CASE failure = "socket"
    <3>1. op = "close"
      BY <1>1, <2>2 DEF Inv, JobInv
    <3>2. Parse(Head(answers)) = "refused"
      BY <1>2, <3>1 DEF Parse
    <3> QED BY <1>1, <2>1, <2>2, <3>1, <3>2, FailsKeeps
  <2>3. CASE failure # "socket"
    <3>1. Parse(Head(answers)) = "refused" /\ ~answers[1].ok /\ Len(Tail(answers)) = 0 /\ Len(requests) = 0
      BY <1>1, <1>2, <2>3, OwnAnswer
    <3>2. op # "close" => Partial(job)
      <4> SUFFICES ASSUME op # "close" PROVE Partial(job)
        OBVIOUS
      <4>1. Progress = pc - 1 /\ content[job] = Copies(job, pc - 1)
        BY <1>1, <2>3, <3>1 DEF Progress, Inv, UnderWay, JobInv, TypeOK
      <4>2. pc - 1 \in 0 .. Steps(job) - 1
        BY <1>1, CallShape DEF Ops
      <4> QED BY <4>1, <4>2 DEF Partial
    <3> QED BY <1>1, <2>1, <3>1, <3>2, FailsKeeps
  <2> QED BY <2>2, <2>3
<1>3. CASE Parse(Head(answers)) = "ok"
  <2> DEFINE h == IF op = "open" THEN Head(answers).h ELSE handle
  <2>1. Succeeds(h, Tail(answers))
    BY <1>3 DEF Receive
  <2>2. failure \in {"none", "refused", "socket"} /\ (failure # "none" => op = "close")
    BY <1>1 DEF Inv, JobInv, TypeOK
  <2>3. failure # "socket" => /\ Len(Tail(answers)) = 0 /\ Len(requests) = 0
                              /\ \A c \in orphans : c.job = job => c.op = "close"
    BY <1>1, OwnAnswer, OwnLateCalls
  <2>4. CASE pc < Len(Program[job])
    <3>1. op \in {"open", "write"} /\ failure = "none"
      BY <1>1, <2>2, <2>4, CallShape DEF Ops
    <3>2. answers[1].ok /\ Len(answers) = 1 /\ h = job
      BY <1>1, <1>3, <3>1, OwnAnswer, CallShape DEF Inv, JobInv
    <3>3. Progress = pc /\ content[job] = Copies(job, pc)
      BY <1>1, <3>1, <3>2 DEF Progress, Inv, UnderWay
    <3>4. GoOn(pc + 1, job, "none", Tail(answers)) /\ pc + 1 \in DOMAIN Program[job] /\ pc + 1 > 1
      BY <1>1, <2>1, <2>4, <3>1, <3>2, CallShape DEF Succeeds
    <3>5. (pc + 1) - 1 = pc
      BY <1>1, CallShape
    <3> QED BY <1>1, <2>3, <3>1, <3>3, <3>4, <3>5, GoOnKeeps
  <2>5. CASE ~(pc < Len(Program[job]))
    <3>1. End(failure, Tail(answers)) /\ op \in {"call", "close"}
      BY <1>1, <2>1, <2>5, CallShape DEF Succeeds, Ops
    <3>2. failure = "none" => Complete(job)
      <4>1. CASE op = "close"
        BY <1>1, <4>1, CloseCompletes
      <4>2. CASE op = "call"
        <5>1. failure = "none" /\ answers[1].ok /\ Len(answers) = 1
          BY <1>1, <1>3, <2>2, <4>2, OwnAnswer
        <5>2. Progress = Steps(job)
          BY <1>1, <4>2, <5>1, CallShape DEF Progress
        <5> QED BY <1>1, <5>1, <5>2 DEF Inv, UnderWay, Complete
      <4> QED BY <3>1, <4>1, <4>2
    <3>3. failure = "refused" => Partial(job)
      BY <1>1 DEF Inv, UnderWay
    <3> QED BY <1>1, <2>2, <2>3, <3>1, <3>2, <3>3, EndKeeps
  <2> QED BY <2>4, <2>5
<1> QED BY <1>2, <1>3

LEMMA SocketKeeps == ASSUME Orderly, TypeOK, Inv, Broken \/ TimeOut PROVE Inv'
<1>1. job \in Jobs /\ job # None /\ Fails("socket", answers) /\ UNCHANGED device /\ conn # "none"
  BY DEF Broken, TimeOut, TypeOK, Handles
<1>2. answers \in Seq(Answer) /\ (conn # "up" => Len(answers) = 0 /\ Len(requests) = 0)
  BY DEF TypeOK, Inv, InStep, Idle
<1>3. op = "close" => conn = "broken"
  BY DEF Broken, TimeOut, Orderly
<1> QED BY <1>1, <1>2, <1>3, FailsKeeps

LEMMA BeginKeeps == ASSUME Orderly, TypeOK, Inv, NEW j \in Jobs, Begin(j) PROVE Inv'
<1>1. None \notin Jobs /\ j # None /\ job = None /\ result[j] = "todo"
  BY SwitchesAssumption DEF Begin
<1>2. /\ job' = j /\ pc' = 1 /\ waiting' = FALSE /\ failure' = "none"
      /\ UNCHANGED <<requests, answers, orphans, result, content>>
  BY DEF Begin, device
<1>3. conn' # "none" /\ (conn' # "up" => conn' = conn)
  BY DEF Begin, Orderly, TypeOK
<1>4. Idle /\ Idle'
  BY <1>1, <1>2 DEF Inv, InStep, Idle
<1>5. InStep' /\ JobInv'
  BY <1>1, <1>2, <1>3, <1>4 DEF InStep, JobInv
<1>6. OwnRequests'
  BY <1>2, <1>4 DEF OwnRequests, Idle
<1>7. OwnOrphans'
  <2>1. \A c \in orphans : c.job # job
    BY <1>1 DEF TypeOK, Call
  <2> QED BY <1>2, <2>1 DEF Inv, OwnOrphans, Late
<1>8. Settled' /\ UnderWay'
  <2>1. \A k \in Jobs : (Complete(k))' = Complete(k) /\ (Partial(k))' = Partial(k)
    BY <1>2 DEF Complete, Partial
  <2>2. Progress' = 0
    BY <1>2, <1>4 DEF Progress, Idle
  <2>3. content[j] = Copies(j, 0)
    BY <1>1 DEF Inv, Settled
  <2> QED BY <1>1, <1>2, <2>1, <2>2, <2>3 DEF Inv, Settled, UnderWay
<1> QED BY <1>5, <1>6, <1>7, <1>8 DEF Inv

LEMMA CannotConnectKeeps == ASSUME TypeOK, Inv, NEW j \in Jobs, CannotConnect(j) PROVE Inv'
<1>1. None \notin Jobs /\ job = None
  BY SwitchesAssumption DEF CannotConnect
<1>2. /\ result' = [result EXCEPT ![j] = "failed"]
      /\ UNCHANGED <<conn, requests, answers, orphans, job, pc, waiting, handle, failure, content>>
  BY DEF CannotConnect, device
<1>3. result'[j] = "failed" /\ \A k \in Jobs \ {j} : result'[k] = result[k]
  BY <1>2 DEF TypeOK
<1>4. InStep' /\ JobInv' /\ OwnRequests' /\ UnderWay'
  BY <1>1, <1>2 DEF Inv, InStep, Idle, JobInv, OwnRequests, UnderWay
<1>5. OwnOrphans'
  <2>1. \A c \in orphans : c.job \in Jobs
    BY DEF TypeOK, Call
  <2> QED BY <1>1, <1>2, <1>3, <2>1 DEF Inv, OwnOrphans, Late
<1>6. Settled'
  <2>1. \A k \in Jobs : (Complete(k))' = Complete(k) /\ (Partial(k))' = Partial(k)
    BY <1>2 DEF Complete, Partial
  <2> QED BY <1>2, <1>3, <2>1 DEF Inv, Settled
<1> QED BY <1>4, <1>5, <1>6 DEF Inv

-------------------------------------------------------------------------------
(* The device's steps, and the loss of the connection.                     *)
LEMMA Carried ==
    ASSUME TypeOK, NEW c \in Call, NEW ok \in BOOLEAN, Carries(c, ok), c.op = "write" => c.h = c.job
    PROVE  /\ \A j \in Jobs \ {c.job} : content'[j] = content[j]
           /\ ~ok \/ c.op = "close" => content' = content
           /\ ok /\ c.op \in {"call", "open"} => content'[c.job] = <<c.job>>
           /\ ok /\ c.op = "write" => content'[c.job] = Append(content[c.job], c.job)
<1>1. c.job \in Jobs /\ c.op \in Ops
  BY DEF Call
<1>2. CASE ~ok
  BY <1>2 DEF Carries, device
<1>3. CASE ok
  <2>1. Accepts(c) /\ Performs(c)
    BY <1>3 DEF Carries
  <2>2. CASE c.op \in {"call", "open"}
    <3>1. content' = [content EXCEPT ![c.job] = <<c.job>>]
      BY <2>1, <2>2 DEF Performs
    <3> QED BY <1>1, <1>3, <2>2, <3>1 DEF TypeOK
  <2>3. CASE c.op = "write"
    <3>1. content' = [content EXCEPT ![c.job] = Append(@, c.job)]
      BY <2>1, <2>3 DEF Performs
    <3> QED BY <1>1, <1>3, <2>3, <3>1 DEF TypeOK
  <2>4. CASE c.op = "close"
    BY <1>3, <2>1, <2>4 DEF Performs
  <2> QED BY <1>1, <2>2, <2>3, <2>4 DEF Ops
<1> QED BY <1>2, <1>3

LEMMA ServeKeeps == ASSUME TypeOK, Inv, Serve PROVE Inv'
<1>1. PICK ok \in BOOLEAN : /\ Carries(Head(requests), ok)
                            /\ answers' = Append(answers, AnswerTo(Head(requests), ok))
  BY DEF Serve
<1>2. /\ conn = "up" /\ requests' = Tail(requests) /\ Len(requests) \in Nat \ {0}
      /\ UNCHANGED <<conn, orphans, job, pc, waiting, handle, failure, result>>
      /\ Head(requests) = requests[1] /\ requests[1] \in Call
      /\ Len(answers') = Len(answers) + 1
      /\ Len(answers) = 0 => answers'[1] = AnswerTo(requests[1], ok)
      /\ Len(requests') = Len(requests) - 1
      /\ \A i \in 1..Len(requests') : i + 1 \in 1..Len(requests) /\ requests'[i] = requests[i + 1]
  BY <1>1 DEF Serve, client, TypeOK
<1>3. op' = op /\ current' = current
  BY <1>2 DEF op, current
<1>4. job # None /\ job \in Jobs /\ (failure # "socket" => waiting)
  BY <1>2 DEF Inv, InStep, Idle, TypeOK, Handles
<1>5. requests[1].job = job /\ (requests[1].op = "write" => requests[1].h = requests[1].job)
  BY <1>2 DEF Inv, OwnRequests
<1>6. /\ \A j \in Jobs \ {job} : content'[j] = content[j]
      /\ ~ok \/ requests[1].op = "close" => content' = content
      /\ ok /\ requests[1].op \in {"call", "open"} => content'[job] = <<job>>
      /\ ok /\ requests[1].op = "write" => content'[job] = Append(content[job], job)
  BY <1>1, <1>2, <1>5, Carried
<1>7. failure # "socket" => Len(requests) = 1 /\ Len(answers) = 0 /\ requests[1] = current
  BY <1>2, <1>4 DEF Inv, InStep, InFlight
<1>8. InStep'
  <2>1. ASSUME failure # "socket" PROVE InFlight'
    <3>1. Len(requests') = 0 /\ Len(answers') = 1
      <4>1. Len(requests) = 1 /\ Len(answers) = 0
        BY <1>7, <2>1
      <4>2. Len(requests') = Len(requests) - 1 /\ Len(answers') = Len(answers) + 1
        BY <1>2
      <4>3. Len(requests') = 1 - 1 /\ Len(answers') = 0 + 1
        BY <4>1, <4>2, Zenon
      <4> QED BY <4>3
    <3>2. answers'[1] = AnswerTo(current, ok)
      BY <1>2, <1>7, <2>1
    <3>3. answers'[1] = AnswerTo(current', ok)
      BY <1>3, <3>2
    <3> QED BY <3>1, <3>3 DEF InFlight, AnswerTo
  <2> QED BY <1>2, <1>4, <2>1 DEF InStep
<1>9. JobInv' /\ OwnOrphans'
  BY <1>2, <1>3 DEF Inv, JobInv, OwnOrphans, Late
<1>10. OwnRequests'
  BY <1>2 DEF Inv, OwnRequests
<1>11. Settled'
  <2>1. \A j \in Jobs \ {job} : (Complete(j))' = Complete(j) /\ (Partial(j))' = Partial(j)
    BY <1>6 DEF Complete, Partial
  <2>2. result[job] = "todo"
    BY <1>4 DEF Inv, JobInv
  <2> QED BY <1>2, <1>6, <2>1, <2>2 DEF Inv, Settled
<1>12. UnderWay'
  <2>1. ASSUME failure = "none" PROVE content'[job] = Copies(job, Progress')
    <3>1. requests[1].op = op /\ answers'[1] = AnswerTo(current, ok) /\ Len(answers') = 1 /\ Len(answers) = 0
      BY <1>2, <1>7, <2>1 DEF current
    <3>2. Progress' = IF op # "close" /\ ok THEN pc ELSE pc - 1
      BY <1>2, <1>3, <3>1 DEF Progress, AnswerTo
    <3>3. content[job] = Copies(job, pc - 1)
      BY <1>2, <1>4, <2>1, <3>1 DEF Inv, UnderWay, Progress
    <3>4. CASE ok /\ op \in {"call", "open"}
      <4>1. content'[job] = <<job>> /\ pc = 1
        BY <1>4, <1>6, <3>1, <3>4, CallShape
      <4> QED BY <1>4, <3>2, <3>4, <4>1, CopiesFacts
    <3>5. CASE ok /\ op = "write"
      <4>1. content'[job] = Append(Copies(job, pc - 1), job) /\ pc - 1 \in Nat /\ (pc - 1) + 1 = pc
        BY <1>4, <1>6, <3>1, <3>3, <3>5, CallShape
      <4> QED BY <1>4, <3>2, <3>5, <4>1, CopiesFacts
    <3>6. CASE ~ok \/ op = "close"
      BY <1>6, <3>1, <3>2, <3>3, <3>6
    <3> QED BY <1>4, <3>4, <3>5, <3>6, CallShape DEF Ops
  <2>2. ASSUME failure = "refused" PROVE (Partial(job))'
    <3>1. requests[1].op = "close" /\ content' = content
      BY <1>4, <1>6, <1>7, <2>2 DEF current, Inv, JobInv
    <3> QED BY <1>2, <1>4, <2>2, <3>1 DEF Inv, UnderWay, Partial
  <2> QED BY <1>2, <2>1, <2>2 DEF UnderWay
<1> QED BY <1>8, <1>9, <1>10, <1>11, <1>12 DEF Inv

LEMMA ServeOrphanKeeps == ASSUME TypeOK, Inv, ServeOrphan PROVE Inv'
<1>1. PICK c \in orphans, ok \in BOOLEAN : Carries(c, ok) /\ orphans' = orphans \ {c}
  BY DEF ServeOrphan
<1>2. UNCHANGED <<conn, requests, answers, job, pc, waiting, handle, failure, result>>
  BY DEF ServeOrphan, client
<1>3. op' = op /\ current' = current /\ Progress' = Progress
  BY <1>2 DEF op, current, Progress
<1>4. c \in Call /\ c.job \in Jobs /\ (c.op = "write" => c.h = c.job) /\ Late(c)
  BY <1>1 DEF TypeOK, Call, Inv, OwnOrphans
<1>5. /\ \A j \in Jobs \ {c.job} : content'[j] = content[j]
      /\ c.op = "close" => content' = content
  BY <1>1, <1>4, Carried
<1>6. InStep' /\ JobInv' /\ OwnRequests'
  BY <1>2, <1>3 DEF Inv, InStep, Idle, InFlight, JobInv, OwnRequests
<1>7. OwnOrphans'
  BY <1>1, <1>2, <1>3 DEF Inv, OwnOrphans, Late
<1>8. Settled' /\ UnderWay'
  <2>1. ASSUME NEW j \in Jobs, content'[j] = content[j]
        PROVE  (Complete(j))' = Complete(j) /\ (Partial(j))' = Partial(j)
    BY <2>1 DEF Complete, Partial
  <2>2. CASE c.op = "close"
    <3>1. content' = content
      BY <1>5, <2>2
    <3> QED BY <1>2, <1>3, <2>1, <3>1 DEF Inv, Settled, UnderWay, TypeOK, Handles
  <2>3. CASE c.op # "close" /\ result[c.job] = "failed"
    <3>1. c.job # job \/ job = None
      BY <2>3 DEF Inv, JobInv
    <3> QED BY <1>2, <1>3, <1>4, <1>5, <2>1, <2>3, <3>1 DEF Inv, Settled, UnderWay, TypeOK, Handles
  <2>4. CASE c.job = job /\ conn = "broken" /\ (failure = "socket" \/ (waiting /\ op # "close"))
    <3>1. job # None /\ result[job] = "todo" /\ (failure # "none" => op = "close")
      BY <1>4, <2>4, SwitchesAssumption DEF Inv, JobInv
    <3>2. Settled'
      BY <1>2, <1>5, <2>1, <2>4, <3>1 DEF Inv, Settled
    <3>3. UnderWay'
      BY <1>2, <1>3, <2>4, <3>1 DEF UnderWay
    <3> QED BY <3>2, <3>3
  <2> QED BY <1>4, <2>2, <2>3, <2>4 DEF Late
<1> QED BY <1>6, <1>7, <1>8 DEF Inv

LEMMA DropKeeps == ASSUME TypeOK, Inv, Drop PROVE Inv'
<1>1. /\ conn = "up" /\ conn' = "broken" /\ requests' = <<>> /\ answers' = <<>>
      /\ orphans' = orphans \cup {requests[i] : i \in DOMAIN requests}
      /\ UNCHANGED <<job, pc, waiting, handle, failure, result, content>>
  BY DEF Drop, Dropped, client, device
<1>2. op' = op
  BY <1>1 DEF op
<1>3. InStep' /\ JobInv' /\ OwnRequests'
  BY <1>1, <1>2 DEF Inv, InStep, Idle, JobInv, OwnRequests
<1>4. OwnOrphans'
  <2>1. ASSUME NEW c \in orphans PROVE (c.op = "write" => c.h = c.job) /\ (Late(c))'
    BY <1>1, <1>2 DEF Inv, OwnOrphans, Late
  <2>2. ASSUME NEW c, NEW i \in DOMAIN requests, c = requests[i]
        PROVE  (c.op = "write" => c.h = c.job) /\ (Late(c))'
    <3>1. i \in 1..Len(requests) /\ Len(requests) # 0
      BY <2>2 DEF TypeOK
    <3>2. c.job = job /\ (c.op = "write" => c.h = job)
      BY <2>2, <3>1 DEF Inv, OwnRequests
    <3>3. job # None /\ (failure # "socket" => waiting /\ c.op = op)
      <4>1. job # None /\ (failure # "socket" => waiting)
        BY <1>1, <3>1 DEF Inv, InStep, Idle
      <4>2. failure # "socket" => i = 1 /\ requests[1] = current
        BY <1>1, <3>1, <4>1 DEF Inv, InStep, InFlight
      <4> QED BY <2>2, <4>1, <4>2 DEF current
    <3> QED BY <1>1, <1>2, <3>2, <3>3 DEF Late
  <2> QED BY <1>1, <2>1, <2>2 DEF OwnOrphans
<1>5. \A j \in Jobs : (Complete(j))' = Complete(j) /\ (Partial(j))' = Partial(j)
  BY <1>1 DEF Complete, Partial
<1>6. Settled'
  BY <1>1, <1>5 DEF Inv, Settled
<1>7. UnderWay'
  <2>1. ASSUME job # None, failure = "none", ~waiting \/ op = "close"
        PROVE  content[job] = Copies(job, Progress')
    <3>1. content[job] = Copies(job, Progress)
      BY <1>1, <2>1 DEF Inv, UnderWay
    <3>2. Progress = pc - 1 /\ Progress' = pc - 1
      BY <1>1, <1>2, <2>1 DEF Progress, Inv, InStep, Idle
    <3> QED BY <3>1, <3>2
  <2> QED BY <1>1, <1>2, <1>5, <2>1 DEF Inv, UnderWay, TypeOK, Handles
<1> QED BY <1>3, <1>4, <1>6, <1>7 DEF Inv

-------------------------------------------------------------------------------
LEMMA InvInit == Init => Inv
<1> SUFFICES ASSUME Init PROVE Inv
  OBVIOUS
<1>1. \A j \in Jobs : content[j] = Copies(j, 0) /\ result[j] = "todo"
  BY CopiesFacts DEF Init
<1>2. Settled
  BY <1>1 DEF Settled
<1> QED BY <1>2 DEF Init, Inv, InStep, Idle, JobInv, OwnRequests, OwnOrphans, UnderWay

LEMMA InvStep == ASSUME Orderly, TypeOK, Inv, [Next]_vars PROVE Inv'
<1>1. CASE UNCHANGED vars
  BY <1>1 DEF vars, client, device, Inv, InStep, Idle, InFlight, current, op, JobInv, OwnRequests,
              OwnOrphans, Late, Settled, Complete, UnderWay, Partial, Progress
<1> QED BY <1>1, BeginKeeps, SendKeeps, ReceiveKeeps, SocketKeeps, ServeKeeps, ServeOrphanKeeps,
           DropKeeps, CannotConnectKeeps DEF Next, Work

LEMMA InvImpliesReports == ASSUME TypeOK, Inv PROVE ReportsAreTrue
<1> SUFFICES ASSUME NEW j \in Jobs, Partial(j), Complete(j) PROVE FALSE
  BY DEF Inv, Settled, ReportsAreTrue
<1>1. PICK n \in 0 .. Steps(j) - 1 : Copies(j, n) = Copies(j, Steps(j))
  BY DEF Partial, Complete
<1>2. Steps(j) \in Nat
  BY ProgramShape
<1>3. Len(Copies(j, n)) = n /\ Len(Copies(j, Steps(j))) = Steps(j)
  BY <1>2, CopiesFacts
<1> QED BY <1>1, <1>2, <1>3

(* A client that is orderly reports a job done only when the device has    *)
(* done all of it, and refused only when it has not, whatever the jobs and *)
(* however often answers are late or connections are lost.                 *)
THEOREM OrderlyReportsAreTrue ==
    ASSUME CloseOnError, SwallowClose, "close" \notin SlowOps
    PROVE  Spec => []ReportsAreTrue
<1>1. Orderly
  BY DEF Orderly
<1>2. TypeOK /\ Inv /\ [Next]_vars => Inv'
  BY <1>1, InvStep
<1>3. TypeOK /\ Inv => ReportsAreTrue
  BY InvImpliesReports
<1> QED BY <1>2, <1>3, InvInit, TypeCorrect, PTL DEF Spec

-------------------------------------------------------------------------------
(* The handle a job works with.                                            *)

(* While the connection is up the device holds the job's file open, from   *)
(* the answer to the open until the close is sent; a close on its way is   *)
(* the one the client waits for, and what is left of other connections     *)
(* closes handles of other jobs.                                           *)
Held ==
    job # None /\ conn = "up" =>
      /\ pc > 1 /\ (~waiting \/ op = "write") => job \in opened
      /\ op = "open" /\ Len(answers) = 1 /\ answers[1].ok => job \in opened

OwnClose(c) == c.op = "close" => c.h = c.job

Closes == \A i \in 1..Len(requests) : OwnClose(requests[i]) /\ (requests[i].op = "close" => op = "close" /\ waiting)

Spent ==
    \A c \in orphans : /\ OwnClose(c)
                       /\ conn = "up" => c.job # job
                       /\ result[c.job] = "todo" => c.job = job

HandleInv == Held /\ Closes /\ Spent

(* What a call does to the open handles.                                   *)
LEMMA OpenedBy ==
    ASSUME NEW c \in Call, NEW ok \in BOOLEAN, Carries(c, ok)
    PROVE  /\ c.op # "close" => opened \subseteq opened'
           /\ c.op = "close" => opened \ {c.h} \subseteq opened'
           /\ c.op = "open" /\ ok => c.job \in opened'
<1>1. c.op \in Ops
  BY DEF Call
<1> QED BY <1>1 DEF Carries, Performs, Accepts, Ops, device

LEMMA HandleSame ==
    ASSUME HandleInv, UNCHANGED <<conn, requests, answers, orphans, client, device>>
    PROVE  HandleInv'
BY DEF HandleInv, Held, Closes, Spent, client, device, op

LEMMA HandleDropped ==
    ASSUME TypeOK, Inv, HandleInv, NEW s, Dropped(s), s # "up", UNCHANGED client
    PROVE  HandleInv'
<1>1. requests' = <<>> /\ orphans' = orphans \cup {requests[i] : i \in 1..Len(requests)}
      /\ conn' = s /\ UNCHANGED <<job, result>>
  BY DEF Dropped, TypeOK, client
<1>2. \A i \in 1..Len(requests) : requests[i].job = job /\ OwnClose(requests[i])
  BY DEF HandleInv, Closes, Inv, OwnRequests
<1> QED BY <1>1, <1>2 DEF HandleInv, Held, Closes, Spent

LEMMA HandleEnd ==
    ASSUME TypeOK, Inv, Inv', HandleInv, job \in Jobs, NEW f \in Failures, NEW rest, End(f, rest)
    PROVE  HandleInv'
<1>1. job' = None /\ result'[job] # "todo" /\ \A j \in Jobs \ {job} : result'[j] = result[j]
  BY DEF End, TypeOK, Failures
<1>2. Len(requests') = 0
  BY <1>1 DEF Inv, InStep, Idle
<1>3. orphans' \subseteq orphans \cup {requests[i] : i \in 1..Len(requests)}
  <2>1. Leaves(f, rest)
    BY DEF End
  <2>2. DOMAIN requests = 1..Len(requests)
    BY DEF TypeOK
  <2>3. orphans' = orphans \/ orphans' = orphans \cup {requests[i] : i \in DOMAIN requests}
    BY <2>1 DEF Leaves, Dropped
  <2> QED BY <2>2, <2>3
<1>4. \A c \in orphans : c.job \in Jobs
  BY DEF TypeOK, Call
<1>5. \A i \in 1..Len(requests) : requests[i].job = job /\ OwnClose(requests[i])
  BY DEF HandleInv, Closes, Inv, OwnRequests
<1>6. \A c \in orphans' : c.job \in Jobs /\ OwnClose(c) /\ result'[c.job] # "todo"
  BY <1>1, <1>3, <1>4, <1>5 DEF HandleInv, Spent
<1> QED BY <1>1, <1>2, <1>6, SwitchesAssumption DEF HandleInv, Held, Closes, Spent

LEMMA HandleGoOn ==
    ASSUME HandleInv, job \in Jobs, NEW n, NEW h, NEW f, NEW rest, GoOn(n, h, f, rest),
           UNCHANGED device, op # "close", n > 1, Program[job][n] # "open",
           conn = "up" => job \in opened
    PROVE  HandleInv'
<1>1. /\ job' = job /\ pc' = n /\ waiting' = FALSE
      /\ UNCHANGED <<result, conn, requests, orphans, opened>> /\ op' = Program[job][n]
  BY DEF GoOn, device, op
<1>2. \A i \in 1..Len(requests) : requests[i].op # "close"
  BY DEF HandleInv, Closes
<1> QED BY <1>1, <1>2 DEF HandleInv, Held, Closes, Spent, OwnClose

LEMMA HandleFails ==
    ASSUME TypeOK, Inv, Inv', HandleInv, job \in Jobs, NEW f \in Failures, NEW rest, Fails(f, rest),
           UNCHANGED device, conn = "up" => waiting
    PROVE  HandleInv'
<1>1. job # None /\ failure \in Failures
  BY SwitchesAssumption DEF TypeOK, Failures
<1>2. CASE op = "write"
  <2>1. GoOn(Cleanup(job), handle, f, rest)
    BY <1>2 DEF Fails
  <2>2. Cleanup(job) > 1 /\ Program[job][Cleanup(job)] = "close" /\ pc > 1
    BY <1>2, CallShape DEF Cleanup
  <2>3. conn = "up" => job \in opened
    BY <1>1, <1>2, <2>2 DEF HandleInv, Held
  <2> QED BY <1>2, <2>1, <2>2, <2>3, HandleGoOn
<1>3. CASE op # "write"
  <2>1. PICK g \in Failures : End(g, rest)
    BY <1>1, <1>3, CallShape DEF Fails, Ops
  <2> QED BY <2>1, HandleEnd
<1> QED BY <1>2, <1>3

LEMMA HandleReceive == ASSUME TypeOK, Inv, Inv', HandleInv, Receive PROVE HandleInv'
<1>1. /\ job \in Jobs /\ job # None /\ conn = "up" /\ waiting /\ answers # <<>> /\ UNCHANGED device
      /\ failure \in Failures
  BY DEF Receive, TypeOK, Handles, Failures
<1>2. CASE Parse(Head(answers)) # "ok"
  <2>1. Parse(Head(answers)) \in Failures
    BY <1>1, <1>2, CallShape DEF Parse, Failures, Ops
  <2>2. Fails(Parse(Head(answers)), Tail(answers))
    BY <1>2 DEF Receive
  <2> QED BY <1>1, <2>1, <2>2, HandleFails
<1>3. CASE Parse(Head(answers)) = "ok"
  <2>1. PICK h : Succeeds(h, Tail(answers))
    BY <1>3 DEF Receive
  <2>2. CASE pc < Len(Program[job])
    <3>1. op \in {"open", "write"} /\ failure # "socket"
      BY <1>1, <2>2, CallShape DEF Ops, Inv, JobInv
    <3>2. Len(answers) = 1 /\ answers[1].ok
      BY <1>1, <1>3, <3>1, OwnAnswer
    <3>3. job \in opened
      BY <1>1, <3>1, <3>2, CallShape DEF HandleInv, Held
    <3>4. GoOn(pc + 1, h, failure, Tail(answers))
      BY <2>1, <2>2 DEF Succeeds
    <3>5. pc + 1 > 1 /\ Program[job][pc + 1] # "open"
      BY <1>1, <2>2, CallShape, ProgramShape
    <3> QED BY <1>1, <3>1, <3>3, <3>4, <3>5, HandleGoOn
  <2>3. CASE ~(pc < Len(Program[job]))
    BY <1>1, <2>1, <2>3, HandleEnd DEF Succeeds
  <2> QED BY <2>2, <2>3
<1> QED BY <1>2, <1>3

LEMMA HandleSend == ASSUME TypeOK, Inv, HandleInv, Send PROVE HandleInv'
<1>1. job \in Jobs /\ job # None /\ conn = "up" /\ ~waiting
  BY DEF Send, TypeOK, Handles
<1>2. /\ requests' = Append(requests, current) /\ waiting' = TRUE
      /\ UNCHANGED <<conn, answers, orphans, job, pc, handle, failure, result, opened>>
  BY DEF Send, current, device
<1>3. op' = op /\ current.op = op /\ current.job = job /\ current.h = handle
  BY <1>2 DEF op, current
<1>4. Held'
  <2>1. op = "open" => Len(answers) = 0
    BY <1>1 DEF Inv, InStep, JobInv, Idle
  <2> QED BY <1>1, <1>2, <1>3, <2>1, CallShape DEF HandleInv, Held
<1>5. Closes'
  <2>1. \A i \in 1..Len(requests') :
          requests'[i] = current \/ (i \in 1..Len(requests) /\ requests'[i] = requests[i])
    BY <1>2 DEF TypeOK
  <2>2. op = "close" => handle = job
    BY <1>1, CallShape DEF Inv, JobInv
  <2>3. OwnClose(current)
    BY <1>3, <2>2 DEF OwnClose
  <2> HIDE DEF current
  <2> QED BY <1>1, <1>2, <1>3, <2>1, <2>3 DEF HandleInv, Closes
<1>6. Spent'
  BY <1>2 DEF HandleInv, Spent
<1> QED BY <1>4, <1>5, <1>6 DEF HandleInv

LEMMA HandleServe == ASSUME TypeOK, Inv, HandleInv, Serve PROVE HandleInv'
<1>1. PICK ok \in BOOLEAN : Carries(requests[1], ok) /\ answers' = Append(answers, AnswerTo(requests[1], ok))
  BY DEF Serve, TypeOK
<1>2. /\ conn = "up" /\ Len(requests) \in Nat \ {0} /\ UNCHANGED <<conn, orphans, client>>
      /\ Len(requests') = Len(requests) - 1
      /\ \A i \in 1..Len(requests') : i + 1 \in 1..Len(requests) /\ requests'[i] = requests[i + 1]
  BY DEF Serve, TypeOK
<1>3. requests[1] \in Call /\ requests[1].job = job /\ job \in Jobs /\ job # None
  <2>1. requests[1] \in Call
    BY <1>2 DEF TypeOK
  <2>2. requests[1].job = job
    BY <1>2 DEF Inv, OwnRequests
  <2> QED BY <2>1, <2>2, SwitchesAssumption DEF Call
<1>4. op' = op /\ UNCHANGED <<job, pc, waiting, result>>
  BY <1>2 DEF client, op
<1>5. job \in opened /\ ~(op = "close" /\ waiting) => job \in opened'
  <2>1. requests[1].op = "close" => op = "close" /\ waiting
    BY <1>2 DEF HandleInv, Closes
  <2> QED BY <1>1, <1>3, <2>1, OpenedBy
<1>6. op = "open" /\ Len(answers') = 1 /\ answers'[1].ok => job \in opened'
  <2> SUFFICES ASSUME op = "open", Len(answers') = 1, answers'[1].ok PROVE job \in opened'
    OBVIOUS
  <2>1. failure # "socket" /\ Len(requests) # 0
    BY <1>2, <1>3 DEF Inv, JobInv
  <2>2. InFlight
    BY <1>2, <1>3, <2>1 DEF Inv, InStep, Idle
  <2>3. requests[1] = current /\ Len(answers) = 0
    BY <1>2, <2>2 DEF InFlight
  <2>4. requests[1].op = "open" /\ ok
    BY <1>1, <2>3 DEF current, AnswerTo, TypeOK
  <2> QED BY <1>1, <1>3, <2>4, OpenedBy
<1>7. Held'
  BY <1>2, <1>4, <1>5, <1>6 DEF HandleInv, Held
<1>8. Closes' /\ Spent'
  BY <1>2, <1>4 DEF HandleInv, Closes, Spent
<1> QED BY <1>7, <1>8 DEF HandleInv

LEMMA HandleServeOrphan == ASSUME TypeOK, HandleInv, ServeOrphan PROVE HandleInv'
<1>1. PICK c \in orphans, ok \in BOOLEAN : Carries(c, ok) /\ orphans' = orphans \ {c}
  BY DEF ServeOrphan
<1>2. UNCHANGED <<conn, requests, answers, client>>
  BY DEF ServeOrphan
<1>3. op' = op /\ UNCHANGED <<job, pc, waiting, result>>
  BY <1>2 DEF client, op
<1>4. c \in Call /\ (c.op = "close" /\ conn = "up" => c.h # job)
  BY DEF TypeOK, HandleInv, Spent, OwnClose
<1>5. conn = "up" /\ job \in opened => job \in opened'
  BY <1>1, <1>4, OpenedBy
<1> QED BY <1>1, <1>2, <1>3, <1>5 DEF HandleInv, Held, Closes, Spent

LEMMA HandleBegin == ASSUME TypeOK, Inv, HandleInv, NEW j \in Jobs, Begin(j) PROVE HandleInv'
<1>1. /\ job = None /\ result[j] = "todo" /\ job' = j /\ pc' = 1
      /\ UNCHANGED <<requests, answers, orphans, result>>
  BY DEF Begin
<1>2. Len(requests) = 0 /\ Len(answers) = 0
  BY <1>1 DEF Inv, InStep, Idle
<1>3. \A c \in orphans : c.job \in Jobs
  BY DEF TypeOK, Call
<1> QED BY <1>1, <1>2, <1>3, SwitchesAssumption DEF HandleInv, Held, Closes, Spent

LEMMA HandleStep == ASSUME TypeOK, Inv, Inv', HandleInv, [Next]_vars PROVE HandleInv'
<1>1. CASE Broken \/ TimeOut
  <2>1. job \in Jobs /\ Fails("socket", answers) /\ UNCHANGED device /\ (conn = "up" => waiting)
    BY <1>1 DEF Broken, TimeOut, TypeOK, Handles
  <2> QED BY <2>1, HandleFails DEF Failures
<1>2. CASE Drop
  BY <1>2, HandleDropped DEF Drop
<1>3. ASSUME NEW j \in Jobs, CannotConnect(j) PROVE HandleInv'
  <2>1. /\ job = None /\ UNCHANGED <<conn, requests, answers, orphans, job, pc, waiting>>
        /\ \A k \in Jobs : result'[k] = "todo" => result[k] = "todo"
    BY <1>3 DEF CannotConnect, TypeOK
  <2>2. \A c \in orphans : c.job \in Jobs
    BY DEF TypeOK, Call
  <2>3. Len(requests) = 0
    BY <2>1 DEF Inv, InStep, Idle
  <2> QED BY <2>1, <2>2, <2>3 DEF HandleInv, Held, Closes, Spent
<1>4. CASE UNCHANGED vars
  BY <1>4, HandleSame DEF vars
<1> QED BY <1>1, <1>2, <1>3, <1>4, HandleReceive, HandleSend, HandleServe, HandleServeOrphan, HandleBegin
        DEF Next, Work

(* An orderly client only ever works with the handle its own open was      *)
(* given, and no late call of an earlier job or connection has closed it.  *)
THEOREM OrderlyHandleIsHeld ==
    ASSUME CloseOnError, SwallowClose, "close" \notin SlowOps
    PROVE  Spec => []OwnHandle
<1>1. Orderly
  BY DEF Orderly
<1>2. Init => HandleInv
  BY DEF Init, HandleInv, Held, Closes, Spent
<1>3. TypeOK /\ Inv /\ [Next]_vars => Inv'
  BY <1>1, InvStep
<1>4. TypeOK /\ Inv /\ Inv' /\ HandleInv /\ [Next]_vars => HandleInv'
  BY HandleStep
<1>5. Inv /\ HandleInv => OwnHandle
  BY DEF Inv, JobInv, HandleInv, Held, OwnHandle
<1> QED BY <1>2, <1>3, <1>4, <1>5, InvInit, TypeCorrect, PTL DEF Spec
===============================================================================
