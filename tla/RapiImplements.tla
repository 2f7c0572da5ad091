--------------------------- MODULE RapiImplements ---------------------------
(* The orderly client of module Rapi implements module Calls.              *)
EXTENDS RapiProofs

(* A call that may still change a job's file finds that file unfinished,   *)
(* and there is never a second one of the same job.                        *)
Once ==
    /\ \A c \in orphans : c.op # "close" => Partial(c.job)
    /\ \A c, d \in orphans : c.job = d.job /\ c.op # "close" /\ d.op # "close" => c = d
    /\ \A i \in 1..Len(requests), j \in Jobs :
         requests[i].op # "close" /\ requests[i].job = j => i = 1 /\ Partial(j)

LEMMA AppendFacts ==
    ASSUME NEW S, NEW s \in Seq(S), NEW x
    PROVE  /\ Len(s) \in Nat /\ Len(Append(s, x)) = Len(s) + 1
           /\ \A i \in 1..Len(s) : Append(s, x)[i] = s[i]
           /\ Append(s, x)[Len(s) + 1] = x
OBVIOUS

LEMMA RequestTyped == ASSUME TypeOK PROVE \A i \in 1..Len(requests) : requests[i] \in Call /\ requests[i].job \in Jobs
<1>1. \A i \in 1..Len(requests) : requests[i] \in Call
  BY DEF TypeOK
<1> QED BY <1>1 DEF Call

LEMMA PartialIsIncomplete == ASSUME NEW j \in Jobs, Partial(j) PROVE ~Complete(j)
<1> SUFFICES ASSUME Complete(j) PROVE FALSE
  OBVIOUS
<1>1. PICK n \in 0 .. Steps(j) - 1 : Copies(j, n) = Copies(j, Steps(j))
  BY DEF Partial, Complete
<1>2. Steps(j) \in Nat
  BY ProgramShape
<1>3. Len(Copies(j, n)) = n /\ Len(Copies(j, Steps(j))) = Steps(j)
  BY <1>2, CopiesFacts
<1> QED BY <1>1, <1>2, <1>3

LEMMA SameContent ==
    ASSUME NEW j \in Jobs, content'[j] = content[j]
    PROVE  (Complete(j))' = Complete(j) /\ (Partial(j))' = Partial(j)
BY DEF Complete, Partial

(* While a connection is up, no call but a close of its job is an orphan.  *)
LEMMA NoOwnOrphan ==
    ASSUME TypeOK, Inv, job \in Jobs, conn = "up"
    PROVE  \A c \in orphans : c.op # "close" => c.job # job
<1>1. result[job] = "todo"
  BY SwitchesAssumption DEF Inv, JobInv
<1> QED BY <1>1 DEF Inv, OwnOrphans, Late

LEMMA RequestsAreOwn ==
    ASSUME TypeOK, Inv, Len(requests) # 0
    PROVE  conn = "up" /\ job \in Jobs /\ \A i \in 1..Len(requests) : requests[i].job = job /\ requests[i] \in Call
BY RequestTyped DEF Inv, InStep, Idle, OwnRequests, TypeOK, Handles

(* The requests of a connection that is given up become orphans.           *)
LEMMA DroppedKeepsOnce ==
    ASSUME TypeOK, Inv, Once, content' = content, NEW s, Dropped(s)
    PROVE  Once'
<1>1. orphans' = orphans \cup {requests[i] : i \in 1..Len(requests)} /\ Len(requests') = 0
  BY DEF Dropped, TypeOK
<1>2. \A c \in orphans : c \in Call /\ c.job \in Jobs
  BY DEF TypeOK, Call
<1>3. \A j \in Jobs : (Partial(j))' = Partial(j)
  BY SameContent
<1>4. CASE Len(requests) = 0
  <2>1. orphans' = orphans
    BY <1>1, <1>4
  <2> QED BY <1>1, <1>2, <1>3, <2>1 DEF Once
<1>5. CASE Len(requests) # 0
  <2>1. conn = "up" /\ job \in Jobs /\ \A i \in 1..Len(requests) : requests[i].job = job
    BY <1>5, RequestsAreOwn
  <2>2. \A c \in orphans : c.op # "close" => c.job # job
    BY <2>1, NoOwnOrphan
  <2>3. \A c \in orphans' : c.op # "close" =>
          (c \in orphans /\ c.job # job) \/ (c = requests[1] /\ c.job = job /\ Partial(job))
    BY <1>1, <2>1, <2>2 DEF Once
  <2>4. \A c \in orphans' : c.op # "close" => (Partial(c.job))'
    BY <1>2, <1>3, <2>1, <2>3 DEF Once
  <2>5. \A c, d \in orphans' : c.job = d.job /\ c.op # "close" /\ d.op # "close" => c = d
    BY <2>3 DEF Once
  <2> QED BY <1>1, <2>4, <2>5 DEF Once
<1> QED BY <1>4, <1>5

LEMMA SameKeepsOnce ==
    ASSUME TypeOK, Once, UNCHANGED <<content, requests, orphans>>
    PROVE  Once'
<1>1. \A j \in Jobs : (Partial(j))' = Partial(j)
  BY SameContent
<1>2. \A c \in orphans : c.job \in Jobs
  BY DEF TypeOK, Call
<1> QED BY <1>1, <1>2 DEF Once

LEMMA ClientKeepsOnce ==
    ASSUME TypeOK, Inv, Once, job \in Jobs, content' = content,
           NEW rest, (\E f : Fails(f, rest)) \/ \E h : Succeeds(h, rest)
    PROVE  Once'
<1>1. (\E n, h, g : GoOn(n, h, g, rest)) \/ (\E g : End(g, rest))
  BY CallShape DEF Fails, Succeeds, Ops
<1>2. ASSUME NEW n, NEW h, NEW g, GoOn(n, h, g, rest) PROVE Once'
  BY <1>2, SameKeepsOnce DEF GoOn
<1>3. ASSUME NEW g, End(g, rest) PROVE Once'
  <2>1. CASE Dropped("none")
    BY <2>1, DroppedKeepsOnce
  <2>2. CASE UNCHANGED <<conn, requests, orphans>>
    BY <2>2, SameKeepsOnce
  <2> QED BY <1>3, <2>1, <2>2 DEF End, Leaves
<1> QED BY <1>1, <1>2, <1>3

LEMMA SendKeepsOnce == ASSUME TypeOK, Inv, Once, Send PROVE Once'
<1>1. /\ job \in Jobs /\ ~waiting /\ conn = "up" /\ requests' = Append(requests, current)
      /\ UNCHANGED <<orphans, content>>
  BY DEF Send, current, device, TypeOK, Handles
<1>2. \A j \in Jobs : (Partial(j))' = Partial(j)
  BY <1>1, SameContent
<1>3. \A c \in orphans : c.job \in Jobs
  BY DEF TypeOK, Call
<1>5. job # None
  BY <1>1, SwitchesAssumption
<1>6. op # "close" => Len(requests) = 0 /\ Partial(job)
  <2> SUFFICES ASSUME op # "close" PROVE Len(requests) = 0 /\ Partial(job)
    OBVIOUS
  <2>1. failure = "none" /\ Len(requests) = 0 /\ Len(answers) = 0
    BY <1>1, <1>5 DEF Inv, JobInv, InStep, Idle
  <2>2. content[job] = Copies(job, pc - 1)
    BY <1>1, <1>5, <2>1 DEF Inv, UnderWay, Progress
  <2>3. pc - 1 \in 0 .. Steps(job) - 1
    BY <1>1, CallShape DEF Ops
  <2> QED BY <2>1, <2>2, <2>3 DEF Partial
<1>7. /\ Len(requests) \in Nat /\ Len(requests') = Len(requests) + 1
      /\ \A i \in 1..Len(requests) : requests'[i] = requests[i]
      /\ requests'[Len(requests) + 1] = current
  <2>1. requests \in Seq(Call)
    BY DEF TypeOK
  <2> HIDE DEF current
  <2> QED BY <1>1, <2>1, AppendFacts
<1>8. current.op = op /\ current.job = job
  BY DEF current
<1>9. ASSUME NEW i \in 1..Len(requests'), NEW j \in Jobs, requests'[i].op # "close", requests'[i].job = j
      PROVE  i = 1 /\ Partial(j)
  <2>1. CASE i \in 1..Len(requests)
    BY <1>7, <1>9, <2>1 DEF Once
  <2>2. CASE i = Len(requests) + 1
    BY <1>6, <1>7, <1>8, <1>9, <2>2
  <2> QED BY <1>7, <2>1, <2>2
<1>10. \A c \in orphans : c.op # "close" => (Partial(c.job))'
  BY <1>2, <1>3 DEF Once
<1> QED BY <1>1, <1>2, <1>9, <1>10 DEF Once

(* Every step of the device carries out one call.                          *)
LEMMA ServeKeepsOnce == ASSUME TypeOK, Inv, Once, Serve PROVE Once'
<1>1. PICK ok \in BOOLEAN : Carries(requests[1], ok)
  BY DEF Serve, TypeOK
<1>2. /\ conn = "up" /\ Len(requests) \in Nat \ {0} /\ UNCHANGED orphans
      /\ Len(requests') = Len(requests) - 1
      /\ \A i \in 1..Len(requests') : i + 1 \in 1..Len(requests) /\ requests'[i] = requests[i + 1]
  BY DEF Serve, TypeOK
<1>3. job \in Jobs /\ requests[1].job = job /\ requests[1] \in Call /\ (requests[1].op = "write" => requests[1].h = job)
  <2>1. 1 \in 1..Len(requests) /\ Len(requests) # 0
    BY <1>2
  <2>2. job \in Jobs /\ \A i \in 1..Len(requests) : requests[i].job = job /\ requests[i] \in Call
    BY <2>1, RequestsAreOwn
  <2>3. OwnRequests
    BY DEF Inv
  <2>4. requests[1].op = "write" => requests[1].h = requests[1].job
    BY <2>1, <2>3 DEF OwnRequests
  <2> QED BY <2>1, <2>2, <2>4
<1>4. \A j \in Jobs \ {job} : content'[j] = content[j]
  BY <1>1, <1>3, Carried
<1>5. \A c \in orphans : c.op # "close" => c.job \in Jobs \ {job}
  BY <1>2, <1>3, NoOwnOrphan DEF TypeOK, Call
<1>6. \A c \in orphans : c.op # "close" => (Partial(c.job))'
  BY <1>4, <1>5, SameContent DEF Once
<1>7. \A i \in 1..Len(requests') : requests'[i].op = "close"
  BY <1>2, RequestTyped DEF Once
<1> QED BY <1>2, <1>6, <1>7 DEF Once

LEMMA ServeOrphanKeepsOnce == ASSUME TypeOK, Inv, Once, ServeOrphan PROVE Once'
<1>1. PICK c \in orphans, ok \in BOOLEAN : Carries(c, ok) /\ orphans' = orphans \ {c}
  BY DEF ServeOrphan
<1>2. requests' = requests
  BY DEF ServeOrphan
<1>3. c \in Call /\ c.job \in Jobs /\ (c.op = "write" => c.h = c.job)
  BY <1>1 DEF TypeOK, Call, Inv, OwnOrphans
<1>4. /\ \A j \in Jobs \ {c.job} : content'[j] = content[j]
      /\ c.op = "close" => content' = content
  BY <1>1, <1>3, Carried
<1>5. \A d \in orphans : d.job \in Jobs
  BY DEF TypeOK, Call
<1>6. \A i \in 1..Len(requests) : c.op # "close" => requests[i].job # c.job
  BY <1>1, RequestsAreOwn, NoOwnOrphan DEF TypeOK
<1>7. \A d \in orphans' : d.op # "close" => (Partial(d.job))'
  BY <1>1, <1>3, <1>4, <1>5, SameContent DEF Once
<1>8. \A i \in 1..Len(requests), j \in Jobs :
        requests[i].op # "close" /\ requests[i].job = j => i = 1 /\ (Partial(j))'
  BY <1>3, <1>4, <1>6, SameContent DEF Once
<1> QED BY <1>1, <1>2, <1>7, <1>8 DEF Once

LEMMA OnceStep == ASSUME TypeOK, Inv, Once, [Next]_vars PROVE Once'
<1>0. job # None => job \in Jobs
  BY DEF TypeOK, Handles
<1>1. CASE UNCHANGED vars
  BY <1>1, SameKeepsOnce DEF vars, device
<1>2. ASSUME NEW j \in Jobs, Begin(j) \/ CannotConnect(j) PROVE Once'
  BY <1>2, SameKeepsOnce DEF Begin, CannotConnect, device
<1>3. CASE Receive
  BY <1>0, <1>3, ClientKeepsOnce DEF Receive, device
<1>4. CASE TimeOut \/ Broken
  BY <1>0, <1>4, ClientKeepsOnce DEF TimeOut, Broken, device
<1>5. CASE Drop
  BY <1>5, DroppedKeepsOnce DEF Drop, device
<1> QED BY <1>1, <1>2, <1>3, <1>4, <1>5, SendKeepsOnce, ServeKeepsOnce, ServeOrphanKeepsOnce DEF Next, Work

-------------------------------------------------------------------------------
(* The steps of the client, and of the device, seen from module Calls.     *)
LEMMA ReportStep ==
    ASSUME TypeOK, Inv, Inv', NEW j \in Jobs, NEW r \in {"done", "refused", "failed"},
           result[j] = "todo", result' = [result EXCEPT ![j] = r], content' = content
    PROVE  C!Next
<1>1. \A k \in Jobs : (Complete(k))' = Complete(k) /\ (Partial(k))' = Partial(k)
  BY SameContent
<1>2. Whole' = Whole
  BY <1>1 DEF Whole
<1>3. result'[j] = r
  BY DEF TypeOK
<1>4. r = "done" => j \in Whole
  BY <1>1, <1>3 DEF Inv, Settled, Whole
<1>5. r = "refused" => j \notin Whole
  BY <1>1, <1>3, PartialIsIncomplete DEF Inv, Settled, Whole
<1> QED BY <1>2, <1>4, <1>5 DEF C!Next, C!Report

LEMMA EffectStep ==
    ASSUME TypeOK, Inv, Once, result' = result, NEW c \in Call, NEW ok \in BOOLEAN, Carries(c, ok),
           c.op = "write" => c.h = c.job,
           c.op # "close" => Partial(c.job) /\ result[c.job] \in {"todo", "failed"}
    PROVE  C!Next \/ UNCHANGED <<Whole, result>>
<1>1. c.job \in Jobs
  BY DEF Call
<1>2. /\ \A j \in Jobs \ {c.job} : (Complete(j))' = Complete(j)
      /\ c.op = "close" => \A j \in Jobs : (Complete(j))' = Complete(j)
  BY Carried, SameContent
<1>3. CASE (Complete(c.job))' = Complete(c.job)
  BY <1>1, <1>2, <1>3 DEF Whole
<1>4. CASE (Complete(c.job))' # Complete(c.job)
  <2>1. ~Complete(c.job) /\ result[c.job] \in {"todo", "failed"}
    BY <1>1, <1>2, <1>4, PartialIsIncomplete
  <2>2. (Complete(c.job))'
    BY <1>4, <2>1 DEF Complete
  <2>3. Whole' = Whole \cup {c.job} /\ c.job \notin Whole
    BY <1>1, <1>2, <2>1, <2>2 DEF Whole
  <2> QED BY <1>1, <2>1, <2>3 DEF C!Next, C!TakesEffect
<1> QED BY <1>3, <1>4

LEMMA SameWhole == ASSUME content' = content PROVE Whole' = Whole
BY SameContent DEF Whole

LEMMA ClientImplements ==
    ASSUME TypeOK, Inv, Inv', job \in Jobs, content' = content,
           NEW rest, (\E f \in Failures : Fails(f, rest)) \/ \E h : Succeeds(h, rest)
    PROVE  C!Next \/ UNCHANGED <<Whole, result>>
<1>1. failure \in Failures /\ result[job] = "todo"
  BY SwitchesAssumption DEF TypeOK, Failures, Inv, JobInv
<1>2. (\E n, h, g : GoOn(n, h, g, rest)) \/ (\E g \in Failures : End(g, rest))
  BY <1>1, CallShape DEF Fails, Succeeds, Ops
<1>3. ASSUME NEW n, NEW h, NEW g, GoOn(n, h, g, rest) PROVE UNCHANGED <<Whole, result>>
  BY <1>3, SameWhole DEF GoOn
<1>4. ASSUME NEW g \in Failures, End(g, rest) PROVE C!Next
  <2>1. PICK r \in {"done", "refused", "failed"} : result' = [result EXCEPT ![job] = r]
    BY <1>4 DEF End, Failures
  <2> QED BY <1>1, <2>1, ReportStep
<1> QED BY <1>2, <1>3, <1>4

LEMMA StepImplements ==
    ASSUME TypeOK, Inv, Inv', Once, [Next]_vars
    PROVE  C!Next \/ UNCHANGED <<Whole, result>>
<1>0. job # None => job \in Jobs
  BY DEF TypeOK, Handles
<1>1. CASE UNCHANGED <<content, result>>
  BY <1>1, SameWhole
<1>2. ASSUME NEW j \in Jobs, CannotConnect(j) PROVE C!Next
  BY <1>2, ReportStep DEF CannotConnect, device
<1>3. CASE Receive
  <2>1. Parse(Head(answers)) # "ok" => Parse(Head(answers)) \in Failures
    BY <1>0, <1>3, CallShape DEF Parse, Failures, Ops, Receive
  <2> QED BY <1>0, <1>3, <2>1, ClientImplements DEF Receive, device
<1>4. CASE TimeOut \/ Broken
  BY <1>0, <1>4, ClientImplements DEF TimeOut, Broken, device, Failures
<1>5. CASE Serve
  <2>1. PICK ok \in BOOLEAN : Carries(requests[1], ok)
    BY <1>5 DEF Serve, TypeOK
  <2>2. Len(requests) \in Nat \ {0} /\ result' = result
    BY <1>5 DEF Serve, TypeOK, client
  <2>3. requests[1] \in Call /\ requests[1].job = job /\ job \in Jobs /\ (requests[1].op = "write" => requests[1].h = job)
    BY <2>2, RequestsAreOwn DEF Inv, OwnRequests
  <2>4. result[job] = "todo"
    BY <2>3, SwitchesAssumption DEF Inv, JobInv
  <2>5. requests[1].op # "close" => Partial(job)
    BY <2>2, <2>3 DEF Once
  <2> QED BY <2>1, <2>2, <2>3, <2>4, <2>5, EffectStep
<1>6. CASE ServeOrphan
  <2>1. PICK c \in orphans, ok \in BOOLEAN : Carries(c, ok)
    BY <1>6 DEF ServeOrphan
  <2>2. result' = result
    BY <1>6 DEF ServeOrphan, client
  <2>3. c \in Call /\ c.job \in Jobs /\ (c.op = "write" => c.h = c.job) /\ Late(c) /\ (c.op # "close" => Partial(c.job))
    BY <2>1 DEF TypeOK, Call, Inv, OwnOrphans, Once
  <2>4. c.op # "close" => result[c.job] \in {"todo", "failed"}
    BY <2>3, SwitchesAssumption DEF Late, Inv, JobInv
  <2> QED BY <2>1, <2>2, <2>3, <2>4, EffectStep
<1>7. Begin(job') \/ Send \/ Drop => UNCHANGED <<content, result>>
  BY DEF Begin, Send, Drop, client, device
<1>8. \A j \in Jobs : Begin(j) => UNCHANGED <<content, result>>
  BY DEF Begin, device
<1>9. UNCHANGED vars => UNCHANGED <<content, result>>
  BY DEF vars, client, device
<1> QED BY <1>1, <1>2, <1>3, <1>4, <1>5, <1>6, <1>7, <1>8, <1>9 DEF Next, Work

(* An orderly client implements module Calls, whatever the jobs and however *)
(* often answers are late or connections are lost.                          *)
THEOREM OrderlyImplementsCalls ==
    ASSUME CloseOnError, SwallowClose, "close" \notin SlowOps
    PROVE  Spec => ImplementsCalls
<1>0. Orderly
  BY DEF Orderly
<1>1. Init => C!Init
  <2> SUFFICES ASSUME Init PROVE C!Init
    OBVIOUS
  <2>1. ASSUME NEW j \in Jobs PROVE Partial(j)
    <3>1. content[j] = Copies(j, 0)
      BY CopiesFacts DEF Init
    <3>2. Steps(j) \in Nat \ {0}
      <4>1. /\ Len(Program[j]) \in Nat \ {0}
            /\ Steps(j) = IF Len(Program[j]) = 1 THEN 1 ELSE Len(Program[j]) - 1
        BY ProgramShape
      <4> QED BY <4>1
    <3> QED BY <3>1, <3>2 DEF Partial
  <2>2. Whole = {}
    BY <2>1, PartialIsIncomplete DEF Whole
  <2> QED BY <2>2 DEF Init, C!Init
<1>2. Init => Once
  BY DEF Init, Once
<1>3. TypeOK /\ Inv /\ Once /\ [Next]_vars => Inv' /\ Once'
  BY <1>0, InvStep, OnceStep
<1>4. TypeOK /\ Inv /\ Inv' /\ Once /\ [Next]_vars => [C!Next]_<<Whole, result>>
  BY StepImplements
<1> QED BY <1>1, <1>2, <1>3, <1>4, InvInit, TypeCorrect, PTL DEF Spec, ImplementsCalls, C!Spec
==============================================================================
