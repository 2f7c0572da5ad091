-------------------------------- MODULE Calls --------------------------------
(***************************************************************************)
(* What a client of the device's file service owes its caller: every job   *)
(* takes effect at most once, is reported once, and a report of success or *)
(* refusal is true and stays true.  A job that is reported failed may      *)
(* still take effect later.  Module Rapi implements it.                    *)
(***************************************************************************)
CONSTANT Jobs

VARIABLES
    whole,   \* the jobs the device has carried out
    result   \* what the caller has been told of each job

Init == whole = {} /\ result = [j \in Jobs |-> "todo"]

TakesEffect(j) ==
    /\ result[j] \in {"todo", "failed"} /\ j \notin whole
    /\ whole' = whole \cup {j} /\ UNCHANGED result

Report(j, r) ==
    /\ result[j] = "todo"
    /\ r = "done" => j \in whole
    /\ r = "refused" => j \notin whole
    /\ result' = [result EXCEPT ![j] = r] /\ UNCHANGED whole

Next == \E j \in Jobs : TakesEffect(j) \/ \E r \in {"done", "refused", "failed"} : Report(j, r)
Spec == Init /\ [][Next]_<<whole, result>>
==============================================================================
