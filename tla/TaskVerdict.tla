----------------------------- MODULE TaskVerdict -----------------------------
(***************************************************************************)
(* What waiting for a BMC task promises, whatever the polling looks like:  *)
(* the task takes its course on the BMC, the caller gets one verdict, and  *)
(* the verdict "success" is only given on a task that has succeeded.  The  *)
(* verdict "failure" may be given at any time: contact may be lost.        *)
(***************************************************************************)

VARIABLES
  truth,    \* how the task stands on the BMC
  verdict   \* what the caller has been told

vars == <<truth, verdict>>

TypeOK ==
  /\ truth \in {"underway", "success", "failure"}
  /\ verdict \in {"none", "success", "failure"}

Init ==
  /\ truth = "underway"
  /\ verdict = "none"

\* The BMC ends the task.
End ==
  /\ truth = "underway"
  /\ truth' \in {"success", "failure"}
  /\ UNCHANGED verdict

\* The caller is told, once.
Succeed ==
  /\ verdict = "none"
  /\ truth = "success"
  /\ verdict' = "success"
  /\ UNCHANGED truth

Fail ==
  /\ verdict = "none"
  /\ verdict' = "failure"
  /\ UNCHANGED truth

Next == End \/ Succeed \/ Fail

Spec == Init /\ [][Next]_vars
=============================================================================
