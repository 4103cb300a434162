------------------------------ MODULE TaskWait -------------------------------
(***************************************************************************)
(* Waiting for a Redfish task (redfish.c, commons.c).  The BMC runs a task *)
(* and utool polls it: UtoolRedfishWaitUtilTaskStart until it has really   *)
(* started (a remote image has been fetched), then                         *)
(* UtoolRedfishWaitUtilTaskFinished until it has ended.  Every other       *)
(* asynchronous command (collect, geteventlog, exportbmccfg, importbmccfg) *)
(* uses the second function alone.                                         *)
(*                                                                         *)
(* A JSON document is a record: the task state and whether a percentage is *)
(* shown, plus a "shape" telling what UtoolRedfishMapTaskFromJson will do  *)
(* with it.  The GETs of the poll may fail in two ways that the code tells *)
(* apart: no answer (a CURL error code) and a refusal (an HTTP status or   *)
(* an extended message, for which `code' stays OK and `desc' is built).    *)
(***************************************************************************)
EXTENDS Integers

CONSTANT RetryLimit      \* the initial value of maxRetryTimes, 60 in the code

ASSUME RetryLimitAssumption == RetryLimit \in Nat

VARIABLES
  task,            \* the task on the BMC: its state, and whether it shows a percentage
  wait,            \* which of the two functions is running: "start" or "finish"
  pc,              \* "map": mapping and deciding, "get": polling, "done": returned
  jsonTask,        \* the JSON the current round is decided on
  data,            \* result->data, the JSON handed to the caller
  maxRetryTimes,   \* failed polls that are still tolerated
  broken, code, desc   \* the other fields of UtoolResult

vars == <<task, wait, pc, jsonTask, data, maxRetryTimes, broken, code, desc>>

-----------------------------------------------------------------------------
\* Task states (constants.h).  New stands for the states before work begins,
\* Running for those during it: the code asks only for the three lists below.
SuccessStatus  == {"OK", "Completed"}
FailedStatus   == {"Exception", "Interrupted", "Killed"}
FinishedWithoutKilled == {"OK", "Completed", "Exception", "Interrupted"}   \* what if: one forgotten
FinishedStatus == {"OK", "Completed", "Exception", "Interrupted", "Killed"}
PendingStatus  == {"New", "Running"}

Task == [state : PendingStatus \cup SuccessStatus \cup FailedStatus,
         percent : {"NULL", "shown"}]

\* What the mapping does with a document.  "task": all members are there.
\* "lacking": one of @odata.id, Id, Name is missing, an error code.
\* "nonstring": one of them is not a string, no error code.  "null": no JSON.
Shape == {"task", "lacking", "nonstring"}
Json  == [shape : Shape \cup {"null"}, task : Task]

\* The document the BMC answers with now, and the NULL pointer.
Answer(shape) == [shape |-> shape, task |-> task]
NullJson == [shape |-> "null", task |-> [state |-> "New", percent |-> "NULL"]]

AnyEndIsSuccess(json) == json.task.state \in FinishedStatus   \* what if: the wrong list
IsTaskSuccess(json) == json.task.state \in SuccessStatus

TypeOK ==
  /\ task \in Task
  /\ wait \in {"start", "finish"}
  /\ pc \in {"map", "get", "done"}
  /\ jsonTask \in Json
  /\ data \in Json
  /\ maxRetryTimes \in -1..RetryLimit
  /\ broken \in {0, 1}
  /\ code \in {"OK", "ERROR"}
  /\ desc \in {"NULL", "task failure", "http failure"}

-----------------------------------------------------------------------------
\* The POST that created the task has been answered; its JSON is result->data.
Init ==
  /\ task = [state |-> "New", percent |-> "NULL"]
  /\ wait \in {"start", "finish"}
  /\ pc = "map"
  /\ \E shape \in Shape : jsonTask = Answer(shape)
  /\ data = jsonTask
  /\ maxRetryTimes = RetryLimit
  /\ broken = 0
  /\ code = "OK"
  /\ desc = "NULL"

\* The BMC works on the task until it ends, then leaves it as it is.
BmcAdvances ==
  /\ task.state \in PendingStatus
  /\ task' \in Task
  /\ task' # task
  /\ task.percent = "shown" => task'.percent = "shown"
  /\ task'.state = "New" => task.state = "New"
  /\ UNCHANGED <<wait, pc, jsonTask, data, maxRetryTimes, broken, code, desc>>

\* goto FAILURE
Break == broken' = 1 /\ pc' = "done"

\* UtoolRedfishMapTaskFromJson fails: broken, with or without an error code.
MapFails ==
  /\ pc = "map"
  /\ jsonTask.shape # "task"
  /\ code' = IF jsonTask.shape = "nonstring" THEN "OK" ELSE "ERROR"
  /\ Break
  /\ UNCHANGED <<task, wait, jsonTask, data, maxRetryTimes, desc>>

\* The round is decided: the wait for the start ends on a percentage too.
Decided ==
  \/ jsonTask.task.state \in FinishedStatus
  \/ wait = "start" /\ jsonTask.task.percent = "shown"

\* What if: a task that fails before it starts is taken for a started one.
TaskFailedAtTheEndOnly == wait = "finish" /\ ~IsTaskSuccess(data)

\* A task that ended badly: the verdict is built from result->data.
TaskFailed ==
  \/ wait = "finish" /\ ~IsTaskSuccess(data)
  \/ wait = "start" /\ data.task.state \in FailedStatus

ReportFailure ==
  /\ pc = "map"
  /\ jsonTask.shape = "task"
  /\ Decided
  /\ TaskFailed
  /\ code' = "OK"
  /\ desc' = "task failure"
  /\ data' = NullJson
  /\ Break
  /\ UNCHANGED <<task, wait, jsonTask, maxRetryTimes>>

\* What if: the failure check is not made before returning.
ReturnTaskUnchecked ==
  /\ pc = "map"
  /\ jsonTask.shape = "task"
  /\ Decided
  /\ code' = "OK"
  /\ pc' = "done"
  /\ UNCHANGED <<task, wait, jsonTask, data, maxRetryTimes, broken, desc>>

\* goto DONE with result->data
ReturnTask ==
  /\ pc = "map"
  /\ jsonTask.shape = "task"
  /\ Decided
  /\ ~TaskFailed
  /\ code' = "OK"
  /\ pc' = "done"
  /\ UNCHANGED <<task, wait, jsonTask, data, maxRetryTimes, broken, desc>>

StillProcessing ==
  /\ pc = "map"
  /\ jsonTask.shape = "task"
  /\ ~Decided
  /\ code' = "OK"
  /\ pc' = "get"
  /\ UNCHANGED <<task, wait, jsonTask, data, maxRetryTimes, broken, desc>>

\* What if: the loop goes on with the JSON it has just freed.
GetSucceedsKeepingOldJson ==
  /\ pc = "get"
  /\ \E shape \in Shape : data' = Answer(shape)
  /\ code' = "OK"
  /\ pc' = "map"
  /\ UNCHANGED <<task, wait, jsonTask, maxRetryTimes, broken, desc>>

\* UtoolRedfishGet succeeds: the old JSON is freed, the new one is result->data.
GetSucceeds ==
  /\ pc = "get"
  /\ \E shape \in Shape : jsonTask' = Answer(shape)
  /\ data' = jsonTask'
  /\ code' = "OK"
  /\ pc' = "map"
  /\ UNCHANGED <<task, wait, maxRetryTimes, broken, desc>>

\* A poll fails while waiting for the start: given up at once.
GetFailsBeforeStart ==
  /\ pc = "get"
  /\ wait = "start"
  /\ \/ code' = "ERROR" /\ UNCHANGED desc
     \/ code' = "OK" /\ desc' = "http failure"
  /\ Break
  /\ UNCHANGED <<task, wait, jsonTask, data, maxRetryTimes>>

\* What if: the counter is not looked at.
GetFailsUnlimited ==
  /\ pc = "get"
  /\ wait = "finish"
  /\ code' \in {"OK", "ERROR"}
  /\ desc' = "NULL"
  /\ maxRetryTimes' = maxRetryTimes - 1
  /\ pc' = "map"
  /\ UNCHANGED <<task, wait, jsonTask, data, broken>>

\* What if: the tolerance is one short.
GetFailsOneShort ==
  /\ pc = "get"
  /\ wait = "finish"
  /\ code' \in {"OK", "ERROR"}
  /\ desc' = "NULL"
  /\ maxRetryTimes' = maxRetryTimes - 1
  /\ IF maxRetryTimes' <= 0 THEN Break ELSE pc' = "map" /\ UNCHANGED broken
  /\ UNCHANGED <<task, wait, jsonTask, data>>

\* What if: the message of a tolerated failure is kept.
GetFailsKeepingDesc ==
  /\ pc = "get"
  /\ wait = "finish"
  /\ \/ code' = "ERROR" /\ UNCHANGED desc
     \/ code' = "OK" /\ desc' = "http failure"
  /\ maxRetryTimes' = maxRetryTimes - 1
  /\ IF maxRetryTimes' < 0 THEN Break ELSE pc' = "map" /\ UNCHANGED broken
  /\ UNCHANGED <<task, wait, jsonTask, data>>

\* A poll fails while waiting for the end: the message is dropped and the
\* failure is tolerated until maxRetryTimes is below zero.
GetFails ==
  /\ pc = "get"
  /\ wait = "finish"
  /\ code' \in {"OK", "ERROR"}
  /\ desc' = "NULL"
  /\ maxRetryTimes' = maxRetryTimes - 1
  /\ IF maxRetryTimes' < 0 THEN Break ELSE pc' = "map" /\ UNCHANGED broken
  /\ UNCHANGED <<task, wait, jsonTask, data>>

\* The remote image has been fetched: UpgradeFirmwareByRedfish goes on to wait
\* for the end of the same task, with the JSON the first wait left.
WaitForEnd ==
  /\ pc = "done"
  /\ wait = "start"
  /\ broken = 0
  /\ wait' = "finish"
  /\ pc' = "map"
  /\ jsonTask' = data
  /\ UNCHANGED <<task, data, maxRetryTimes, broken, code, desc>>

Returned == pc = "done" /\ (broken = 1 \/ wait = "finish")

Terminated == Returned /\ UNCHANGED vars

Poll ==
  \/ MapFails \/ ReportFailure \/ ReturnTask \/ StillProcessing
  \/ GetSucceeds \/ GetFailsBeforeStart \/ GetFails \/ WaitForEnd

Next == BmcAdvances \/ Poll \/ Terminated

\* The polling process is scheduled; that the BMC ends its tasks is not assumed.
Spec == Init /\ [][Next]_vars /\ WF_vars(Poll)

-----------------------------------------------------------------------------
\* Whoever is told that the wait succeeded finds a task that has succeeded on
\* the BMC, and holds that task's JSON with no text left over from a poll that
\* failed on the way (the loop frees desc, redfish.c:1530).
SuccessIsReal ==
  Returned /\ broken = 0 =>
    /\ task.state \in SuccessStatus
    /\ data = jsonTask /\ IsTaskSuccess(data)
    /\ code = "OK" /\ desc = "NULL"

\* Once the start has been seen, the wait only fails on a task that failed, on
\* a document that is not a task, or on more failed polls than are tolerated:
\* a long task is not given up after fewer than 61 failures (redfish.c:1487).
FailureIsExplained ==
  Returned /\ broken = 1 /\ wait = "finish" =>
    \/ task.state \in FailedStatus
    \/ jsonTask.shape # "task"
    \/ maxRetryTimes < 0

\* Each round is decided on the JSON that result->data points to: the loop frees
\* the one before it, so another one would be freed memory (redfish.c:1538).
DecidedOnLiveJson == pc = "map" => data = jsonTask

\* The wait for the end only follows a start that has happened on the BMC: a
\* percentage is shown, or the task is already over and has succeeded.
StartIsReal ==
  [][wait = "start" /\ wait' = "finish" =>
       task.percent = "shown" \/ task.state \in SuccessStatus]_vars

\* When the BMC ends the task the caller gets its answer, however the polls go.
EndIsNoticed == task.state \notin PendingStatus ~> Returned

\* How long the wait for a task that is over may still take: a document that
\* does not say so yet, the change to the second loop, polls that may fail.
StepsLeft ==
  3 * (maxRetryTimes + 1)
    + (IF jsonTask.task.state \in PendingStatus THEN 2 ELSE 0)
    + (IF wait = "start" THEN 3 ELSE 0)
    + (IF pc = "map" THEN 2 ELSE IF pc = "get" THEN 1 ELSE 0)

\* From the end of the task on, every step of the loops brings their own end
\* nearer: the retries are counted over the whole wait and both loops together,
\* and a fresh document settles the matter (redfish.c:1531, :1516).
EndIsNearer ==
  [][Poll /\ task.state \notin PendingStatus => StepsLeft' \in 0..(StepsLeft - 1)]_vars

\* The polling loops implement the abstract promise.
Verdict == INSTANCE TaskVerdict WITH
  truth <- IF task.state \in SuccessStatus THEN "success"
           ELSE IF task.state \in FailedStatus THEN "failure" ELSE "underway",
  verdict <- IF ~Returned THEN "none" ELSE IF broken = 1 THEN "failure" ELSE "success"

VerdictSpec == Verdict!Spec

-----------------------------------------------------------------------------
\* The inductive invariant behind the safety properties.

\* A document was true of the task when it was fetched: what it says of an end
\* or of a percentage still holds.
JsonIsPast ==
  /\ jsonTask.task.state \in FinishedStatus => task.state = jsonTask.task.state
  /\ jsonTask.task.percent = "shown" => task.percent = "shown"

\* While the loop runs nothing is broken and the two pointers agree.
Running ==
  pc # "done" =>
    /\ broken = 0
    /\ desc = "NULL"
    /\ data = jsonTask
    /\ maxRetryTimes >= 0
    /\ pc = "get" => jsonTask.shape = "task" /\ jsonTask.task.state \in PendingStatus

\* A successful return, from either loop.
ReturnedTask ==
  pc = "done" /\ broken = 0 =>
    /\ code = "OK" /\ desc = "NULL"
    /\ data = jsonTask
    /\ maxRetryTimes >= 0
    /\ wait = "finish" => jsonTask.task.state \in SuccessStatus
    /\ wait = "start" => /\ jsonTask.task.state \notin FailedStatus
                         /\ \/ jsonTask.task.state \in FinishedStatus
                            \/ jsonTask.task.percent = "shown"

WaitInv == TypeOK /\ JsonIsPast /\ Running /\ ReturnedTask /\ FailureIsExplained
=============================================================================
