--------------------------- MODULE TaskWaitProofs ----------------------------
(***************************************************************************)
(* Proofs about TaskWait for every RetryLimit: the inductive invariant     *)
(* WaitInv, the safety properties it carries, and that the polling loops   *)
(* implement TaskVerdict (its safety part).                                *)
(***************************************************************************)
EXTENDS TaskWait, TLAPS

\* The initial states satisfy the invariant.
LEMMA WaitInvInit == Init => WaitInv
<1> SUFFICES ASSUME Init PROVE WaitInv
  OBVIOUS
<1>1. PICK shape \in Shape : jsonTask = Answer(shape)
  BY DEF Init
<1>2. task \in Task /\ Answer(shape) \in Json
  BY <1>1 DEF Init, Task, Json, Answer, PendingStatus
<1>3. TypeOK
  BY <1>1, <1>2, RetryLimitAssumption DEF Init, TypeOK
<1>4. jsonTask.task = task
  BY <1>1 DEF Answer
<1> QED
  BY <1>1, <1>3, <1>4, RetryLimitAssumption
  DEF Init, WaitInv, JsonIsPast, Running, ReturnedTask, FailureIsExplained, Returned,
      TypeOK

\* A finished task stays as it is, and a shown percentage stays shown.
LEMMA FinishedIsStable ==
  ASSUME BmcAdvances
  PROVE  /\ task.state \notin FinishedStatus
         /\ task.percent = "shown" => task'.percent = "shown"
BY DEF BmcAdvances, PendingStatus, FinishedStatus

\* Every step preserves the invariant.
LEMMA WaitInvStep == WaitInv /\ [Next]_vars => WaitInv'
<1> SUFFICES ASSUME WaitInv, [Next]_vars PROVE WaitInv'
  OBVIOUS
<1> USE RetryLimitAssumption DEF WaitInv
<1>1. CASE BmcAdvances
  <2>1. TypeOK'
    BY <1>1 DEF BmcAdvances, TypeOK
  <2>2. JsonIsPast'
    BY <1>1, FinishedIsStable DEF BmcAdvances, JsonIsPast
  <2>3. FailureIsExplained'
    BY <1>1, FinishedIsStable
    DEF BmcAdvances, FailureIsExplained, Returned, FinishedStatus, FailedStatus
  <2> QED
    BY <1>1, <2>1, <2>2, <2>3 DEF BmcAdvances, Running, ReturnedTask
<1>2. CASE MapFails
  BY <1>2 DEF MapFails, Break, TypeOK, JsonIsPast, Running, ReturnedTask,
              FailureIsExplained, Returned
<1>3. CASE ReportFailure
  <2>1. NullJson \in Json
    BY DEF NullJson, Json, Task, PendingStatus
  <2>2. TypeOK' /\ JsonIsPast'
    BY <1>3, <2>1 DEF ReportFailure, Break, TypeOK, JsonIsPast
  <2>3. wait = "finish" => task.state \in FailedStatus
    BY <1>3 DEF ReportFailure, Decided, TaskFailed, IsTaskSuccess, Running, JsonIsPast,
                FinishedStatus, SuccessStatus, FailedStatus
  <2>4. broken' = 1 /\ pc' = "done"
    BY <1>3 DEF ReportFailure, Break
  <2>5. Running' /\ ReturnedTask'
    BY <2>4 DEF Running, ReturnedTask
  <2>6. FailureIsExplained'
    BY <1>3, <2>3 DEF ReportFailure, FailureIsExplained, Returned
  <2> QED
    BY <2>2, <2>5, <2>6
<1>4. CASE ReturnTask
  <2>1. wait = "finish" => jsonTask.task.state \in SuccessStatus
    BY <1>4 DEF ReturnTask, TaskFailed, IsTaskSuccess, Running
  <2>2. wait = "start" => jsonTask.task.state \notin FailedStatus
    BY <1>4 DEF ReturnTask, TaskFailed, Running
  <2>3. TypeOK' /\ JsonIsPast' /\ Running'
    BY <1>4 DEF ReturnTask, TypeOK, JsonIsPast, Running
  <2>4. ReturnedTask'
    BY <1>4, <2>1, <2>2 DEF ReturnTask, Decided, TypeOK, Running, ReturnedTask
  <2>5. FailureIsExplained'
    BY <1>4 DEF ReturnTask, Running, FailureIsExplained, Returned
  <2> QED
    BY <2>3, <2>4, <2>5
<1>5. CASE StillProcessing
  BY <1>5 DEF StillProcessing, TypeOK, JsonIsPast, Running, ReturnedTask,
              FailureIsExplained, Returned, Decided, Json, Task, PendingStatus,
              FinishedStatus, SuccessStatus, FailedStatus
<1>6. CASE GetSucceeds
  <2>1. PICK shape \in Shape : jsonTask' = Answer(shape)
    BY <1>6 DEF GetSucceeds
  <2>2. jsonTask' \in Json
    BY <2>1 DEF TypeOK, Json, Answer
  <2>3. jsonTask'.task = task
    BY <2>1 DEF Answer
  <2> QED
    BY <1>6, <2>2, <2>3
    DEF GetSucceeds, TypeOK, JsonIsPast, Running, ReturnedTask, FailureIsExplained,
        Returned
<1>7. CASE GetFailsBeforeStart
  <2>1. broken' = 1 /\ pc' = "done"
    BY <1>7 DEF GetFailsBeforeStart, Break
  <2>2. TypeOK'
    BY <1>7 DEF GetFailsBeforeStart, Break, TypeOK
  <2>3. JsonIsPast'
    BY <1>7 DEF GetFailsBeforeStart, JsonIsPast
  <2>4. Running' /\ ReturnedTask'
    BY <2>1 DEF Running, ReturnedTask
  <2>5. FailureIsExplained'
    BY <1>7 DEF GetFailsBeforeStart, FailureIsExplained
  <2> QED
    BY <2>2, <2>3, <2>4, <2>5
<1>8. CASE GetFails
  <2>1. maxRetryTimes' \in -1..RetryLimit
    BY <1>8 DEF GetFails, Running, TypeOK
  <2>2. \/ maxRetryTimes' < 0 /\ Break
        \/ maxRetryTimes' >= 0 /\ pc' = "map" /\ UNCHANGED broken
    BY <1>8, <2>1 DEF GetFails
  <2>3. TypeOK'
    BY <1>8, <2>1, <2>2 DEF GetFails, Break, TypeOK
  <2>4. JsonIsPast'
    BY <1>8 DEF GetFails, JsonIsPast
  <2>5. Running'
    BY <1>8, <2>2 DEF GetFails, Break, Running
  <2>6. ReturnedTask'
    BY <2>2 DEF Break, ReturnedTask
  <2>7. FailureIsExplained'
    BY <2>2 DEF Break, FailureIsExplained, Returned
  <2> QED
    BY <2>3, <2>4, <2>5, <2>6, <2>7
<1>9. CASE WaitForEnd
  BY <1>9 DEF WaitForEnd, TypeOK, JsonIsPast, Running, ReturnedTask,
              FailureIsExplained, Returned
<1>10. CASE UNCHANGED vars
  BY <1>10 DEF vars, TypeOK, JsonIsPast, Running, ReturnedTask, FailureIsExplained,
               Returned
<1> QED
  BY <1>1, <1>2, <1>3, <1>4, <1>5, <1>6, <1>7, <1>8, <1>9, <1>10
  DEF Next, Poll, Terminated

\* WaitInv holds in every reachable state, whatever the tolerance.
THEOREM WaitInvariant == Spec => []WaitInv
BY WaitInvInit, WaitInvStep, PTL DEF Spec

\* Every field keeps its type; the retry counter never leaves -1..RetryLimit.
THEOREM TypeCorrect == Spec => []TypeOK
<1>1. WaitInv => TypeOK
  BY DEF WaitInv
<1> QED
  BY <1>1, WaitInvariant, PTL

\* A reported success is a success on the BMC (redfish.c:1515-1525).
THEOREM SuccessIsAlwaysReal == Spec => []SuccessIsReal
<1>1. WaitInv => SuccessIsReal
  BY DEF WaitInv, SuccessIsReal, Returned, ReturnedTask, JsonIsPast, IsTaskSuccess,
         SuccessStatus, FinishedStatus
<1> QED
  BY <1>1, WaitInvariant, PTL

\* A reported failure has one of the causes the code names (redfish.c:1489-1534).
THEOREM FailureIsAlwaysExplained == Spec => []FailureIsExplained
<1>1. WaitInv => FailureIsExplained
  BY DEF WaitInv
<1> QED
  BY <1>1, WaitInvariant, PTL

\* No round reads a document the round before it has freed (redfish.c:1538).
THEOREM JsonIsAlwaysLive == Spec => []DecidedOnLiveJson
<1>1. WaitInv => DecidedOnLiveJson
  BY DEF WaitInv, Running, DecidedOnLiveJson
<1> QED
  BY <1>1, WaitInvariant, PTL

\* The wait for the end follows a start the BMC has really made.
THEOREM StartIsAlwaysReal == Spec => StartIsReal
<1>1. WaitInv /\ [Next]_vars =>
        [wait = "start" /\ wait' = "finish" =>
           task.percent = "shown" \/ task.state \in SuccessStatus]_vars
  BY DEF WaitInv, Next, Poll, BmcAdvances, MapFails, ReportFailure, ReturnTask,
         StillProcessing, GetSucceeds, GetFailsBeforeStart, GetFails, WaitForEnd,
         Terminated, vars, ReturnedTask, JsonIsPast, FinishedStatus, SuccessStatus,
         FailedStatus
<1> QED
  BY <1>1, WaitInvariant, PTL DEF Spec, StartIsReal

-----------------------------------------------------------------------------
\* The parts of the measure.
Retries == 3 * (maxRetryTimes + 1)
Document == IF jsonTask.task.state \in PendingStatus THEN 2 ELSE 0
Loop == IF wait = "start" THEN 3 ELSE 0
Place == IF pc = "map" THEN 2 ELSE IF pc = "get" THEN 1 ELSE 0

Parts ==
  /\ StepsLeft = Retries + Document + Loop + Place
  /\ Document \in {0, 2} /\ Loop \in {0, 3} /\ Place \in {0, 1, 2}

LEMMA StepsLeftParts == Parts
BY DEF Parts, StepsLeft, Retries, Document, Loop, Place

LEMMA RetriesType == TypeOK => maxRetryTimes \in Int /\ maxRetryTimes >= -1
<1> SUFFICES ASSUME TypeOK PROVE maxRetryTimes \in Int /\ maxRetryTimes >= -1
  OBVIOUS
<1>1. maxRetryTimes \in -1..RetryLimit
  BY DEF TypeOK
<1> QED
  BY <1>1, RetryLimitAssumption

\* The measure is a number: nothing in it falls below its least value.
LEMMA StepsLeftIsNatural == TypeOK => StepsLeft \in Nat
<1> SUFFICES ASSUME TypeOK PROVE StepsLeft \in Nat
  OBVIOUS
<1>1. Retries \in Nat
  BY RetriesType DEF Retries
<1> QED
  BY <1>1, StepsLeftParts DEF Parts

\* A step of the loops on a task that is over: a fresh document is decided, an
\* old one is replaced, or a retry is used up.
LEMMA PollIsNearer ==
  ASSUME WaitInv, Poll, task.state \notin PendingStatus
  PROVE  StepsLeft' < StepsLeft
<1>1. maxRetryTimes \in Int
  BY RetriesType DEF WaitInv
<1>2. Parts /\ Parts'
  BY StepsLeftParts, PTL
<1>0. Retries \in Int
  BY <1>1 DEF Retries
<1>3. CASE MapFails \/ ReportFailure \/ ReturnTask \/ StillProcessing
  <2>1. Place = 2 /\ Place' \in {0, 1} /\ UNCHANGED <<Retries, Document, Loop>>
    BY <1>3 DEF MapFails, ReportFailure, ReturnTask, StillProcessing, Break,
                Retries, Document, Loop, Place
  <2>2. CASE Place' = 0
    BY <1>0, <1>2, <2>1, <2>2 DEF Parts
  <2>3. CASE Place' = 1
    BY <1>0, <1>2, <2>1, <2>3 DEF Parts
  <2> QED
    BY <2>1, <2>2, <2>3
<1>4. CASE GetSucceeds
  <2>1. jsonTask.task.state \in PendingStatus /\ jsonTask'.task.state \notin PendingStatus
    BY <1>4 DEF WaitInv, Running, GetSucceeds, Answer
  <2>2. /\ Document = 2 /\ Document' = 0 /\ Place = 1 /\ Place' = 2
        /\ UNCHANGED <<Retries, Loop>>
    BY <1>4, <2>1 DEF GetSucceeds, Retries, Document, Loop, Place
  <2> QED
    BY <1>0, <1>2, <2>2 DEF Parts
<1>5. CASE GetFailsBeforeStart
  <2>1. Place = 1 /\ Place' = 0 /\ UNCHANGED <<Retries, Document, Loop>>
    BY <1>5 DEF GetFailsBeforeStart, Break, Retries, Document, Loop, Place
  <2> QED
    BY <1>0, <1>2, <2>1 DEF Parts
<1>6. CASE GetFails
  <2>1. maxRetryTimes' = maxRetryTimes - 1 /\ pc = "get" /\ UNCHANGED <<jsonTask, wait>>
    BY <1>6 DEF GetFails
  <2>2. Place = 1 /\ UNCHANGED <<Document, Loop>>
    BY <2>1 DEF Document, Loop, Place
  <2>3. Retries' = Retries - 3
    BY <1>1, <2>1 DEF Retries
  <2>4. /\ StepsLeft = Retries + Document + Loop + 1
        /\ StepsLeft' = Retries - 3 + Document + Loop + Place'
    BY <1>2, <2>2, <2>3 DEF Parts
  <2>5. Document \in {0, 2} /\ Loop \in {0, 3} /\ Place' \in {0, 1, 2}
    BY <1>2 DEF Parts
  <2>6. CASE Place' = 0
    BY <1>0, <2>4, <2>5, <2>6
  <2>7. CASE Place' = 1
    BY <1>0, <2>4, <2>5, <2>7
  <2>8. CASE Place' = 2
    BY <1>0, <2>4, <2>5, <2>8
  <2> QED
    BY <2>5, <2>6, <2>7, <2>8
<1>7. CASE WaitForEnd
  <2>1. /\ Loop = 3 /\ Loop' = 0 /\ Place = 0 /\ Place' = 2
        /\ UNCHANGED <<Retries, Document>>
    BY <1>7 DEF WaitInv, WaitForEnd, ReturnedTask, Retries, Document, Loop, Place
  <2> QED
    BY <1>0, <1>2, <2>1 DEF Parts
<1> QED
  BY <1>3, <1>4, <1>5, <1>6, <1>7 DEF Poll

\* For every tolerance the wait for a task that is over comes nearer to its end
\* with each of its steps, however the polls go.
THEOREM EndIsAlwaysNearer == Spec => EndIsNearer
<1>1. WaitInv /\ WaitInv' =>
        [Poll /\ task.state \notin PendingStatus => StepsLeft' \in 0..(StepsLeft - 1)]_vars
  <2> SUFFICES ASSUME WaitInv, WaitInv', Poll, task.state \notin PendingStatus
               PROVE  StepsLeft' \in 0..(StepsLeft - 1)
    OBVIOUS
  <2>1. StepsLeft \in Nat
    BY StepsLeftIsNatural DEF WaitInv
  <2>2. (TypeOK => StepsLeft \in Nat)'
    BY StepsLeftIsNatural, PTL
  <2>3. StepsLeft' \in Nat
    BY <2>2 DEF WaitInv
  <2> QED
    BY <2>1, <2>3, PollIsNearer
<1> QED
  BY <1>1, WaitInvariant, PTL DEF Spec, EndIsNearer

-----------------------------------------------------------------------------
\* The polling loops implement TaskVerdict: the first state is an initial state
\* of it and every step is one of its steps or a stutter.  In particular the
\* verdict is given once and never changes.
THEOREM ImplementsVerdict == Spec => VerdictSpec
<1>1. Init => Verdict!Init
  BY DEF Init, Verdict!Init, Returned, SuccessStatus, FailedStatus
<1>2. WaitInv /\ [Next]_vars => [Verdict!Next]_(Verdict!vars)
  <2> SUFFICES ASSUME WaitInv, [Next]_vars PROVE [Verdict!Next]_(Verdict!vars)
    OBVIOUS
  <2> USE DEF Verdict!Next, Verdict!vars
  <2>1. CASE BmcAdvances
    BY <2>1, FinishedIsStable
    DEF BmcAdvances, Verdict!End, Returned, FinishedStatus, SuccessStatus, FailedStatus
  <2>2. CASE pc = "map" /\ ReturnTask /\ wait = "finish"
    BY <2>2 DEF WaitInv, TypeOK, ReturnTask, TaskFailed, IsTaskSuccess, Running,
                JsonIsPast, Verdict!Succeed, Returned, FinishedStatus, SuccessStatus
  <2>3. CASE ReturnTask /\ wait = "start"
    BY <2>3 DEF WaitInv, Running, ReturnTask, Returned
  <2>4. CASE MapFails
    BY <2>4 DEF WaitInv, Running, MapFails, Break, Verdict!Fail, Returned
  <2>5. CASE ReportFailure
    BY <2>5 DEF WaitInv, Running, ReportFailure, Break, Verdict!Fail, Returned
  <2>6. CASE StillProcessing
    BY <2>6 DEF WaitInv, Running, StillProcessing, Returned
  <2>7. CASE GetSucceeds
    BY <2>7 DEF WaitInv, Running, GetSucceeds, Returned
  <2>8. CASE GetFailsBeforeStart
    BY <2>8 DEF WaitInv, Running, GetFailsBeforeStart, Break, Verdict!Fail, Returned
  <2>9. CASE GetFails
    BY <2>9 DEF WaitInv, Running, GetFails, Break, Verdict!Fail, Returned
  <2>10. CASE WaitForEnd
    BY <2>10 DEF WaitInv, WaitForEnd, Returned
  <2>11. CASE UNCHANGED vars
    BY <2>11 DEF vars, Returned
  <2>12. ReturnTask => pc = "map"
    BY DEF ReturnTask
  <2>13. wait \in {"start", "finish"}
    BY DEF WaitInv, TypeOK
  <2> QED
    BY <2>1, <2>2, <2>3, <2>4, <2>5, <2>6, <2>7, <2>8, <2>9, <2>10, <2>11, <2>12, <2>13
    DEF Next, Poll, Terminated
<1> QED
  BY <1>1, <1>2, WaitInvariant, PTL DEF Spec, VerdictSpec, Verdict!Spec
=============================================================================
