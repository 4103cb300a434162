-------------------------- MODULE IpmiUpgradeProofs --------------------------
(* Proofs about IpmiUpgrade, for any limits, tolerances and query times. *)
EXTENDS IpmiUpgrade, TLAPS

-----------------------------------------------------------------------------
\* What a byte means: only a busy or finished BMC is read as 100.
LEMMA ReadHundred ==
  ASSUME bmc \in Bmc, bmc.phase \notin {"idle", "due"},
         bmc.phase = "over" => bmc.progress = 100,
         NEW byte \in Answers, Read(byte) = 100
  PROVE  bmc.progress = 100
  BY DEF Bmc, Answers, Read, NotStarted, Percent

\* A byte of the BMC is one of Byte when it is read.
LEMMA ReadIsByte ==
  ASSUME bmc \in Bmc, NEW byte \in Answers
  PROVE  Read(byte) \in Byte
  BY DEF Bmc, Answers, Read, NotStarted, Percent, Byte

\* The invariant holds before the start command.
LEMMA IpmiInvInit == Init => IpmiInv
  <1> SUFFICES ASSUME Init PROVE IpmiInv
    OBVIOUS
  <1> USE LimitsAssumption DEF Init
  <1>1. TypeOK
    BY LatenessAssumption DEF TypeOK, Byte, Percent, NotReturned, Outcome, Bmc
  <1>2. BmcInv /\ EndInv /\ TimeInv /\ SuccessIsActivated
    BY DEF BmcInv, EndInv, TimeInv, SuccessIsActivated
  <1> QED
    BY <1>1, <1>2 DEF IpmiInv

\* Every step keeps the types; the zeros are bounded by the queries.
LEMMA TypeOKStep ==
  TypeOK /\ TimeInv /\ [Next]_vars => TypeOK'
  <1> SUFFICES ASSUME TypeOK /\ TimeInv, [Next]_vars PROVE TypeOK'
    OBVIOUS
  <1> USE LimitsAssumption DEF TypeOK, Settings, loop, End, Outcome, Bmc, NotReturned
  <1>1. CASE StartUpgrade
    BY <1>1 DEF StartUpgrade, TakesStart, Begun, Percent
  <1>2. CASE TimeExceeds
    BY <1>2 DEF TimeExceeds, GiveUp
  <1>3. CASE QueryFails
    BY <1>3 DEF QueryFails, Asks, Slept, GiveUp
  <1>4. CASE QuerySucceeds
    BY <1>4, ReadIsByte DEF QuerySucceeds, Asks, Slept
  <1>5. CASE QueryCrashes
    BY <1>5 DEF QueryCrashes, Asks, Slept
  <1>6. CASE Continue
    BY <1>6 DEF Continue
  <1>7. CASE Reached
    BY <1>7 DEF Reached
  <1>8. CASE Zero
    BY <1>8 DEF Zero, TimeInv
  <1>9. CASE Finish
    BY <1>9 DEF Finish, Verdict
  <1>10. CASE Begins
    BY <1>10 DEF Begins, Begun, Percent
  <1>11. CASE Advances
    BY <1>11 DEF Advances
  <1>12. CASE Ends
    BY <1>12 DEF Ends, Percent
  <1>13. CASE UNCHANGED vars
    BY <1>13 DEF vars
  <1> QED
    BY <1>1, <1>2, <1>3, <1>4, <1>5, <1>6, <1>7, <1>8, <1>9,
      <1>10, <1>11, <1>12, <1>13 DEF Next, Program, Terminated

\* The BMC and the start command.
LEMMA BmcInvStep ==
  TypeOK /\ BmcInv /\ [Next]_vars => BmcInv'
  <1> SUFFICES ASSUME TypeOK /\ BmcInv, [Next]_vars PROVE BmcInv'
    OBVIOUS
  <1> USE LimitsAssumption DEF TypeOK, BmcInv, Settings, loop, End, Outcome, Bmc, Percent
  <1>1. CASE StartUpgrade
    BY <1>1 DEF StartUpgrade, TakesStart, Begun
  <1>2. CASE TimeExceeds
    BY <1>2 DEF TimeExceeds, GiveUp
  <1>3. CASE QueryFails
    BY <1>3 DEF QueryFails, Asks, Slept, GiveUp
  <1>4. CASE QuerySucceeds
    BY <1>4 DEF QuerySucceeds, Asks, Slept
  <1>5. CASE QueryCrashes
    BY <1>5 DEF QueryCrashes, Asks, Slept
  <1>6. CASE Continue
    BY <1>6 DEF Continue
  <1>7. CASE Reached
    BY <1>7 DEF Reached
  <1>8. CASE Zero
    BY <1>8 DEF Zero
  <1>9. CASE Finish
    BY <1>9 DEF Finish, Verdict
  <1>10. CASE Begins
    BY <1>10 DEF Begins, Begun
  <1>11. CASE Advances
    BY <1>11 DEF Advances
  <1>12. CASE Ends
    BY <1>12 DEF Ends
  <1>13. CASE UNCHANGED vars
    BY <1>13 DEF vars
  <1> QED
    BY <1>1, <1>2, <1>3, <1>4, <1>5, <1>6, <1>7, <1>8, <1>9,
      <1>10, <1>11, <1>12, <1>13 DEF Next, Program, Terminated

\* What the end of the loop rests on.
LEMMA EndInvStep ==
  TypeOK /\ BmcInv /\ EndInv /\ [Next]_vars => EndInv'
  <1> SUFFICES ASSUME TypeOK /\ BmcInv /\ EndInv, [Next]_vars PROVE EndInv'
    OBVIOUS
  <1> USE LimitsAssumption DEF TypeOK, BmcInv, EndInv, Settings, loop, End, Outcome, Bmc, NotReturned
  <1>1. CASE StartUpgrade
    BY <1>1 DEF StartUpgrade, TakesStart, Begun
  <1>2. CASE TimeExceeds
    BY <1>2 DEF TimeExceeds, GiveUp
  <1>3. CASE QueryFails
    BY <1>3 DEF QueryFails, Asks, Slept, GiveUp
  <1>4. CASE QuerySucceeds
    <2>1. bmc.phase # "idle" /\ (bmc.phase = "due" => late = 1)
      BY <1>4 DEF QuerySucceeds, Asks
    <2>2. parsed' = 100 /\ late = 0 => bmc.progress = 100
      BY <1>4, <2>1, ReadHundred DEF QuerySucceeds
    <2> QED
      BY <1>4, <2>2 DEF QuerySucceeds, Asks
  <1>5. CASE QueryCrashes
    BY <1>5 DEF QueryCrashes, Asks, Slept
  <1>6. CASE Continue
    BY <1>6 DEF Continue
  <1>7. CASE Reached
    BY <1>7 DEF Reached
  <1>8. CASE Zero
    BY <1>8 DEF Zero
  <1>9. CASE Finish
    BY <1>9 DEF Finish, Verdict
  <1>10. CASE Begins
    BY <1>10 DEF Begins, Begun
  <1>11. CASE Advances
    BY <1>11 DEF Advances, Percent
  <1>12. CASE Ends
    BY <1>12 DEF Ends
  <1>13. CASE UNCHANGED vars
    BY <1>13 DEF vars
  <1> QED
    BY <1>1, <1>2, <1>3, <1>4, <1>5, <1>6, <1>7, <1>8, <1>9,
      <1>10, <1>11, <1>12, <1>13 DEF Next, Program, Terminated

\* Queries, zeros and time.
LEMMA TimeInvStep ==
  TypeOK /\ EndInv /\ TimeInv /\ [Next]_vars => TimeInv'
  <1> SUFFICES ASSUME TypeOK /\ EndInv /\ TimeInv, [Next]_vars PROVE TimeInv'
    OBVIOUS
  <1> USE LimitsAssumption DEF TypeOK, EndInv, TimeInv, Settings, loop, End, Outcome, Patience
  <1>1. CASE StartUpgrade
    BY <1>1 DEF StartUpgrade, TakesStart, Begun
  <1>2. CASE TimeExceeds
    BY <1>2 DEF TimeExceeds, GiveUp
  <1>3. CASE QueryFails
    BY <1>3 DEF QueryFails, Asks, Slept, GiveUp
  <1>4. CASE QuerySucceeds
    BY <1>4 DEF QuerySucceeds, Asks, Slept
  <1>5. CASE QueryCrashes
    BY <1>5 DEF QueryCrashes, Asks, Slept
  <1>6. CASE Continue
    BY <1>6 DEF Continue
  <1>7. CASE Reached
    BY <1>7 DEF Reached
  <1>8. CASE Zero
    BY <1>8 DEF Zero
  <1>9. CASE Finish
    BY <1>9 DEF Finish, Verdict
  <1>10. CASE Begins
    BY <1>10 DEF Begins, Begun
  <1>11. CASE Advances
    BY <1>11 DEF Advances
  <1>12. CASE Ends
    BY <1>12 DEF Ends
  <1>13. CASE UNCHANGED vars
    BY <1>13 DEF vars
  <1> QED
    BY <1>1, <1>2, <1>3, <1>4, <1>5, <1>6, <1>7, <1>8, <1>9,
      <1>10, <1>11, <1>12, <1>13 DEF Next, Program, Terminated

\* A success in Auto mode is the success of the finish command.
LEMMA ActivatedStep ==
  TypeOK /\ SuccessIsActivated /\ [Next]_vars => SuccessIsActivated'
  <1> SUFFICES ASSUME TypeOK /\ SuccessIsActivated, [Next]_vars PROVE SuccessIsActivated'
    OBVIOUS
  <1> USE LimitsAssumption DEF TypeOK, SuccessIsActivated, Settings, loop, End, Outcome
  <1>1. CASE StartUpgrade
    BY <1>1 DEF StartUpgrade, TakesStart, Begun
  <1>2. CASE TimeExceeds
    BY <1>2 DEF TimeExceeds, GiveUp
  <1>3. CASE QueryFails
    BY <1>3 DEF QueryFails, Asks, Slept, GiveUp
  <1>4. CASE QuerySucceeds
    BY <1>4 DEF QuerySucceeds, Asks, Slept
  <1>5. CASE QueryCrashes
    BY <1>5 DEF QueryCrashes, Asks, Slept
  <1>6. CASE Continue
    BY <1>6 DEF Continue
  <1>7. CASE Reached
    BY <1>7 DEF Reached
  <1>8. CASE Zero
    BY <1>8 DEF Zero
  <1>9. CASE Finish
    BY <1>9 DEF Finish, Verdict
  <1>10. CASE Begins
    BY <1>10 DEF Begins, Begun
  <1>11. CASE Advances
    BY <1>11 DEF Advances
  <1>12. CASE Ends
    BY <1>12 DEF Ends
  <1>13. CASE UNCHANGED vars
    BY <1>13 DEF vars
  <1> QED
    BY <1>1, <1>2, <1>3, <1>4, <1>5, <1>6, <1>7, <1>8, <1>9,
      <1>10, <1>11, <1>12, <1>13 DEF Next, Program, Terminated

-----------------------------------------------------------------------------
\* The invariant of the wait holds in every state.
THEOREM IpmiInvariant == Spec => []IpmiInv
  <1>1. IpmiInv /\ [Next]_vars => IpmiInv'
    BY TypeOKStep, BmcInvStep, EndInvStep, TimeInvStep, ActivatedStep DEF IpmiInv
  <1> QED
    BY IpmiInvInit, <1>1, PTL DEF Spec

\* What the invariant says of a success.
LEMMA SuccessHasFinished == IpmiInv => SuccessMeansFinished
  BY TypesAssumption DEF IpmiInv, TypeOK, BmcInv, EndInv, SuccessMeansFinished, Outcome

\* Unless the BMC starts late, no upgrade but a CPLD's is taken for finished
\* before the BMC is at 100.
THEOREM SuccessAlwaysFinished == Spec => []SuccessMeansFinished
  BY SuccessHasFinished, IpmiInvariant, PTL

\* A wait is given up for its length or for silence only after that long.
THEOREM AlwaysGivenUpLate == Spec => []GivenUpLate
  <1>1. IpmiInv => GivenUpLate
    BY LimitsAssumption DEF IpmiInv, TypeOK, TimeInv, GivenUpLate
  <1> QED
    BY <1>1, IpmiInvariant, PTL

\* Success in Auto mode means that the BMC was told to activate the image.
THEOREM SuccessAlwaysActivated == Spec => []SuccessIsActivated
  <1>1. IpmiInv => SuccessIsActivated
    BY DEF IpmiInv
  <1> QED
    BY <1>1, IpmiInvariant, PTL

\* The measure of the loop is a number while the counters are in their ranges.
LEMMA StepsLeftIsNatural == TypeOK => StepsLeft \in Nat
  BY LimitsAssumption DEF TypeOK, StepsLeft

\* No way round the loop leaves the measure as it was: a query counts before
\* its byte is judged, and judging leads back to a query or out of the loop.
LEMMA StepUsesOneUp ==
  ASSUME TypeOK, TypeOK', Program
  PROVE  StepsLeft' < StepsLeft
  <1> USE LimitsAssumption DEF TypeOK, StepsLeft, Settings, loop, End, Outcome
  <1>1. CASE StartUpgrade
    BY <1>1 DEF StartUpgrade
  <1>2. CASE TimeExceeds
    BY <1>2 DEF TimeExceeds, GiveUp
  <1>3. CASE QueryFails
    BY <1>3 DEF QueryFails, Asks, GiveUp
  <1>4. CASE QuerySucceeds
    BY <1>4 DEF QuerySucceeds, Asks
  <1>5. CASE QueryCrashes
    BY <1>5 DEF QueryCrashes, Asks
  <1>6. CASE Continue
    BY <1>6 DEF Continue
  <1>7. CASE Reached
    BY <1>7 DEF Reached
  <1>8. CASE Zero
    BY <1>8 DEF Zero
  <1>9. CASE Finish
    BY <1>9 DEF Finish, Verdict
  <1> QED
    BY <1>1, <1>2, <1>3, <1>4, <1>5, <1>6, <1>7, <1>8, <1>9 DEF Program

\* The wait cannot go round for ever: each of its steps uses up one of the
\* 2 * QueryLimit + 4 it has, for any limits, tolerances and answers.
THEOREM StepsAlwaysRunOut == Spec => StepsRunOut
  <1>1. IpmiInv /\ IpmiInv' => [Program => StepsLeft' \in 0..(StepsLeft - 1)]_vars
    <2> SUFFICES ASSUME IpmiInv, IpmiInv', Program
                 PROVE  StepsLeft' \in 0..(StepsLeft - 1)
      OBVIOUS
    <2>1. TypeOK /\ TypeOK'
      BY DEF IpmiInv
    <2>2. StepsLeft \in Nat /\ StepsLeft' \in Nat
      <3>1. StepsLeft \in Nat
        BY <2>1, StepsLeftIsNatural
      <3>2. (TypeOK => StepsLeft \in Nat)'
        BY StepsLeftIsNatural, PTL
      <3> QED
        BY <2>1, <3>1, <3>2
    <2>3. StepsLeft' < StepsLeft
      BY <2>1, StepUsesOneUp
    <2> QED
      BY <2>2, <2>3
  <1> QED
    BY <1>1, IpmiInvariant, PTL DEF StepsRunOut, Spec

-----------------------------------------------------------------------------
\* At the start nothing is flashed and nothing is told.
LEMMA WaitStarts == Init => Wait!Init
  BY DEF Init, Wait!Init, Standing, Told, Outcome

\* What the BMC does moves the upgrade to its end, once, and tells nothing.
LEMMA BmcStepWaits ==
  ASSUME TypeOK, BmcInv, Begins \/ Advances \/ Ends
  PROVE  [Wait!Next]_(Wait!vars)
  <1> USE DEF TypeOK, BmcInv, Bmc, Percent, Settings, loop, Wait!vars, Standing, Told, Trusted
  <1>1. UNCHANGED Told
    BY DEF Begins, Advances, Ends
  <1>2. CASE Begins
    BY <1>1, <1>2 DEF Begins, Begun
  <1>3. CASE Advances
    BY <1>1, <1>3 DEF Advances, Wait!Next, Wait!End
  <1>4. CASE Ends
    BY <1>1, <1>4 DEF Ends, Wait!Next, Wait!End
  <1> QED
    BY <1>2, <1>3, <1>4

\* The program tells its verdict once, and success only at progress 100.
LEMMA ProgramStepWaits ==
  ASSUME IpmiInv, IpmiInv', Program
  PROVE  [Wait!Next]_(Wait!vars)
  <1>1. UNCHANGED Standing
    <2> USE DEF IpmiInv, TypeOK, BmcInv, Bmc, loop, Settings, Standing
    <2>1. CASE StartUpgrade
      BY <2>1 DEF StartUpgrade, TakesStart, Begun
    <2>2. CASE ~StartUpgrade
      BY <2>2 DEF Program, TimeExceeds, QueryFails, QuerySucceeds, QueryCrashes,
        Continue, Reached, Zero, Finish
    <2> QED
      BY <2>1, <2>2
  <1>2. UNCHANGED Trusted
    BY DEF Program, StartUpgrade, TimeExceeds, QueryFails, QuerySucceeds, QueryCrashes,
      Continue, Reached, Zero, Finish, Settings, Trusted
  <1>3. pc \notin Outcome
    BY DEF Program, StartUpgrade, TimeExceeds, QueryFails, QuerySucceeds, QueryCrashes,
      Continue, Reached, Zero, Finish, Asks, Outcome
  <1>4. CASE ~Trusted \/ pc' \notin Outcome
    BY <1>1, <1>2, <1>3, <1>4 DEF Told, Outcome, Wait!vars
  <1>5. CASE Trusted /\ pc' \in Outcome \ {"success"}
    BY <1>1, <1>2, <1>3, <1>5 DEF Told, Outcome, Wait!Next, Wait!Fail
  <1>6. CASE Trusted /\ pc' = "success"
    <2>1. SuccessMeansFinished'
      BY SuccessHasFinished, PTL
    <2>2. (bmc.progress = 100)'
      BY <1>2, <1>6, <2>1 DEF SuccessMeansFinished, Trusted
    <2>3. Standing = "success"
      BY <1>1, <2>2 DEF Standing
    <2> QED
      BY <1>1, <1>2, <1>3, <1>6, <2>3 DEF Told, Outcome, Wait!Next, Wait!Succeed
  <1> QED
    BY <1>4, <1>5, <1>6 DEF Outcome

\* The wait over IPMI implements TaskVerdict for every BMC that starts with the
\* command, as the wait for a Redfish task does.
THEOREM WaitKeepsVerdict == Spec => KeepsVerdict
  <1>1. IpmiInv /\ IpmiInv' /\ [Next]_vars => [Wait!Next]_(Wait!vars)
    <2> SUFFICES ASSUME IpmiInv, IpmiInv', [Next]_vars PROVE [Wait!Next]_(Wait!vars)
      OBVIOUS
    <2>1. CASE Program
      BY <2>1, ProgramStepWaits
    <2>2. CASE Begins \/ Advances \/ Ends
      BY <2>2, BmcStepWaits DEF IpmiInv
    <2>3. CASE UNCHANGED vars
      BY <2>3 DEF vars, Wait!vars, Standing, Told, Trusted
    <2> QED
      BY <2>1, <2>2, <2>3 DEF Next, Terminated
  <1> QED
    BY WaitStarts, <1>1, IpmiInvariant, PTL DEF KeepsVerdict, Wait!Spec, Spec

\* The counters of the loop stay within one of the limit, its times in order.
THEOREM IpmiTypeCorrect == Spec => []TypeOK
  <1>1. IpmiInv => TypeOK
    BY DEF IpmiInv
  <1> QED
    BY <1>1, IpmiInvariant, PTL
=============================================================================
