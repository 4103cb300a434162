----------------------------- MODULE IpmiUpgrade -----------------------------
(***************************************************************************)
(* The firmware upgrade of a 2.58 BMC over raw IPMI commands               *)
(* (UpgradeFirmwareByIpmi and WaitUtilIpmiUpgradeTaskFinish in             *)
(* update_outband_firmware.c).  One command starts the upgrade; then one   *)
(* query after the other asks for a byte with the progress, at least five  *)
(* seconds apart, until the loop takes a byte, a row of zeros, a silence   *)
(* or the number of queries for the end.  A last command tells the BMC to  *)
(* activate the image.  The BMC runs beside the loop.                      *)
(*                                                                         *)
(* Time is counted in units of five seconds.  The output of ipmitool is    *)
(* abstracted to the byte behind "db 07 00", "short" when there is none,   *)
(* or "refused" when the tool fails or prints something else.              *)
(***************************************************************************)
EXTENDS Integers

CONSTANTS
  Types,        \* the values of --firmware-type considered
  QueryLimit,   \* maxQueryTimes, 360 in the code
  Tolerance,    \* maxContinuousFailTimeLong in units: 120 in the code
  CpldTolerance,\* the same for CPLD: 60 in the code
  ZeroLimit,    \* zeros in a row that end the wait, 5 in the code
  Slowest,      \* units one query may take at most
  Lateness      \* contains 1: BMCs that answer queries before they start

ASSUME TypesAssumption == Types \subseteq {"BMC", "BIOS", "CPLD"}
ASSUME LimitsAssumption ==
  /\ QueryLimit \in Nat /\ ZeroLimit \in Nat \ {0} /\ Slowest \in Nat
  /\ Tolerance \in Nat \ {0} /\ CpldTolerance \in Nat \ {0}
ASSUME LatenessAssumption == Lateness \subseteq {0, 1}

VARIABLES
  type,       \* firmwareType
  auto,       \* activateMode is Auto
  late,       \* the BMC may start a while after the command
  path,       \* the program can read its own path, from which it runs ipmitool
  pc,         \* start, query, judge, finish or the outcome
  parsed,     \* parsedProgress
  queries,    \* queryTimes
  zeros,      \* continuousZeroProgressTimes
  now,        \* time since the start of the wait
  last,       \* lastSuccessfulQueryTime
  reason,     \* why the wait ended
  finished,   \* finish commands the BMC has taken
  bmc         \* the upgrade on the BMC: its phase and its progress in percent

loop == <<parsed, queries, zeros, now, last>>
vars == <<type, auto, path, late, pc, loop, reason, finished, bmc>>

-----------------------------------------------------------------------------
NotStarted == 228      \* the byte e4
NotReturned == -2      \* IPMI_PROGRESS_NOT_RETURNED

Percent == {0, 50, 100}
Byte    == Percent \cup {p + 128 : p \in Percent}
Outcome == {"success", "failure", "crashed"}

Bmc == [phase : {"idle", "due", "busy", "over", "stuck"}, progress : Percent]

TypeOK ==
  /\ type \in Types /\ auto \in {0, 1} /\ path \in {0, 1} /\ late \in Lateness
  /\ pc \in {"start", "query", "judge", "finish"} \cup Outcome
  /\ parsed \in Byte \cup {NotReturned}
  /\ queries \in 0..(QueryLimit + 1)
  /\ zeros \in 0..(QueryLimit + 1)
  /\ now \in Nat /\ last \in 0..now
  /\ reason \in {"none", "refused", "exceeded", "silent", "zeros", "reached", "activation"}
  /\ finished \in {0, 1}
  /\ bmc \in Bmc

Patience == IF type = "CPLD" THEN CpldTolerance ELSE Tolerance

Init ==
  /\ type \in Types /\ auto \in {0, 1} /\ path \in {0, 1} /\ late \in Lateness
  /\ pc = "start" /\ parsed = NotReturned
  /\ queries = 0 /\ zeros = 0 /\ now = 0 /\ last = 0
  /\ reason = "none" /\ finished = 0
  /\ bmc = [phase |-> "idle", progress |-> 0]

End(outcome, why) == pc' = outcome /\ reason' = why

-----------------------------------------------------------------------------
(* The BMC. *)
Settings == <<type, auto, path, late>>

Begun == bmc' = [phase |-> "busy", progress |-> 0]

\* The start command is taken; the upgrade begins at once or a while later.
TakesStart == Begun \/ (late = 1 /\ bmc' = [bmc EXCEPT !.phase = "due"])

Begins ==
  /\ bmc.phase = "due" /\ Begun
  /\ UNCHANGED <<Settings, pc, loop, reason, finished>>

Advances ==
  /\ bmc.phase = "busy"
  /\ \E p \in Percent : p > bmc.progress /\ bmc' = [bmc EXCEPT !.progress = p]
  /\ UNCHANGED <<Settings, pc, loop, reason, finished>>

Ends ==
  /\ bmc.phase = "busy"
  /\ \/ bmc.progress = 100 /\ bmc' = [bmc EXCEPT !.phase = "over"]
     \/ bmc.progress < 100 /\ bmc' = [phase |-> "stuck", progress |-> 0]
  /\ UNCHANGED <<Settings, pc, loop, reason, finished>>

\* e4 is the answer before and after; a busy BMC may add 128 to the progress;
\* a CPLD that is over answers 0.
Answers ==
  CASE bmc.phase \in {"idle", "due"} -> {NotStarted}
    [] bmc.phase = "over" -> IF type = "CPLD" THEN {NotStarted, 0} ELSE {NotStarted}
    [] OTHER -> {bmc.progress, bmc.progress + 128}

-----------------------------------------------------------------------------
(* The program. *)

\* Without its path UtoolIPMIExecRawCommand returns no output and no failure,
\* which is taken for a start.
StartUpgrade ==
  /\ pc = "start"
  /\ \/ path = 1 /\ TakesStart /\ pc' = "query" /\ UNCHANGED reason
     \/ path = 0 /\ pc' = "query" /\ UNCHANGED <<reason, bmc>>
     \/ path = 1 /\ End("failure", "refused") /\ (TakesStart \/ UNCHANGED bmc)
  /\ UNCHANGED <<Settings, loop, finished>>

\* UtoolBuildOutputResult is given a text for the JSON it expects: undefined.
GiveUp(why) == End("failure", why) \/ End("crashed", why)

TimeExceeds ==
  /\ pc = "query"
  /\ queries > QueryLimit
  /\ GiveUp("exceeded")
  /\ UNCHANGED <<Settings, loop, finished, bmc>>

\* What if: the loop did not sleep between its queries.
NoSleep == 0

Slept == IF queries = 0 THEN 0 ELSE 1       \* sleep(5)

\* What if: the limit were looked at after the next query.
AsksOnceMore ==
  /\ pc = "query"
  /\ queries <= QueryLimit + 1
  /\ queries' = queries + 1
  /\ \E t \in 0..Slowest : now' = now + Slept + t

Asks ==
  /\ pc = "query"
  /\ queries <= QueryLimit
  /\ queries' = queries + 1
  /\ \E t \in 0..Slowest : now' = now + Slept + t

\* The table of GetIpmiError matches 80 to 88 and 94 anywhere in the output.
ErrorMapped(byte) == byte \in (128..136) \cup {148}

\* ipmitool fails, prints something else, or prints an error of the table.
QueryFails ==
  /\ Asks /\ path = 1
  /\ IF now' - last < Patience
     THEN UNCHANGED <<pc, reason>>
     ELSE GiveUp("silent")
  /\ UNCHANGED <<Settings, parsed, zeros, last, finished, bmc>>

\* strtol reads e4 like any other byte: the comparison with "e4" is one of
\* pointers and never equal, so e4 is read as 228 - 128 = 100.
Read(byte) == IF byte >= 128 THEN byte - 128 ELSE byte

\* What if: a query were not counted when it brings no byte.
QuerySucceedsUncounted ==
  /\ Asks \/ (pc = "query" /\ queries <= QueryLimit /\ UNCHANGED <<queries, now>>)
  /\ path = 1
  /\ last' = now'
  /\ IF queries' = queries
     THEN parsed' = NotReturned
     ELSE \E byte \in Answers : ~ErrorMapped(byte) /\ parsed' = Read(byte)
  /\ pc' = "judge"
  /\ UNCHANGED <<Settings, zeros, reason, finished, bmc>>

QuerySucceeds ==
  /\ Asks /\ path = 1
  /\ last' = now'
  /\ \/ \E byte \in Answers : ~ErrorMapped(byte) /\ parsed' = Read(byte)
     \/ parsed' = NotReturned
  /\ pc' = "judge"
  /\ UNCHANGED <<Settings, zeros, reason, finished, bmc>>

\* UtoolStringSplit of no output.
QueryCrashes ==
  /\ Asks /\ path = 0
  /\ End("crashed", "refused")
  /\ UNCHANGED <<Settings, parsed, zeros, last, finished, bmc>>

\* What the loop makes of a byte.
Continue ==
  /\ pc = "judge"
  /\ parsed \notin {0, 100}
  /\ pc' = "query"
  /\ zeros' = IF parsed = NotReturned THEN zeros ELSE 0
  /\ UNCHANGED <<Settings, parsed, queries, now, last, reason, finished, bmc>>

Reached ==
  /\ pc = "judge" /\ parsed = 100
  /\ pc' = "finish" /\ reason' = "reached"
  /\ UNCHANGED <<Settings, loop, finished, bmc>>

\* What if: a BIOS ended on zeros like a CPLD.
ZeroOfEveryType ==
  /\ pc = "judge" /\ parsed = 0
  /\ zeros' = zeros + 1
  /\ IF zeros' >= ZeroLimit
     THEN pc' = "finish" /\ reason' = "zeros"
     ELSE pc' = "query" /\ UNCHANGED reason
  /\ UNCHANGED <<Settings, parsed, queries, now, last, finished, bmc>>

\* Only BMC and CPLD end on zeros; BIOS goes on counting.
Zero ==
  /\ pc = "judge" /\ parsed = 0
  /\ zeros' = zeros + 1
  /\ IF zeros' >= ZeroLimit /\ type # "BIOS"
     THEN pc' = "finish" /\ reason' = "zeros"
     ELSE pc' = "query" /\ UNCHANGED reason
  /\ UNCHANGED <<Settings, parsed, queries, now, last, finished, bmc>>

\* What if: zeros were the success of every type.
ZerosAreSuccess == "success"

\* ExecIpmiUpgradeFinishedCmdIfRequired, then the verdict: for zeros a failure
\* of a BMC and the success of a CPLD.  broken is left by a refused command,
\* which the CPLD branch does not look at but the caller does.
Verdict == IF reason = "zeros" /\ type = "BMC" THEN "failure" ELSE "success"

\* What if: the result of the finish command were not looked at.
FinishUnchecked ==
  /\ pc = "finish"
  /\ pc' = Verdict
  /\ finished' \in {0, auto}
  /\ UNCHANGED <<Settings, loop, reason, bmc>>

Finish ==
  /\ pc = "finish"
  /\ \/ pc' = Verdict /\ finished' = auto /\ UNCHANGED reason
     \/ auto = 1 /\ End("failure", "activation") /\ UNCHANGED finished
  /\ UNCHANGED <<Settings, loop, bmc>>

-----------------------------------------------------------------------------
Program ==
  \/ StartUpgrade \/ TimeExceeds
  \/ QueryFails \/ QuerySucceeds \/ QueryCrashes
  \/ Continue \/ Reached \/ Zero \/ Finish

Terminated == pc \in Outcome /\ UNCHANGED vars

Next == Program \/ Begins \/ Advances \/ Ends \/ Terminated

Spec == Init /\ [][Next]_vars /\ WF_vars(Program)

-----------------------------------------------------------------------------
(* The inductive invariant. *)

\* How the BMC stands to the start command.
BmcInv ==
  /\ path = 0 => pc \in {"start", "query", "crashed"}
  /\ path = 0 /\ pc # "crashed" => queries = 0
  /\ pc = "start" => bmc.phase = "idle"
  /\ bmc.phase = "due" => late = 1
  /\ path = 1 /\ pc \in {"query", "judge", "finish", "success"} => bmc.phase # "idle"
  /\ bmc.phase = "over" => bmc.progress = 100
  /\ bmc.phase \in {"idle", "due", "stuck"} => bmc.progress = 0

\* What a byte read as 100, and the end of the loop, rest on.
EndInv ==
  /\ pc = "judge" /\ parsed = 100 /\ late = 0 => bmc.progress = 100
  /\ pc \in {"start", "query", "judge"} => reason = "none"
  /\ pc \in {"finish", "success"} => reason \in {"reached", "zeros"}
  /\ reason = "reached" /\ late = 0 => bmc.progress = 100
  /\ reason = "zeros" => type # "BIOS" /\ zeros >= ZeroLimit
  /\ reason = "zeros" /\ type = "BMC" => pc # "success"

\* One zero per query at most, and one sleep between two queries.
TimeInv ==
  /\ zeros <= queries
  /\ pc = "judge" => zeros < queries
  /\ queries <= now + 1
  /\ reason = "exceeded" => queries = QueryLimit + 1
  /\ reason = "silent" => now >= Patience

\* Success is reported on an image the BMC has flashed; a CPLD may also have
\* answered ZeroLimit zeros.  Said of a BMC that starts with the command.
SuccessMeansFinished ==
  pc = "success" /\ late = 0 =>
    bmc.progress = 100 \/ (type = "CPLD" /\ zeros >= ZeroLimit)

\* A success in Auto mode has told the BMC to activate the image: a refused
\* finish command never passes as success, in none of the three branches.
SuccessIsActivated == pc = "success" /\ auto = 1 => finished = 1

\* A wait that runs out of queries has lasted QueryLimit times five seconds,
\* one that runs into silence Patience: a BMC is not given up any sooner.
GivenUpLate ==
  /\ reason = "exceeded" => now >= QueryLimit
  /\ reason = "silent" => now >= Patience

IpmiInv == TypeOK /\ BmcInv /\ EndInv /\ TimeInv /\ SuccessIsActivated

\* Whatever the BMC answers, or if it answers nothing, the wait ends.
EventuallyDone == <>(pc \in Outcome)

\* The steps the program may still take: a query and what is made of its byte
\* for each query left, and the way to the outcome.
StepsLeft ==
  2 * (QueryLimit + 1 - queries) +
    CASE pc \in {"start", "judge"}  -> 2
      [] pc \in {"query", "finish"} -> 1
      [] OTHER -> 0

\* Each step of the loop uses one of them up, whichever of its ways round it
\* takes: the wait is over after 2 * QueryLimit + 4 steps at most.
StepsRunOut == [][Program => StepsLeft' \in 0..(StepsLeft - 1)]_vars

\* What the caller is told of an upgrade.  A BMC that starts late and a CPLD
\* that answers zeros are told as successes whatever becomes of them.
Trusted == late = 0 /\ type # "CPLD"

Told ==
  IF ~Trusted \/ pc \notin Outcome THEN "none"
  ELSE IF pc = "success" THEN "success" ELSE "failure"

\* How the upgrade stands on the BMC.
Standing ==
  IF bmc.progress = 100 THEN "success"
  ELSE IF bmc.phase = "stuck" THEN "failure" ELSE "underway"

\* The wait over IPMI promises what the wait for a Redfish task does: one
\* verdict, and success only of an upgrade that has succeeded.
Wait == INSTANCE TaskVerdict WITH truth <- Standing, verdict <- Told

KeepsVerdict == Wait!Spec

\* "15s内无法完成，此时认为没有开始升级" (line 1127: it cannot be over within 15 s,
\* so take the upgrade for not started): e4 is read as 100 at once.
SuccessMeansStarted ==
  pc = "success" /\ type \in {"BMC", "BIOS"} => bmc.phase # "due"
=============================================================================
