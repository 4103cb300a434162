--------------------------- MODULE RequestsProofs ---------------------------
(***************************************************************************)
(* What the request layer guarantees whatever the commands are made of:    *)
(* the types, that success is earned, that a failure is explained, and     *)
(* that a local file is kept.  The invariant says how far the answers      *)
(* reach in each phase and what the answers heard so far mean.             *)
(***************************************************************************)
EXTENDS Requests, CommandPlans, FiniteSetTheorems, TLAPS

Connects == {"connect", "connect2"}

\* How far a handler is: one answer for each step that was found good, and one
\* more for the step it left by.
PhaseInv ==
  /\ phase \in {"step", "tagged", "untagged", "sftp", "crashed"} =>
       Len(heard) = at /\ code = "OK" /\ desc # "success"
  /\ phase \in {"tagged", "untagged"} => at < Len(plan) /\ Here.do = "patch"
  /\ phase = "sftp" => at < Len(plan) /\ Here.do = "upload"
  /\ phase = "over" =>
       \/ at = Len(plan) /\ Len(heard) = at /\ code = "OK" /\ desc = "success"
       \/ at < Len(plan) /\ Len(heard) = at + 1 /\ ~(code = "OK" /\ desc = "success")

\* The steps found good were done, or are a blind spot.
HeardInv == \A i \in 1..at : heard[i] = "done" \/ BlindSpot(i)

\* Without the OEM name no connection was made.
OemInv == oemName = "NULL" => \A j \in 1..at : plan[j].do \in Connects => heard[j] # "done"

\* A wait that was found good had its task, which nothing starts again.
WaitedInv == \A i \in 1..at : plan[i].do = "wait" => task = "success" /\ heard[i - 1] = "done"

\* A task was started by the request before the wait.
TaskInv ==
  task # "none" /\ phase # "crashed" =>
    \E i \in 2..Len(plan) : Waits(plan[i]) /\ i - 1 <= Len(heard) /\ heard[i - 1] \in Effective

ReqInv == TypeOK /\ PhaseInv /\ HeardInv /\ OemInv /\ WaitedInv /\ TaskInv /\ OldFileKept

-----------------------------------------------------------------------------
\* The three ways of a step.

BlindHere(a) ==
  \/ Here.do = "connect" /\ a = "refused"
  \/ Here.oem = "payload" /\ a = "hollow" /\ oemName = "NULL"
  \/ Here.do \in {"get", "post", "delete", "patch"} /\ a = "bare"
  \/ Here.of > 0 /\ a = "passed" /\ heard[Here.of] \in {"bare", "passed"}
  \/ Here.do \in {"read", "upload", "download"} /\ a \in {"partly", "garbled"}
  \/ Here.do = "waittask"

Good(a) ==
  /\ phase \notin {"over", "crashed"} /\ at < Len(plan) /\ GoOn(a)
  /\ code' = code /\ desc' \in {desc, "failure"}
  /\ a = "done" \/ BlindHere(a)
  /\ Here.do \in Connects /\ a = "done" => oemName' = "known"
  /\ Here.do = "wait" => HasTask /\ task = "success" /\ a = "done"

Bad(a) ==
  /\ phase \notin {"over", "crashed"} /\ at < Len(plan)
  /\ desc' \in {"NULL", "failure"} /\ code' \in {"OK", "ERR"}
  /\ Leave(a, desc', code')

Amid ==
  /\ phase \notin {"over", "crashed"} /\ at < Len(plan)
  /\ \/ phase' \in {"tagged", "untagged"} /\ Here.do = "patch"
     \/ phase' = "sftp" /\ Here.do = "upload"
     \/ phase' = "crashed"
  /\ code' = code /\ desc' \in {desc, "failure"}
  /\ UNCHANGED <<plan, at, heard>>

Ways == (\E a \in Answer : Good(a) \/ Bad(a)) \/ Amid \/ Finish

\* What may happen to the task and to the file meanwhile.
TaskStep ==
  \/ task' = task
  \/ /\ task' = "running" /\ at < Len(plan) /\ StartsTask
     /\ phase' = "crashed" \/ \E a \in Effective : heard' = Append(heard, a)

FileStep ==
  \/ file' \in {file, "created"}
  \/ at < Len(plan) /\ Here.do \in {"download", "save"} /\ file' \in {"emptied", "partial", "whole"}

Moves == Ways /\ TaskStep /\ FileStep /\ oemName' \in {oemName, "known"}

-----------------------------------------------------------------------------
LEMMA PlanFacts ==
  ASSUME TypeOK
  PROVE  /\ plan \in Seq(Step)
         /\ \A i \in DOMAIN plan : plan[i].of < i
         /\ \A i \in DOMAIN plan : plan[i].do = "wait" => i > 1 /\ plan[i - 1].do = "post" /\ plan[i].of = 0
         /\ \A i, j \in DOMAIN plan : Waits(plan[i]) /\ Waits(plan[j]) => i = j
  BY PlansAssumption DEF TypeOK, Fit

LEMMA HereIsStep ==
  ASSUME TypeOK, at < Len(plan)
  PROVE  Here \in Step /\ at + 1 \in DOMAIN plan
  BY PlanFacts DEF TypeOK, Here

\* How a request ends (Settle).
LEMMA SettleWays ==
  ASSUME TypeOK, PhaseInv, phase \notin {"over", "crashed"}, at < Len(plan),
         NEW a \in Answers, Settle(a),
         Here.do \in {"get", "find", "trust", "choose", "read", "post", "delete", "patch"}
  PROVE  /\ Good(a) \/ Bad(a) \/ Amid
         /\ phase' = "crashed" \/ heard' = Append(heard, a)
         /\ a \in Answer
<1>1. a \in Answer /\ a # "passed"
  BY DEF Answers, Answer
<1>2. a = "hollow" => Here.oem = "payload" /\ oemName = "NULL"
  BY DEF Answers, TypeOK, Answer
<1>3. code = "OK" /\ desc \in {"NULL", "failure"}
  BY DEF PhaseInv, TypeOK
<1>4. CASE a \in Accepted /\ ~(Searched /\ NotFound(a)) /\ GoOn(a) /\ UNCHANGED output
  <2>1. a = "done" \/ BlindHere(a)
    BY <1>2, <1>4 DEF Accepted, Searched, NotFound, BlindHere
  <2> QED
    BY <1>1, <1>4, <2>1 DEF Good, GoOn, output, Connects
<1>5. CASE Unexplained(a)
  BY <1>1, <1>3, <1>5 DEF Bad, Unexplained, Leave
<1>6. CASE Explained(a)
  BY <1>1, <1>3, <1>6 DEF Bad, Explained, Leave
<1>7. CASE Crash
  BY <1>1, <1>3, <1>7 DEF Amid, Crash, output
<1> QED
  BY <1>4, <1>5, <1>6, <1>7 DEF Settle

\* Every step of a handler goes one of the ways.
LEMMA HandlerMoves ==
  ASSUME TypeOK, PhaseInv, Handler
  PROVE  Moves
<1> USE DEF Moves, Ways, FileStep, TaskStep
<1>0. /\ phase \notin {"over", "crashed"} => code = "OK" /\ desc \in {"NULL", "failure"}
      /\ task \in {"none", "running", "success", "failure"}
      /\ oemName \in {"NULL", "known"}
      /\ file \in {"absent", "created", "old", "emptied", "partial", "whole"}
  BY DEF PhaseInv, TypeOK
<1>1. CASE PassOver
  <2>1. Here.of > 0 /\ heard[Here.of] \in {"bare", "passed"}
    BY <1>1 DEF PassOver, Listed
  <2>2. Here.do # "wait"
    BY <1>1, <2>1, HereIsStep, PlanFacts DEF PassOver, Here
  <2>3. Good("passed")
    BY <1>0, <1>1, <2>1, <2>2 DEF PassOver, Good, BlindHere, GoOn, output, Connects
  <2> QED BY <1>1, <2>3 DEF PassOver, world, Answer
<1>2. CASE Check
  <2>1. Good("done")
    BY <1>0, <1>2 DEF Check, Doing, Good, GoOn, output, Connects, Here
  <2> QED BY <1>2, <2>1 DEF Check, Touched, Answer
<1>3. CASE CheckFails
  <2>1. Bad("refused")
    BY <1>0, <1>3 DEF CheckFails, Doing, Bad, Explained, Unexplained, Leave
  <2> QED BY <1>3, <2>1 DEF CheckFails, Touched, Answer
<1>4. CASE Connect
  <2>1. Good("done")
    BY <1>0, <1>4 DEF Connect, Doing, Good, GoOn, output, Connects, Here
  <2> QED BY <1>4, <2>1 DEF Connect, world, Answer
<1>5. CASE ConnectBlind
  <2>1. Good("refused")
    BY <1>0, <1>5 DEF ConnectBlind, Doing, Good, GoOn, BlindHere, Connects, Here
  <2> QED BY <1>5, <2>1 DEF ConnectBlind, world, Answer
<1>6. CASE ConnectFails
  <2>1. Bad("refused") \/ Bad("lost") \/ Amid
    BY <1>0, <1>6 DEF ConnectFails, Doing, Bad, Amid, Explained, Unexplained, Leave, Crash, output
  <2> QED BY <1>6, <2>1 DEF ConnectFails, world, Answer
<1>7. CASE Request
  <2>1. PICK a \in Answers : Settle(a) /\ task' = IF StartsTask /\ a \in Effective THEN "running" ELSE task
    BY <1>7 DEF Request
  <2>2. phase \notin {"over", "crashed"} /\ at < Len(plan)
        /\ Here.do \in {"get", "find", "trust", "choose", "read", "post", "delete", "patch"}
    BY <1>7 DEF Request, Doing, Here
  <2>3. /\ Good(a) \/ Bad(a) \/ Amid
        /\ phase' = "crashed" \/ heard' = Append(heard, a)
        /\ a \in Answer
    BY <2>1, <2>2, SettleWays
  <2> QED BY <1>7, <2>1, <2>2, <2>3 DEF Request
<1>8. CASE Compare
  <2>1. Good("done")
    BY <1>0, <1>8 DEF Compare, Doing, Good, GoOn, output, Connects, Here
  <2> QED BY <1>8, <2>1 DEF Compare, world, Answer
<1>9. CASE CompareCrashes
  <2>1. Amid
    BY <1>0, <1>9 DEF CompareCrashes, Doing, Amid, Crash, output
  <2> QED BY <1>9, <2>1 DEF CompareCrashes, world
<1>10. CASE ReadTag
  <2>1. Amid
    BY <1>0, <1>10 DEF ReadTag, Doing, Amid, output, Here
  <2> QED BY <1>10, <2>1 DEF ReadTag, world
<1>11. CASE ReadTagFails
  <2>1. Bad("lost")
    BY <1>0, <1>11 DEF ReadTagFails, Doing, Bad, Unexplained, Leave
  <2> QED BY <1>11, <2>1 DEF ReadTagFails, world, Answer
<1>12. CASE SendPatch
  <2>1. PICK a \in Answers : Settle(a)
    BY <1>12 DEF SendPatch
  <2>2. phase \notin {"over", "crashed"} /\ at < Len(plan) /\ Here.do = "patch"
    BY <1>12 DEF SendPatch, PhaseInv
  <2>3. (Good(a) \/ Bad(a) \/ Amid) /\ a \in Answer
    BY <2>1, <2>2, SettleWays
  <2> QED BY <1>12, <2>3 DEF SendPatch, world
<1>13. CASE Upload
  <2>1. PICK a \in Answers :
          \/ a \in {"done", "partly", "garbled"} /\ GoOn(a) /\ UNCHANGED output
          \/ a \in {"refused", "bare"} /\ Explained(a)
          \/ a \in {"unheard", "lost"} /\ Unexplained(a)
    BY <1>13 DEF Upload
  <2>2. Good(a) \/ Bad(a)
    BY <1>0, <1>13, <2>1
    DEF Upload, Doing, Good, Bad, GoOn, BlindHere, Explained, Unexplained, Leave, output, Connects, Here
  <2>3. a \in Answer
    BY <2>1 DEF Answer
  <2> QED BY <1>13, <2>2, <2>3 DEF Upload, world
<1>14. CASE UploadUnsupported
  <2>1. Amid
    BY <1>0, <1>14 DEF UploadUnsupported, Doing, Amid, Here
  <2> QED BY <1>14, <2>1 DEF UploadUnsupported, world
<1>15. CASE UploadBySftp
  <2>1. at < Len(plan) /\ Here.do = "upload"
    BY <1>15 DEF UploadBySftp, PhaseInv
  <2>2. Good("done") \/ Bad("refused") \/ Bad("lost") \/ Bad("unheard") \/ Amid
    BY <1>0, <1>15, <2>1
    DEF UploadBySftp, Good, Bad, Amid, GoOn, Explained, Unexplained, Leave, Crash, output, Connects
  <2> QED BY <1>15, <2>2 DEF UploadBySftp, world, Answer
<1>16. CASE WaitSucceeds
  <2>1. Good("done")
    BY <1>0, <1>16 DEF WaitSucceeds, Doing, Good, GoOn, output, Connects, Here
  <2> QED BY <1>16, <2>1 DEF WaitSucceeds, world, Answer
<1>17. CASE WaitFails
  <2>1. Bad("bare") \/ Bad("refused") \/ Bad("lost")
    BY <1>0, <1>17 DEF WaitFails, Doing, Bad, Explained, Unexplained, Leave
  <2> QED BY <1>17, <2>1 DEF WaitFails, world, Answer
<1>18. CASE WaitTask
  <2>1. Good("bare") \/ Good("done") \/ Good("refused") \/ Good("lost")
    BY <1>0, <1>18 DEF WaitTask, Doing, Good, GoOn, BlindHere, output, Connects, Here
  <2> QED BY <1>18, <2>1 DEF WaitTask, world, Answer
<1>19. CASE WaitTaskFails
  <2>1. Bad("garbled")
    BY <1>0, <1>19 DEF WaitTaskFails, Doing, Bad, Unexplained, Leave
  <2> QED BY <1>19, <2>1 DEF WaitTaskFails, world, Answer
<1>20. CASE Download
  <2>1. PICK a \in Answers :
       \/ a = "done" /\ GoOn(a) /\ file' = "whole" /\ UNCHANGED output
       \/ a = "partly" /\ GoOn(a) /\ file' = "emptied" /\ UNCHANGED output
       \/ a \in {"refused", "bare"} /\ Explained(a) /\ file' = "emptied"
       \/ a \in {"unheard", "lost"} /\ Unexplained(a) /\ file' \in {"emptied", "partial"}
    BY <1>20 DEF Download
  <2>2. Good(a) \/ Bad(a)
    BY <1>0, <1>20, <2>1
    DEF Download, Doing, Good, Bad, GoOn, BlindHere, Explained, Unexplained, Leave, output, Connects, Here
  <2>3. a \in Answer
    BY <2>1 DEF Answer
  <2> QED BY <1>20, <2>1, <2>2, <2>3 DEF Download, Doing, Here
<1>21. CASE DownloadNotStarted
  <2>1. Bad("lost")
    BY <1>0, <1>21 DEF DownloadNotStarted, Doing, Bad, Unexplained, Leave
  <2> QED BY <1>21, <2>1 DEF DownloadNotStarted, Doing, Here, Answer
<1>22. CASE Save
  <2>1. Good("done")
    BY <1>0, <1>22 DEF Save, Doing, Good, GoOn, output, Connects, Here
  <2> QED BY <1>22, <2>1 DEF Save, Doing, Here, Answer
<1>23. CASE SaveFails
  <2>1. Bad("lost")
    BY <1>0, <1>23 DEF SaveFails, Doing, Bad, Unexplained, Leave
  <2> QED BY <1>23, <2>1 DEF SaveFails, Doing, Here, Answer
<1>24. CASE Finish
  BY <1>24 DEF Finish, world
<1> QED
  BY <1>1, <1>2, <1>3, <1>4, <1>5, <1>6, <1>7, <1>8, <1>9, <1>10, <1>11, <1>12, <1>13, <1>14,
     <1>15, <1>16, <1>17, <1>18, <1>19, <1>20, <1>21, <1>22, <1>23, <1>24 DEF Handler

-----------------------------------------------------------------------------
\* What a step of a handler leaves alone.
LEMMA StepShape ==
  ASSUME TypeOK, PhaseInv, Moves
  PROVE  /\ plan' = plan
         /\ Len(heard) = at /\ phase \notin {"over", "crashed"}
         /\ heard' \in Seq(Answer) /\ Len(heard') >= at
         /\ \A i \in 1..at : heard'[i] = heard[i]
         /\ at' \in {at, at + 1} /\ at' <= Len(plan)
         /\ at' = at + 1 => \E a \in Answer : Good(a) /\ heard'[at + 1] = a
<1>0. phase \notin {"over", "crashed"} => Len(heard) = at
  BY DEF PhaseInv, TypeOK
<1>1. at \in Nat /\ heard \in Seq(Answer) /\ at <= Len(plan) /\ Len(plan) \in Nat
  BY PlanFacts DEF TypeOK
<1>2. ASSUME NEW a \in Answer, Good(a)
      PROVE  /\ plan' = plan
             /\ Len(heard) = at /\ phase \notin {"over", "crashed"}
             /\ heard' \in Seq(Answer) /\ Len(heard') >= at
             /\ \A i \in 1..at : heard'[i] = heard[i]
             /\ at' = at + 1 /\ at' <= Len(plan)
             /\ heard'[at + 1] = a
  BY <1>0, <1>1, <1>2 DEF Good, GoOn
<1>3. ASSUME NEW a \in Answer, Bad(a)
      PROVE  /\ plan' = plan
             /\ Len(heard) = at /\ phase \notin {"over", "crashed"}
             /\ heard' \in Seq(Answer) /\ Len(heard') >= at
             /\ \A i \in 1..at : heard'[i] = heard[i]
             /\ at' = at
  BY <1>0, <1>1, <1>3 DEF Bad, Leave
<1>4. Amid \/ Finish => /\ plan' = plan /\ heard' = heard /\ at' = at
                        /\ phase \notin {"over", "crashed"}
  BY DEF Amid, Finish
<1> QED
  BY <1>0, <1>1, <1>2, <1>3, <1>4 DEF Moves, Ways

\* Only one wait is there: past it, or at it, nothing starts the task again.
LEMMA TaskKept ==
  ASSUME TypeOK, Moves, NEW j \in DOMAIN plan, Waits(plan[j]), j <= at + 1
  PROVE  task' = task
<1>1. at \in Nat /\ Len(plan) \in Nat /\ DOMAIN plan = 1..Len(plan)
  BY PlanFacts DEF TypeOK
<1>2. ASSUME StartsTask PROVE FALSE
  <2>1. at + 2 \in DOMAIN plan /\ Waits(plan[at + 2])
    BY <1>1, <1>2 DEF StartsTask
  <2> QED BY <1>1, <2>1, PlanFacts
<1> QED
  BY <1>2 DEF Moves, TaskStep

LEMMA BlindKept ==
  ASSUME TypeOK, PhaseInv, Moves, NEW i \in 1..at, BlindSpot(i)
  PROVE  BlindSpot(i)'
<1>1. at \in Nat /\ at <= Len(plan) /\ DOMAIN plan = 1..Len(plan) /\ plan \in Seq(Step)
  BY PlanFacts DEF TypeOK
<1>2. plan' = plan /\ \A k \in 1..at : heard'[k] = heard[k]
  BY StepShape
<1>3. plan[i].of \in Nat /\ plan[i].of < i
  <2>1. i \in DOMAIN plan
    BY <1>1
  <2>2. plan[i] \in Step
    BY <1>1, <2>1
  <2> QED BY <2>1, <2>2, PlanFacts DEF Step
<1>4. plan[i].of > 0 => heard'[plan[i].of] = heard[plan[i].of]
  BY <1>1, <1>2, <1>3
<1>5. Learned(i)' <=> Learned(i)
  BY <1>1, <1>2 DEF Learned
<1> QED
  BY <1>2, <1>4, <1>5 DEF BlindSpot

-----------------------------------------------------------------------------
\* The parts of the invariant, one after the other.

LEMMA TypeStep ==
  ASSUME TypeOK, PhaseInv, Moves
  PROVE  TypeOK'
<1>1. at \in Nat /\ heard \in Seq(Answer) /\ at <= Len(plan) /\ Len(plan) \in Nat
  BY PlanFacts DEF TypeOK
<1>2. plan' \in Plans /\ at' \in 0..Len(plan') /\ heard' \in Seq(Answer) /\ Len(heard) = at
  BY <1>1, StepShape DEF TypeOK
<1>3. /\ oemName' \in {"NULL", "known"}
      /\ task' \in {"none", "running", "success", "failure"}
      /\ file' \in {"absent", "created", "old", "emptied", "partial", "whole"}
  BY DEF TypeOK, Moves, TaskStep, FileStep
<1>4. desc \in {"NULL", "failure", "success"} /\ code \in {"OK", "ERR"}
  BY DEF TypeOK
<1>5. ASSUME NEW a \in Answer, Good(a)
      PROVE  TypeOK'
  <2>1. Len(heard') = at' /\ at' <= Len(plan') /\ phase' = "step"
    BY <1>1, <1>2, <1>5 DEF Good, GoOn
  <2>2. desc' \in {"NULL", "failure", "success"} /\ code' \in {"OK", "ERR"}
    BY <1>4, <1>5 DEF Good
  <2> QED BY <1>2, <1>3, <2>1, <2>2 DEF TypeOK
<1>6. ASSUME NEW a \in Answer, Bad(a)
      PROVE  TypeOK'
  <2>1. Len(heard') = at' + 1 /\ at' < Len(plan') /\ phase' = "over"
    BY <1>1, <1>2, <1>6 DEF Bad, Leave
  <2>2. desc' \in {"NULL", "failure", "success"} /\ code' \in {"OK", "ERR"}
    BY <1>6 DEF Bad
  <2> QED BY <1>1, <1>2, <1>3, <2>1, <2>2 DEF TypeOK
<1>7. ASSUME Amid
      PROVE  TypeOK'
  <2>1. Len(heard') = at' /\ at' <= Len(plan')
        /\ phase' \in {"tagged", "untagged", "sftp", "crashed"}
    BY <1>1, <1>2, <1>7 DEF Amid
  <2>2. desc' \in {"NULL", "failure", "success"} /\ code' \in {"OK", "ERR"}
    BY <1>4, <1>7 DEF Amid
  <2> QED BY <1>2, <1>3, <2>1, <2>2 DEF TypeOK
<1>8. ASSUME Finish
      PROVE  TypeOK'
  <2>1. Len(heard') = at' /\ at' <= Len(plan') /\ phase' = "over"
    BY <1>1, <1>2, <1>8 DEF Finish
  <2>2. desc' = "success" /\ code' = code
    BY <1>8 DEF Finish
  <2> QED BY <1>2, <1>3, <1>4, <2>1, <2>2 DEF TypeOK
<1> QED
  BY <1>5, <1>6, <1>7, <1>8 DEF Moves, Ways

LEMMA PhaseStep ==
  ASSUME TypeOK, PhaseInv, Moves
  PROVE  PhaseInv'
<1>1. at \in Nat /\ heard \in Seq(Answer) /\ at <= Len(plan) /\ Len(plan) \in Nat
  BY PlanFacts DEF TypeOK
<1>2. plan' = plan /\ Len(heard) = at /\ code = "OK" /\ desc \in {"NULL", "failure"}
  BY StepShape DEF PhaseInv, TypeOK
<1>3. ASSUME NEW a \in Answer, Good(a)
      PROVE  PhaseInv'
  <2>1. Len(heard') = at' /\ phase' = "step" /\ code' = "OK" /\ desc' # "success"
    BY <1>1, <1>2, <1>3 DEF Good, GoOn
  <2> QED BY <2>1 DEF PhaseInv
<1>4. ASSUME NEW a \in Answer, Bad(a)
      PROVE  PhaseInv'
  <2>1. Len(heard') = at' + 1 /\ at' < Len(plan') /\ phase' = "over" /\ desc' # "success"
    BY <1>1, <1>2, <1>4 DEF Bad, Leave
  <2> QED BY <2>1 DEF PhaseInv
<1>5. ASSUME Amid
      PROVE  PhaseInv'
  BY <1>2, <1>5 DEF Amid, PhaseInv, Here
<1>6. ASSUME Finish
      PROVE  PhaseInv'
  BY <1>2, <1>6 DEF Finish, PhaseInv
<1> QED
  BY <1>3, <1>4, <1>5, <1>6 DEF Moves, Ways

\* The answer that is heard now is none of the earlier ones; what Learned says
\* of the step at hand is what OemInv says.
LEMMA HeardStep ==
  ASSUME TypeOK, PhaseInv, HeardInv, OemInv, Moves
  PROVE  HeardInv'
<1>1. at \in Nat /\ DOMAIN plan = 1..Len(plan) /\ at <= Len(plan) /\ plan \in Seq(Step)
  BY PlanFacts DEF TypeOK
<1>2. plan' = plan /\ at' \in {at, at + 1} /\ at' <= Len(plan)
      /\ \A i \in 1..at : heard'[i] = heard[i]
  BY StepShape
<1>3. ASSUME NEW i \in 1..at
      PROVE  heard'[i] = "done" \/ BlindSpot(i)'
  BY <1>2, BlindKept DEF HeardInv
<1>4. ASSUME at' = at + 1, NEW k \in Nat, k = at + 1
      PROVE  heard'[k] = "done" \/ BlindSpot(k)'
  <2>1. PICK a \in Answer : Good(a) /\ heard'[k] = a
    BY <1>4, StepShape
  <2>2. a = "done" \/ BlindHere(a)
    BY <2>1 DEF Good
  <2>3. k \in DOMAIN plan /\ plan[k] \in Step /\ Here = plan[k]
    BY <1>1, <1>2, <1>4 DEF Here
  <2>4. plan[k].of \in Nat /\ plan[k].of < k
    BY <2>3, PlanFacts DEF Step
  <2>5. plan[k].of > 0 => heard'[plan[k].of] = heard[plan[k].of]
    BY <1>1, <1>2, <1>4, <2>4
  <2>6. oemName = "NULL" => ~Learned(k)'
    BY <1>1, <1>2, <1>4 DEF OemInv, Learned, Connects
  <2> QED BY <1>2, <2>1, <2>2, <2>3, <2>5, <2>6 DEF BlindHere, BlindSpot
<1>5. SUFFICES ASSUME NEW i \in 1..at'
               PROVE  heard'[i] = "done" \/ BlindSpot(i)'
  BY DEF HeardInv
<1>6. i \in 1..at \/ (i = at + 1 /\ at' = at + 1)
  BY <1>1, <1>2
<1> QED
  BY <1>3, <1>4, <1>6

LEMMA OemStep ==
  ASSUME TypeOK, PhaseInv, OemInv, Moves
  PROVE  OemInv'
<1>1. at \in Nat /\ oemName' \in {oemName, "known"}
  BY DEF TypeOK, Moves
<1>2. plan' = plan /\ at' \in {at, at + 1} /\ \A i \in 1..at : heard'[i] = heard[i]
  BY StepShape
<1>3. SUFFICES ASSUME oemName' = "NULL", NEW j \in 1..at', plan[j].do \in Connects
               PROVE  heard'[j] # "done"
  BY <1>2 DEF OemInv
<1>4. CASE j \in 1..at
  BY <1>1, <1>2, <1>3, <1>4 DEF OemInv
<1>5. CASE j = at + 1 /\ at' = at + 1
  <2>1. PICK a \in Answer : Good(a) /\ heard'[at + 1] = a
    BY <1>5, StepShape
  <2> QED BY <1>3, <1>5, <2>1 DEF Good, Here
<1> QED
  BY <1>1, <1>2, <1>4, <1>5

\* A wait is found good when its task succeeded, and the task was started by
\* the one request before it: an answer to a POST that took effect and is found
\* good is "done".
LEMMA WaitedStep ==
  ASSUME TypeOK, PhaseInv, HeardInv, WaitedInv, TaskInv, Moves
  PROVE  WaitedInv'
<1>1. at \in Nat /\ DOMAIN plan = 1..Len(plan) /\ at <= Len(plan) /\ Len(plan) \in Nat
  BY PlanFacts DEF TypeOK
<1>2. plan' = plan /\ at' \in {at, at + 1} /\ at' <= Len(plan) /\ Len(heard) = at
      /\ phase \notin {"over", "crashed"}
      /\ \A k \in 1..at : heard'[k] = heard[k]
  BY StepShape
<1>3. SUFFICES ASSUME NEW i \in 1..at', plan[i].do = "wait"
               PROVE  task' = "success" /\ heard'[i - 1] = "done"
  BY <1>2 DEF WaitedInv
<1>4. i \in DOMAIN plan /\ i > 1 /\ plan[i - 1].do = "post" /\ Waits(plan[i]) /\ i <= at + 1
  <2>1. i \in DOMAIN plan
    BY <1>1, <1>2
  <2> QED BY <1>1, <1>2, <1>3, <2>1, PlanFacts DEF Waits
<1>5. task' = task
  BY <1>4, TaskKept
<1>6. i - 1 \in 1..at /\ heard'[i - 1] = heard[i - 1]
  BY <1>1, <1>2, <1>4
<1>7. CASE i \in 1..at
  BY <1>3, <1>5, <1>6, <1>7 DEF WaitedInv
<1>8. CASE i = at + 1 /\ at' = at + 1
  <2>1. PICK a \in Answer : Good(a)
    BY <1>8, StepShape
  <2>2. task = "success"
    BY <1>3, <1>8, <2>1 DEF Good, Here
  <2>3. PICK k \in 2..Len(plan) : Waits(plan[k]) /\ heard[k - 1] \in Effective
    BY <1>2, <2>2 DEF TaskInv
  <2>4. k = i
    BY <1>1, <1>4, <2>3, PlanFacts
  <2>5. heard[i - 1] = "done" \/ BlindSpot(i - 1)
    BY <1>6 DEF HeardInv
  <2>6. heard[i - 1] = "done"
    <3>1. heard[i - 1] \in {"done", "partly", "garbled", "unheard"}
      BY <2>3, <2>4 DEF Effective
    <3> QED BY <1>4, <2>5, <3>1 DEF BlindSpot
  <2> QED BY <1>5, <1>6, <2>2, <2>6
<1> QED
  BY <1>1, <1>2, <1>7, <1>8

LEMMA TaskInvStep ==
  ASSUME TypeOK, PhaseInv, TaskInv, Moves
  PROVE  TaskInv'
<1>1. at \in Nat /\ Len(plan) \in Nat /\ heard \in Seq(Answer)
  BY PlanFacts DEF TypeOK
<1>2. plan' = plan /\ at' \in {at, at + 1} /\ Len(heard) = at /\ heard' \in Seq(Answer)
      /\ phase \notin {"over", "crashed"}
      /\ \A k \in 1..at : heard'[k] = heard[k]
  BY StepShape
<1>3. SUFFICES ASSUME task' # "none", phase' # "crashed"
               PROVE  \E i \in 2..Len(plan) :
                        Waits(plan[i]) /\ i - 1 <= Len(heard') /\ heard'[i - 1] \in Effective
  BY <1>2 DEF TaskInv
<1>4. CASE task' = task
  <2>1. PICK i \in 2..Len(plan) : Waits(plan[i]) /\ i - 1 <= at /\ heard[i - 1] \in Effective
    BY <1>2, <1>3, <1>4 DEF TaskInv
  <2>2. heard'[i - 1] = heard[i - 1]
    BY <1>1, <1>2, <2>1
  <2>3. Len(heard') >= at
    BY StepShape
  <2>4. i - 1 <= Len(heard')
    BY <1>1, <1>2, <2>1, <2>3
  <2> QED BY <2>1, <2>2, <2>4
<1>5. CASE StartsTask /\ \E a \in Effective : heard' = Append(heard, a)
  <2>1. PICK a \in Effective : heard' = Append(heard, a)
    BY <1>5
  <2>2. a \in Answer
    BY DEF Effective, Answer
  <2>3. Len(heard') = at + 1 /\ heard'[at + 1] = a
    BY <1>1, <1>2, <2>1, <2>2
  <2>4. at + 2 \in 2..Len(plan) /\ Waits(plan[at + 2])
    BY <1>1, <1>5 DEF StartsTask
  <2>5. (at + 2) - 1 = at + 1
    BY <1>1
  <2> QED BY <1>1, <2>1, <2>3, <2>4, <2>5
<1> QED
  BY <1>3, <1>4, <1>5 DEF Moves, TaskStep

LEMMA FileKept ==
  ASSUME TypeOK, PhaseInv, WaitedInv, OldFileKept, Moves
  PROVE  OldFileKept'
<1>1. at \in Nat /\ DOMAIN plan = 1..Len(plan) /\ at <= Len(plan) /\ Len(plan) \in Nat
  BY PlanFacts DEF TypeOK
<1>2. plan' = plan /\ at' \in {at, at + 1}
  BY StepShape
<1>3. ASSUME NEW i \in DOMAIN plan, i <= at + 1,
             (\E j \in 1..i : plan[j].do = "wait") => task = "success"
      PROVE  (\E j \in 1..i : plan[j].do = "wait") => task' = "success"
  <2>1. SUFFICES ASSUME NEW j \in 1..i, plan[j].do = "wait"
                 PROVE  task' = "success"
    OBVIOUS
  <2>2. j \in DOMAIN plan /\ j <= at + 1 /\ Waits(plan[j])
    BY <1>1, <1>3, <2>1 DEF Waits
  <2> QED BY <1>3, <2>1, <2>2, TaskKept
<1>4. SUFFICES ASSUME file' \in {"emptied", "partial", "whole"}
               PROVE  \E i \in DOMAIN plan :
                        /\ plan[i].do \in {"download", "save"} /\ at' >= i - 1
                        /\ (\E j \in 1..i : plan[j].do = "wait") => task' = "success"
  BY <1>2 DEF OldFileKept
<1>5. CASE file' = file
  <2>1. PICK i \in DOMAIN plan :
          /\ plan[i].do \in {"download", "save"} /\ at >= i - 1
          /\ (\E j \in 1..i : plan[j].do = "wait") => task = "success"
    BY <1>4, <1>5 DEF OldFileKept
  <2>2. i <= at + 1 /\ at' >= i - 1
    BY <1>1, <1>2, <2>1
  <2> QED BY <1>3, <2>1, <2>2
<1>6. CASE at < Len(plan) /\ Here.do \in {"download", "save"}
  <2>1. at + 1 \in DOMAIN plan /\ at' >= (at + 1) - 1 /\ plan[at + 1].do \in {"download", "save"}
    BY <1>1, <1>2, <1>6 DEF Here
  <2>2. (\E j \in 1..(at + 1) : plan[j].do = "wait") => task = "success"
    BY <1>1, <2>1 DEF WaitedInv
  <2> QED BY <1>1, <1>3, <2>1, <2>2
<1> QED
  BY <1>4, <1>5, <1>6 DEF Moves, FileStep

\* While the BMC works on the task, no wait has been found good.
LEMMA TaskEndsKeeps ==
  ASSUME ReqInv, TaskEnds
  PROVE  ReqInv'
<1>1. UNCHANGED <<plan, at, phase, heard, desc, code, oemName, file>>
      /\ task = "running" /\ task' \in {"success", "failure"}
  BY DEF TaskEnds, handler, output
<1>2. TypeOK' /\ PhaseInv' /\ OemInv'
  BY <1>1 DEF ReqInv, TypeOK, PhaseInv, Here, OemInv
<1>3. HeardInv'
  BY <1>1 DEF ReqInv, HeardInv, BlindSpot, Learned
<1>4. WaitedInv' /\ TaskInv'
  BY <1>1 DEF ReqInv, WaitedInv, TaskInv
<1>5. OldFileKept'
  BY <1>1 DEF ReqInv, OldFileKept
<1> QED
  BY <1>2, <1>3, <1>4, <1>5 DEF ReqInv

LEMMA ReqInvInit == Init => ReqInv
<1> SUFFICES ASSUME Init PROVE ReqInv
  OBVIOUS
<1>1. plan \in Seq(Step) /\ Len(plan) \in Nat /\ at = 0 /\ phase = "step" /\ heard = <<>>
      /\ desc = "NULL" /\ code = "OK" /\ oemName = "NULL" /\ task = "none"
      /\ file \in {"absent", "old"} /\ plan \in Plans
  BY PlansAssumption DEF Init, Fit
<1>2. TypeOK
  BY <1>1 DEF TypeOK
<1>3. PhaseInv /\ HeardInv /\ OemInv /\ WaitedInv /\ TaskInv /\ OldFileKept
  BY <1>1 DEF PhaseInv, HeardInv, OemInv, WaitedInv, TaskInv, OldFileKept
<1> QED
  BY <1>2, <1>3 DEF ReqInv

LEMMA ReqInvNext == ReqInv /\ [Next]_vars => ReqInv'
<1> SUFFICES ASSUME ReqInv, [Next]_vars PROVE ReqInv'
  OBVIOUS
<1>1. CASE Handler
  <2>1. TypeOK /\ PhaseInv /\ HeardInv /\ OemInv /\ WaitedInv /\ TaskInv /\ OldFileKept
    BY DEF ReqInv
  <2>2. Moves
    BY <1>1, <2>1, HandlerMoves
  <2> QED
    BY <2>1, <2>2, TypeStep, PhaseStep, HeardStep, OemStep, WaitedStep, TaskInvStep, FileKept
    DEF ReqInv
<1>2. CASE TaskEnds
  BY <1>2, TaskEndsKeeps
<1>3. CASE UNCHANGED vars
  <2>1. UNCHANGED <<plan, at, phase, heard, desc, code, oemName, task, file>>
    BY <1>3 DEF vars, handler, output, world
  <2> QED
    BY <2>1 DEF ReqInv, TypeOK, PhaseInv, Here, HeardInv, BlindSpot, Learned, OemInv,
                WaitedInv, TaskInv, OldFileKept
<1> QED
  BY <1>1, <1>2, <1>3 DEF Next

-----------------------------------------------------------------------------
\* The invariant holds whatever the plans are.
THEOREM ReqInvHolds == Spec => []ReqInv
<1> QED
  BY ReqInvInit, ReqInvNext, PTL DEF Spec

\* Every variable keeps its type.
THEOREM TypeCorrect == Spec => []TypeOK
<1>1. ReqInv => TypeOK
  BY DEF ReqInv
<1> QED
  BY <1>1, ReqInvHolds, PTL

\* Success is reported only when every step was done, the blind spots apart,
\* and the task that was waited for succeeded.
THEOREM SuccessEarned == Spec => []SuccessIsEarned
<1>1. ReqInv => SuccessIsEarned
  <2> SUFFICES ASSUME ReqInv, Told = "success" PROVE SuccessIsEarned
    BY DEF SuccessIsEarned
  <2>1. phase = "over" /\ code = "OK" /\ desc = "success"
    BY DEF Told
  <2>2. at = Len(plan) /\ Len(heard) = at
    BY <2>1 DEF ReqInv, PhaseInv
  <2>3. DOMAIN plan = 1..at
    BY <2>2, PlanFacts DEF ReqInv
  <2> QED
    BY <2>2, <2>3 DEF ReqInv, HeardInv, WaitedInv, SuccessIsEarned
<1> QED
  BY <1>1, ReqInvHolds, PTL

\* A local file is kept until everything before the download has succeeded.
THEOREM OldFileIsKept == Spec => []OldFileKept
<1>1. ReqInv => OldFileKept
  BY DEF ReqInv
<1> QED
  BY <1>1, ReqInvHolds, PTL

-----------------------------------------------------------------------------
\* Whoever leaves says why, or has waited in vain.
Reason ==
  \/ desc \in {"failure", "success"}
  \/ code = "ERR"
  \/ plan[Len(heard)].do = "wait" /\ heard[Len(heard)] = "lost"

LEMMA LeaveReason ==
  ASSUME Handler, phase' = "over"
  PROVE  \/ desc' \in {"failure", "success"}
         \/ code' = "ERR"
         \/ Doing({"wait"}) /\ HasTask /\ \E ret \in {"OK", "ERR"} : Leave("lost", "NULL", ret)
<1>1. CASE Request \/ SendPatch
  BY <1>1 DEF Request, SendPatch, Settle, GoOn, Crash, Explained, Unexplained, Leave
<1>2. CASE PassOver \/ Check \/ CheckFails \/ Connect \/ ConnectBlind \/ ConnectFails
           \/ Compare \/ CompareCrashes \/ ReadTag \/ ReadTagFails
  BY <1>2 DEF PassOver, Check, CheckFails, Connect, ConnectBlind, ConnectFails, Compare,
     CompareCrashes, ReadTag, ReadTagFails, GoOn, Crash, Explained, Unexplained, Leave
<1>3. CASE Upload \/ UploadUnsupported \/ UploadBySftp \/ Download \/ DownloadNotStarted
           \/ Save \/ SaveFails \/ Finish
  BY <1>3 DEF Upload, UploadUnsupported, UploadBySftp, Download, DownloadNotStarted, Save,
     SaveFails, Finish, GoOn, Crash, Explained, Unexplained, Leave
<1>4. CASE WaitSucceeds \/ WaitFails \/ WaitTask \/ WaitTaskFails
  BY <1>4 DEF WaitSucceeds, WaitFails, WaitTask, WaitTaskFails, GoOn, Explained, Unexplained,
     Leave
<1> QED
  BY <1>1, <1>2, <1>3, <1>4 DEF Handler

LEMMA ReasonKept ==
  ASSUME ReqInv, phase = "over" => Reason, [Next]_vars, phase' = "over"
  PROVE  Reason'
<1>1. CASE Handler
  <2>1. CASE Doing({"wait"}) /\ HasTask
             /\ \E ret \in {"OK", "ERR"} : Leave("lost", "NULL", ret)
    <3>1. heard' = Append(heard, "lost") /\ plan' = plan
      BY <2>1 DEF Leave
    <3>2. heard \in Seq(Answer) /\ at \in Nat /\ Len(heard) = at
      BY <2>1, PlanFacts DEF ReqInv, TypeOK, PhaseInv, Doing
    <3>3. Len(heard') = at + 1 /\ heard'[at + 1] = "lost"
      BY <3>1, <3>2
    <3>4. plan'[at + 1].do = "wait"
      BY <2>1, <3>1 DEF Doing
    <3> QED
      BY <3>3, <3>4 DEF Reason
  <2> QED
    BY <1>1, <2>1, LeaveReason DEF Reason
<1>2. CASE TaskEnds \/ UNCHANGED vars
  BY <1>2 DEF TaskEnds, vars, handler, output, Reason
<1> QED
  BY <1>1, <1>2 DEF Next

\* A failure is told with a text or a code, a wait that gave up apart.
THEOREM ReasonAlwaysGiven == Spec => []ReasonGiven
<1> DEFINE Reasoned == phase = "over" => Reason
<1>1. Init => Reasoned
  BY DEF Init
<1>2. ReqInv /\ Reasoned /\ [Next]_vars => Reasoned'
  BY ReasonKept
<1>3. ReqInv /\ Reasoned => ReasonGiven
  BY DEF ReqInv, TypeOK, Reason, ReasonGiven, Told
<1> HIDE DEF Reasoned
<1> QED
  BY <1>1, <1>2, <1>3, ReqInvHolds, PTL DEF Spec

-----------------------------------------------------------------------------
\* The plans of the commands satisfy the assumption on plans, however long the
\* lists are that they walk through.

\* A step that waits for no task, of a resource that is known or was listed.
Loose == {x \in Step : ~Waits(x)}
Plain == {x \in Loose : x.of = 0}

\* A plan without a wait: every list is read before its members.
Listing == {p \in Seq(Loose) : \A i \in 1..Len(p) : p[i].of < i}

\* A step of any kind but the waits, of a resource known before, is plain.
LEMMA DoIsPlain ==
  ASSUME NEW kind \in Kind \ {"wait", "waittask"}, NEW resource \in Resource
  PROVE  Do(kind, resource) \in Plain
BY DEF Do, Plain, Loose, Step, Waits

\* Where the OEM name is needed changes neither that nor the kind.
LEMMA OemIsPlain ==
  ASSUME NEW part \in {"url", "payload", "reply"}, NEW s \in Plain
  PROVE  Oem(part, s) \in Plain /\ Oem(part, s).do = s.do
BY DEF Oem, Plain, Loose, Step, Waits

\* What a list names is loose.
LEMMA OfIsLoose ==
  ASSUME NEW i \in Nat, NEW s \in Plain
  PROVE  Of(i, s) \in Loose /\ Of(i, s).of = i
BY DEF Of, Plain, Loose, Step, Waits

\* Such a plan satisfies the assumption on plans.
LEMMA ListingIsFit ==
  ASSUME NEW p \in Listing
  PROVE  Fit(p)
<1>1. p \in Seq(Loose) /\ DOMAIN p = 1..Len(p)
  BY DEF Listing
<1>2. p \in Seq(Step)
  BY <1>1 DEF Loose
<1>3. \A i \in DOMAIN p : p[i] \in Loose /\ p[i].of < i
  BY <1>1 DEF Listing
<1>4. \A i \in DOMAIN p : ~Waits(p[i]) /\ p[i].do # "wait"
  BY <1>3 DEF Loose, Waits
<1> QED
  BY <1>2, <1>3, <1>4 DEF Fit

\* A plan of plain steps is one.
LEMMA PlainIsListing ==
  ASSUME NEW p \in Seq(Plain)
  PROVE  p \in Listing
<1>1. p \in Seq(Loose)
  BY DEF Plain
<1>2. \A i \in 1..Len(p) : p[i] \in Plain
  OBVIOUS
<1> QED
  BY <1>1, <1>2 DEF Listing, Plain

\* A listing may go on with steps on what it has listed.
LEMMA ListingGoesOn ==
  ASSUME NEW p \in Listing, NEW q \in Seq(Loose),
         \A i \in 1..Len(q) : q[i].of < Len(p) + i
  PROVE  p \o q \in Listing
<1>1. p \in Seq(Loose) /\ \A i \in 1..Len(p) : p[i].of < i
  BY DEF Listing
<1>2. p \o q \in Seq(Loose) /\ Len(p \o q) = Len(p) + Len(q)
  BY <1>1
<1>3. ASSUME NEW i \in 1..Len(p \o q) PROVE (p \o q)[i].of < i
  <2>1. CASE i <= Len(p)
    BY <1>1, <1>2, <2>1
  <2>2. CASE i > Len(p)
    <3>1. i - Len(p) \in 1..Len(q) /\ (p \o q)[i] = q[i - Len(p)]
      BY <1>1, <1>2, <2>2
    <3>2. q[i - Len(p)].of < Len(p) + (i - Len(p))
      BY <3>1
    <3> QED
      BY <1>1, <3>1, <3>2
  <2> QED
    BY <1>1, <1>2, <2>1, <2>2
<1> QED
  BY <1>2, <1>3 DEF Listing

\* Walking through the members of the last list keeps it one.
LEMMA WalkIsListing ==
  ASSUME NEW p \in Listing, NEW n \in Nat, NEW member \in Plain
  PROVE  Walk(p, n, member) \in Listing /\ Len(Walk(p, n, member)) = Len(p) + n
<1> DEFINE q == [j \in 1..n |-> Of(Len(p), member)]
<1>1. Len(p) \in Nat
  BY DEF Listing
<1>2. Of(Len(p), member) \in Loose /\ Of(Len(p), member).of = Len(p)
  BY <1>1, OfIsLoose
<1>3. q \in Seq(Loose) /\ Len(q) = n
  BY <1>2
<1>4. \A i \in 1..Len(q) : q[i].of < Len(p) + i
  BY <1>1, <1>2, <1>3
<1>5. p \o q \in Listing
  BY <1>3, <1>4, ListingGoesOn
<1>6. Len(p \o q) = Len(p) + n
  BY <1>3 DEF Listing
<1> QED
  BY <1>5, <1>6 DEF Walk

\* A function on 1..m is a sequence of m.
LEMMA FunctionIsSequence ==
  ASSUME NEW m \in Nat, NEW S, NEW q \in [1..m -> S]
  PROVE  q \in Seq(S) /\ Len(q) = m
OBVIOUS

\* So does walking through a list in each member: a part comes after its member.
LEMMA NestIsListing ==
  ASSUME NEW p \in Listing, NEW n \in Nat, NEW k \in Nat, NEW member \in Plain,
         NEW part \in Plain
  PROVE  Nest(p, n, member, k, part) \in Listing
<1> DEFINE step(i) == LET past == (i - 1) % (k + 1)
                      IN  IF past = 0 THEN Of(Len(p), member) ELSE Of(Len(p) + i - past, part)
           q == [i \in 1..(n * (k + 1)) |-> step(i)]
<1>1. Len(p) \in Nat
  BY DEF Listing
<1>2. n * (k + 1) \in Nat
  OBVIOUS
<1>3. ASSUME NEW i \in 1..(n * (k + 1)) PROVE step(i) \in Loose /\ step(i).of < Len(p) + i
  <2>1. (i - 1) % (k + 1) \in Nat /\ (i - 1) % (k + 1) <= i - 1
    BY <1>2
  <2>2. CASE (i - 1) % (k + 1) = 0
    BY <1>1, <1>2, <2>2, OfIsLoose
  <2>3. CASE (i - 1) % (k + 1) # 0
    <3>1. Len(p) + i - ((i - 1) % (k + 1)) \in Nat
      BY <1>1, <1>2, <2>1
    <3> QED
      BY <1>1, <1>2, <2>1, <2>3, <3>1, OfIsLoose
  <2> QED
    BY <2>2, <2>3
<1>4. q \in Seq(Loose) /\ Len(q) = n * (k + 1)
  <2>1. q \in [1..(n * (k + 1)) -> Loose]
    BY <1>3
  <2> QED
    BY <1>2, <2>1, FunctionIsSequence
<1>5. \A i \in 1..Len(q) : q[i].of < Len(p) + i
  BY <1>3, <1>4
<1>6. p \o q \in Listing
  BY <1>4, <1>5, ListingGoesOn
<1> QED
  BY <1>6 DEF Nest

\* Two sequences in a row.
LEMMA Joined ==
  ASSUME NEW S, NEW p \in Seq(S), NEW q \in Seq(S)
  PROVE  p \o q \in Seq(S) /\ Len(p \o q) = Len(p) + Len(q)
OBVIOUS

\* What is found where in two sequences in a row.
LEMMA JoinedAt ==
  ASSUME NEW S, NEW p \in Seq(S), NEW q \in Seq(S)
  PROVE  /\ \A i \in 1..Len(p) : (p \o q)[i] = p[i]
         /\ \A i \in 1..Len(q) : (p \o q)[Len(p) + i] = q[i]
OBVIOUS

\* The beginning that nearly all commands have.
LEMMA ConnectedIsPlain == Connected \in Seq(Plain) /\ Len(Connected) = 2
<1>1. Do("check", "options") \in Plain /\ Do("connect", "Systems") \in Plain
  BY DoIsPlain DEF Kind, Resource
<1> QED
  BY <1>1 DEF Connected

\* Plans of a fixed number of steps.
LEMMA AsksAreListings ==
  ASSUME NEW q \in Seq(Plain)
  PROVE  Asks(q) \subseteq Listing /\ Connected \o q \in Listing
<1>1. Connected \o q \in Seq(Plain)
  BY ConnectedIsPlain
<1> QED
  BY <1>1, PlainIsListing DEF Asks

\* The same with one step.
LEMMA ConnectedAnd ==
  ASSUME NEW x \in Plain
  PROVE  Connected \o <<x>> \in Listing /\ Len(Connected \o <<x>>) = 3
<1>1. <<x>> \in Seq(Plain) /\ Len(<<x>>) = 1
  OBVIOUS
<1>2. Len(Connected \o <<x>>) = 2 + 1
  BY <1>1, ConnectedIsPlain, Joined
<1>3. Connected \o <<x>> \in Listing
  BY <1>1, AsksAreListings
<1> QED
  BY <1>2, <1>3

\* Lists have a natural length.
LEMMA CountsAreNatural == Counts \subseteq Nat
BY MaxMembersAssumption DEF Counts

\* Plans that walk through one list, or through lists within a list.
LEMMA WithMembersAreListings ==
  ASSUME NEW q \in Seq(Plain), NEW member \in Plain
  PROVE  WithMembers(q, member) \subseteq Listing
BY AsksAreListings, WalkIsListing, CountsAreNatural DEF WithMembers

\* With lists in the members of a list.
LEMMA WithPartsAreListings ==
  ASSUME NEW q \in Seq(Plain), NEW member \in Plain, NEW part \in Plain
  PROVE  WithParts(q, member, part) \subseteq Listing
BY AsksAreListings, NestIsListing, CountsAreNatural DEF WithParts

\* Steps that are no wait, as the commands write them.
LEMMA RequestsArePlain ==
  \A r \in Resource : /\ Get(r) \in Plain /\ Read(r) \in Plain
                       /\ Patch(r) \in Plain /\ Post(r) \in Plain /\ Post(r).do = "post"
<1> TAKE r \in Resource
<1>1. /\ Do("get", r) \in Plain /\ Do("read", r) \in Plain /\ Do("patch", r) \in Plain
      /\ Do("post", r) \in Plain
  BY DoIsPlain DEF Kind
<1>2. Do("post", r).do = "post"
  BY DEF Do
<1> QED
  BY <1>1, <1>2 DEF Get, Read, Patch, Post

\* The queries of get_* that read a fixed number of resources.
LEMMA SingleQueriesAreListings ==
  /\ getbiosresult \subseteq Listing /\ getpwrcap \subseteq Listing
  /\ gettrap \subseteq Listing /\ getvnc \subseteq Listing /\ gettime \subseteq Listing
  /\ getproduct \subseteq Listing /\ getsensor \subseteq Listing
  /\ gethealth \subseteq Listing /\ getmgmtport \subseteq Listing
<1>1. Do("trust", "EthernetInterfaces") \in Plain
  BY DoIsPlain DEF Kind, Resource
<1>2. /\ <<Get("Bios")>> \in Seq(Plain) /\ <<Get("Power")>> \in Seq(Plain)
      /\ <<Get("SnmpService")>> \in Seq(Plain) /\ <<Get("VncService")>> \in Seq(Plain)
      /\ <<Get("Manager")>> \in Seq(Plain)
      /\ <<Get("System"), Get("Power")>> \in Seq(Plain)
      /\ <<Get("ThresholdSensors"), Get("DiscreteSensors")>> \in Seq(Plain)
      /\ <<Get("System"), Get("Chassis"), Get("Thermal")>> \in Seq(Plain)
      /\ <<Do("trust", "EthernetInterfaces"), Get("EthernetInterface")>> \in Seq(Plain)
  BY <1>1, RequestsArePlain DEF Resource
<1> QED
  BY <1>2, AsksAreListings
     DEF getbiosresult, getpwrcap, gettrap, getvnc, gettime, getproduct, getsensor, gethealth,
         getmgmtport

\* Those that walk through a list.
LEMMA ListQueriesAreListings ==
  /\ getoverallpowerstatus \subseteq Listing
  /\ getcpu \subseteq Listing /\ getmemory \subseteq Listing /\ getraid \subseteq Listing
  /\ getuser \subseteq Listing /\ geteventsub \subseteq Listing /\ getnic \subseteq Listing
<1>1. /\ Do("check", "options") \in Plain /\ Do("connect2", "Systems") \in Plain
      /\ Get("System") \in Plain
  BY DoIsPlain, RequestsArePlain DEF Kind, Resource
<1>2. <<Do("check", "options"), Do("connect2", "Systems"), Get("System")>> \in Listing
  <2>1. <<Do("check", "options"), Do("connect2", "Systems"), Get("System")>> \in Seq(Plain)
    BY <1>1
  <2> QED
    BY <2>1, PlainIsListing
<1>3. /\ <<Get("System"), Get("Power"), Get("Processors")>> \in Seq(Plain)
      /\ <<Get("System"), Get("Power"), Get("Memory")>> \in Seq(Plain)
      /\ <<Get("System"), Get("Storages")>> \in Seq(Plain)
      /\ <<Get("Accounts")>> \in Seq(Plain) /\ <<Get("Subscriptions")>> \in Seq(Plain)
      /\ <<Get("Chassis"), Get("NetworkAdapters")>> \in Seq(Plain)
  BY RequestsArePlain DEF Resource
<1>4. /\ Get("Processor") \in Plain /\ Get("MemoryModule") \in Plain
      /\ Get("Storage") \in Plain /\ Get("Account") \in Plain
      /\ Get("Subscription") \in Plain /\ Get("NetworkAdapter") \in Plain
      /\ Get("NetworkPort") \in Plain
  BY RequestsArePlain DEF Resource
<1>5. getoverallpowerstatus \subseteq Listing
  BY <1>2 DEF getoverallpowerstatus
<1>6. /\ getcpu \subseteq Listing /\ getmemory \subseteq Listing /\ getraid \subseteq Listing
      /\ getuser \subseteq Listing /\ geteventsub \subseteq Listing
  BY <1>3, <1>4, WithMembersAreListings DEF getcpu, getmemory, getraid, getuser, geteventsub
<1>7. getnic \subseteq Listing
  BY <1>3, <1>4, WithPartsAreListings DEF getnic
<1> QED
  BY <1>5, <1>6, <1>7

\* The functions of the devices are read after all devices, each under its own.
LEMMA DeviceQueryIsListing == getpcie \subseteq Listing
<1> DEFINE devices(n) == Walk(Connected \o <<Do("find", "System")>>, n, Get("PCIeDevice"))
           functions(n) == [j \in 1..n |-> Of(3 + j, Get("PCIeFunction"))]
<1> SUFFICES ASSUME NEW n \in Counts PROVE devices(n) \o functions(n) \in Listing
  BY DEF getpcie
<1>1. n \in Nat
  BY CountsAreNatural
<1>2. /\ Get("PCIeDevice") \in Plain /\ Get("PCIeFunction") \in Plain
      /\ Do("find", "System") \in Plain
  BY DoIsPlain, RequestsArePlain DEF Kind, Resource
<1>3. /\ Connected \o <<Do("find", "System")>> \in Listing
      /\ Len(Connected \o <<Do("find", "System")>>) = 3
  BY <1>2, ConnectedAnd
<1>4. devices(n) \in Listing /\ Len(devices(n)) = 3 + n
  BY <1>1, <1>2, <1>3, WalkIsListing
<1>5. \A j \in 1..n : /\ Of(3 + j, Get("PCIeFunction")) \in Loose
                      /\ Of(3 + j, Get("PCIeFunction")).of = 3 + j
  BY <1>1, <1>2, OfIsLoose
<1>6. functions(n) \in Seq(Loose) /\ Len(functions(n)) = n
  BY <1>1, <1>5
<1>7. \A i \in 1..Len(functions(n)) : functions(n)[i].of < Len(devices(n)) + i
  BY <1>1, <1>4, <1>5, <1>6
<1> QED
  BY <1>4, <1>6, <1>7, ListingGoesOn

\* getservice reads the SSL settings after the protocols.
LEMMA ServiceQueryIsListing == getservice \subseteq Listing
<1>1. /\ Do("find", "NetworkProtocol") \in Plain /\ Get("KvmService") \in Plain
      /\ Get("VirtualMedia") \in Plain
  BY DoIsPlain, RequestsArePlain DEF Kind, Resource
<1>2. Oem("reply", Do("find", "NetworkProtocol")) \in Plain
  BY <1>1, OemIsPlain
<1>3. /\ <<>> \in Seq(Plain) /\ <<Get("KvmService")>> \in Seq(Plain)
      /\ <<Get("VirtualMedia")>> \in Seq(Plain)
      /\ <<Get("KvmService"), Get("VirtualMedia")>> \in Seq(Plain)
      /\ <<Get("VirtualMedia"), Get("KvmService")>> \in Seq(Plain)
      /\ <<Oem("reply", Do("find", "NetworkProtocol"))>> \in Seq(Plain)
  BY <1>1, <1>2
<1>4. ASSUME NEW m \in Seq(Plain)
      PROVE  Asks(<<Oem("reply", Do("find", "NetworkProtocol"))>> \o m) \subseteq Listing
  <2>1. <<Oem("reply", Do("find", "NetworkProtocol"))>> \o m \in Seq(Plain)
    BY <1>3
  <2> QED
    BY <2>1, AsksAreListings
<1> QED
  BY <1>3, <1>4 DEF getservice

\* The queries that look at the HTTP status only.
LEMMA StatusQueriesAreListings ==
  /\ getfan \subseteq Listing /\ gettemp \subseteq Listing /\ getvolt \subseteq Listing
  /\ getsysboot \subseteq Listing /\ getbiossetting \subseteq Listing
  /\ getpsu \subseteq Listing /\ getip \subseteq Listing /\ gethealthevent \subseteq Listing
  /\ getpdisk \subseteq Listing /\ gettaskstate \subseteq Listing
  /\ getldisk \subseteq Listing /\ getcapabilities \subseteq Listing
<1>1. /\ <<Read("Thermal")>> \in Seq(Plain) /\ <<Read("Power")>> \in Seq(Plain)
      /\ <<Read("System")>> \in Seq(Plain) /\ <<Read("BiosSettings")>> \in Seq(Plain)
      /\ <<Read("Power"), Read("Chassis")>> \in Seq(Plain)
      /\ <<Read("EthernetInterfaces"), Read("EthernetInterface")>> \in Seq(Plain)
      /\ <<Read("LogServices"), Read("LogService")>> \in Seq(Plain)
      /\ <<Read("Chassis")>> \in Seq(Plain) /\ <<Read("Tasks")>> \in Seq(Plain)
      /\ <<Read("Storages")>> \in Seq(Plain)
  BY RequestsArePlain DEF Resource
<1>2. /\ Read("Drive") \in Plain /\ Read("Task") \in Plain /\ Read("Volumes") \in Plain
      /\ Read("Volume") \in Plain /\ Do("check", "options") \in Plain
  BY DoIsPlain, RequestsArePlain DEF Kind, Resource
<1>3. /\ getfan \subseteq Listing /\ gettemp \subseteq Listing /\ getvolt \subseteq Listing
      /\ getsysboot \subseteq Listing /\ getbiossetting \subseteq Listing
      /\ getpsu \subseteq Listing /\ getip \subseteq Listing /\ gethealthevent \subseteq Listing
  BY <1>1, AsksAreListings
     DEF getfan, gettemp, getvolt, getsysboot, getbiossetting, getpsu, getip, gethealthevent
<1>4. getpdisk \subseteq Listing /\ gettaskstate \subseteq Listing
  BY <1>1, <1>2, WithMembersAreListings DEF getpdisk, gettaskstate
<1>5. getldisk \subseteq Listing
  BY <1>1, <1>2, WithPartsAreListings DEF getldisk
<1>6. getcapabilities \subseteq Listing
  <2>1. <<Do("check", "options")>> \in Seq(Plain)
    BY <1>2
  <2> QED
    BY <2>1, PlainIsListing DEF getcapabilities
<1> QED
  BY <1>3, <1>4, <1>5, <1>6

\* getfw asks a backplane for its location; getbios may write a file.
LEMMA FirmwareAndBiosAreListings == getfw \subseteq Listing /\ getbios \subseteq Listing
<1>1. /\ Read("FirmwareInventory") \in Plain /\ Get("Firmware") \in Plain
      /\ Get("RelatedItem") \in Plain /\ Read("Bios") \in Plain
      /\ Do("checkfile", "file") \in Plain /\ Do("save", "file") \in Plain
      /\ Do("connect", "Systems") \in Plain
  BY DoIsPlain, RequestsArePlain DEF Kind, Resource
<1>2. /\ <<Read("FirmwareInventory")>> \in Seq(Plain) /\ <<Read("Bios")>> \in Seq(Plain)
      /\ <<Do("checkfile", "file")>> \in Seq(Plain)
      /\ <<Do("connect", "Systems")>> \in Seq(Plain)
      /\ <<Read("Bios"), Do("save", "file")>> \in Seq(Plain)
  BY <1>1
<1>3. getfw \subseteq Listing
  <2>1. Connected \o <<Read("FirmwareInventory")>> \in Listing
    BY <1>2, AsksAreListings
  <2> SUFFICES ASSUME NEW n \in Counts, NEW k \in {0, 1}
               PROVE  Nest(Connected \o <<Read("FirmwareInventory")>>, n, Get("Firmware"), k,
                           Get("RelatedItem")) \in Listing
    BY DEF getfw
  <2> QED
    BY <1>1, <2>1, NestIsListing, CountsAreNatural
<1>4. Tail(Connected) = <<Do("connect", "Systems")>>
  BY DEF Connected
<1>5. <<Do("checkfile", "file")>> \o Tail(Connected) \o <<Read("Bios"), Do("save", "file")>>
        \in Listing
  <2>1. <<Do("checkfile", "file")>> \o Tail(Connected) \o <<Read("Bios"), Do("save", "file")>>
          \in Seq(Plain)
    BY <1>2, <1>4, Joined
  <2> QED
    BY <2>1, PlainIsListing
<1>6. Asks(<<Read("Bios")>>) \subseteq Listing
  BY <1>2, AsksAreListings
<1> QED
  BY <1>3, <1>5, <1>6 DEF getbios

\* The commands that change something with a fixed number of requests.
LEMMA ChangesAreListings ==
  /\ settimezone \subseteq Listing /\ setvnc \subseteq Listing
  /\ settrapcom \subseteq Listing /\ settrapdest \subseteq Listing
  /\ setsysboot \subseteq Listing /\ setbios \subseteq Listing
  /\ locatedisk \subseteq Listing /\ setfan \subseteq Listing
  /\ powercontrol \subseteq Listing /\ resetbmc \subseteq Listing
  /\ restorebios \subseteq Listing /\ restorebmc \subseteq Listing
  /\ clearsel \subseteq Listing /\ locateserver \subseteq Listing
  /\ setip \subseteq Listing /\ setvlan \subseteq Listing
  /\ setadaptiveport \subseteq Listing
<1>1. /\ Do("find", "LogServices") \in Plain /\ Do("trust", "EthernetInterfaces") \in Plain
      /\ Do("find", "EthernetInterfaces") \in Plain
      /\ Do("choose", "EthernetInterface") \in Plain
  BY DoIsPlain DEF Kind, Resource
<1>2. /\ Patch("Thermal") \in Plain /\ Post("Manager.RestoreFactory") \in Plain
      /\ Post("Chassis.ControlIndicatorLED") \in Plain /\ Patch("EthernetInterface") \in Plain
      /\ Post("LogService.ClearLog") \in Plain
  BY RequestsArePlain DEF Resource
<1>3. /\ Oem("payload", Patch("Thermal")) \in Plain
      /\ Oem("url", Post("Manager.RestoreFactory")) \in Plain
      /\ Oem("url", Post("Chassis.ControlIndicatorLED")) \in Plain
      /\ Oem("reply", Do("choose", "EthernetInterface")) \in Plain
      /\ Oem("payload", Patch("EthernetInterface")) \in Plain
  BY <1>1, <1>2, OemIsPlain
<1>4. /\ <<Patch("Manager")>> \in Seq(Plain) /\ <<Patch("VncService")>> \in Seq(Plain)
      /\ <<Patch("SnmpService")>> \in Seq(Plain) /\ <<Patch("System")>> \in Seq(Plain)
      /\ <<Patch("BiosSettings")>> \in Seq(Plain) /\ <<Patch("Drive")>> \in Seq(Plain)
      /\ <<Patch("Chassis")>> \in Seq(Plain)
      /\ <<Post("ComputerSystem.Reset")>> \in Seq(Plain)
      /\ <<Post("Manager.Reset")>> \in Seq(Plain) /\ <<Post("Bios.ResetBios")>> \in Seq(Plain)
  BY RequestsArePlain DEF Resource
<1>5. /\ <<Oem("payload", Patch("Thermal"))>> \in Seq(Plain)
      /\ <<Oem("url", Post("Manager.RestoreFactory"))>> \in Seq(Plain)
      /\ <<Oem("url", Post("Chassis.ControlIndicatorLED"))>> \in Seq(Plain)
      /\ <<Do("find", "LogServices"), Post("LogService.ClearLog")>> \in Seq(Plain)
      /\ EthernetInterface \in Seq(Plain)
      /\ <<Do("find", "EthernetInterfaces"), Oem("reply", Do("choose", "EthernetInterface")),
           Oem("payload", Patch("EthernetInterface"))>> \in Seq(Plain)
  BY <1>1, <1>2, <1>3 DEF EthernetInterface
<1> QED
  BY <1>4, <1>5, AsksAreListings
     DEF settimezone, setvnc, settrapcom, settrapdest, setsysboot, setbios, locatedisk, setfan,
         powercontrol, resetbmc, restorebios, restorebmc, clearsel, locateserver, setip, setvlan,
         setadaptiveport

\* setservice changes an SSL setting, a protocol, or both.
LEMMA ServiceChangeIsListing == setservice \subseteq Listing
<1> DEFINE ssl == {<<>>, <<Patch("KvmService")>>, <<Oem("payload", Patch("VirtualMedia"))>>}
           protocol == {<<>>, <<Patch("NetworkProtocol")>>,
                        <<Oem("payload", Patch("NetworkProtocol"))>>}
<1>1. /\ Patch("KvmService") \in Plain /\ Patch("VirtualMedia") \in Plain
      /\ Patch("NetworkProtocol") \in Plain
  BY RequestsArePlain DEF Resource
<1>2. /\ Oem("payload", Patch("VirtualMedia")) \in Plain
      /\ Oem("payload", Patch("NetworkProtocol")) \in Plain
  BY <1>1, OemIsPlain
<1>3. /\ <<>> \in Seq(Plain) /\ <<Patch("KvmService")>> \in Seq(Plain)
      /\ <<Oem("payload", Patch("VirtualMedia"))>> \in Seq(Plain)
      /\ <<Patch("NetworkProtocol")>> \in Seq(Plain)
      /\ <<Oem("payload", Patch("NetworkProtocol"))>> \in Seq(Plain)
  BY <1>1, <1>2
<1>4. \A s \in ssl, p \in protocol : s \in Seq(Plain) /\ p \in Seq(Plain)
  BY <1>3
<1>5. ASSUME NEW s \in Seq(Plain), NEW p \in Seq(Plain) PROVE Asks(s \o p) \subseteq Listing
  <2>1. s \o p \in Seq(Plain)
    OBVIOUS
  <2> QED
    BY <2>1, AsksAreListings
<1> SUFFICES ASSUME NEW s \in ssl, NEW p \in protocol PROVE Asks(s \o p) \subseteq Listing
  BY DEF setservice
<1> QED
  BY <1>4, <1>5

\* Every deletion has its comparison before it, so that no place is beyond the
\* steps that were taken.
LEMMA SessionDeletionIsListing == delvncsession \subseteq Listing
<1> DEFINE sessions(n) == Walk(Connected \o <<Get("Sessions")>>, n, Get("Session"))
           step(i, gone) == Of(3 + i - Cardinality(gone \cap 1..i),
                               Do(IF i \in gone THEN "delete" ELSE "compare", "Session"))
           loop(n, gone) == [i \in 1..(n + Cardinality(gone)) |-> step(i, gone)]
           places(n) == {gone \in SUBSET (2..(2 * n)) :
                           \A i \in gone : i - 1 \notin gone /\ i <= n + Cardinality(gone)}
           plansOf(n) == {sessions(n) \o loop(n, gone) : gone \in places(n)}
<1>0. delvncsession = UNION {plansOf(n) : n \in Counts}
  BY Zenon DEF delvncsession
<1> SUFFICES ASSUME NEW n \in Counts PROVE plansOf(n) \subseteq Listing
  <2> HIDE DEF plansOf
  <2> QED
    BY <1>0
<1> SUFFICES ASSUME NEW gone \in places(n)
             PROVE  sessions(n) \o loop(n, gone) \in Listing
  <2> HIDE DEF sessions, loop, places
  <2> QED
    OBVIOUS
<1>1. n \in Nat
  BY CountsAreNatural
<1>2. /\ Get("Sessions") \in Plain /\ Get("Session") \in Plain
      /\ Do("delete", "Session") \in Plain /\ Do("compare", "Session") \in Plain
  BY DoIsPlain, RequestsArePlain DEF Kind, Resource
<1>3. sessions(n) \in Listing /\ Len(sessions(n)) = 3 + n
  <2>1. /\ Connected \o <<Get("Sessions")>> \in Listing
        /\ Len(Connected \o <<Get("Sessions")>>) = 3
    BY <1>2, ConnectedAnd
  <2> QED
    BY <1>1, <1>2, <2>1, WalkIsListing
<1>4. IsFiniteSet(gone) /\ Cardinality(gone) \in Nat
  <2>1. IsFiniteSet(2..(2 * n))
    BY <1>1, FS_Interval
  <2> QED
    BY <2>1, FS_Subset, FS_CardinalityType
<1>5. ASSUME NEW i \in 1..(n + Cardinality(gone))
      PROVE  step(i, gone) \in Loose /\ step(i, gone).of < Len(sessions(n)) + i
  <2> DEFINE past == Cardinality(gone \cap 1..i)
  <2>1. past \in 0..i
    <3>1. IsFiniteSet(1..i) /\ Cardinality(1..i) = i
      BY <1>1, <1>4, FS_Interval
    <3>2. gone \cap 1..i \subseteq 1..i
      OBVIOUS
    <3>3. past \in Nat /\ past <= Cardinality(1..i)
      BY <3>1, <3>2, FS_Subset, FS_CardinalityType
    <3> QED
      BY <1>1, <1>4, <3>1, <3>3
  <2>2. n + past >= 1
    <3>1. CASE n = 0
      <4>1. gone = {}
        BY <3>1
      <4>2. Cardinality(gone) = 0
        BY <4>1, FS_EmptySet
      <4> QED
        BY <3>1, <4>2
    <3> QED
      BY <1>1, <2>1, <3>1
  <2>3. Do(IF i \in gone THEN "delete" ELSE "compare", "Session") \in Plain
    BY <1>2
  <2>4. 3 + i - past \in Nat /\ 3 + i - past < 3 + n + i
    BY <1>1, <1>4, <2>1, <2>2
  <2> HIDE DEF past
  <2>5. Of(3 + i - past, Do(IF i \in gone THEN "delete" ELSE "compare", "Session")) \in Loose
        /\ Of(3 + i - past, Do(IF i \in gone THEN "delete" ELSE "compare", "Session")).of
             = 3 + i - past
    BY <2>3, <2>4, OfIsLoose
  <2> QED
    BY <1>3, <2>4, <2>5 DEF past
<1>6. loop(n, gone) \in Seq(Loose) /\ Len(loop(n, gone)) = n + Cardinality(gone)
  <2>1. loop(n, gone) \in [1..(n + Cardinality(gone)) -> Loose]
    BY <1>5
  <2>2. n + Cardinality(gone) \in Nat
    BY <1>1, <1>4
  <2> HIDE DEF loop
  <2> QED
    BY <2>1, <2>2, FunctionIsSequence
<1>7. \A i \in 1..Len(loop(n, gone)) : loop(n, gone)[i].of < Len(sessions(n)) + i
  BY <1>5, <1>6
<1> QED
  BY <1>3, <1>6, <1>7, ListingGoesOn

\* A task is waited for once, by the step after the request that started it.
Tasked ==
  {p \in Seq(Step) : \E k \in 2..Len(p) :
     /\ p[k] = Do("wait", "Task") /\ p[k - 1].do = "post"
     /\ \A i \in 1..Len(p) : i # k => p[i] \in Plain}

\* Such a plan satisfies the assumption on plans.
LEMMA TaskedIsFit ==
  ASSUME NEW p \in Tasked
  PROVE  Fit(p)
<1>1. PICK k \in 2..Len(p) : /\ p[k] = Do("wait", "Task") /\ p[k - 1].do = "post"
                            /\ \A i \in 1..Len(p) : i # k => p[i] \in Plain
  BY DEF Tasked
<1>2. p \in Seq(Step) /\ DOMAIN p = 1..Len(p)
  BY DEF Tasked
<1>3. p[k].of = 0 /\ k > 1
  BY <1>1, <1>2 DEF Do
<1>4. \A i \in DOMAIN p : i # k => ~Waits(p[i]) /\ p[i].do # "wait" /\ p[i].of = 0
  BY <1>1, <1>2 DEF Plain, Loose, Waits
<1>5. \A i \in DOMAIN p : p[i].of < i
  BY <1>2, <1>3, <1>4
<1>6. \A i \in DOMAIN p : p[i].do = "wait" => i > 1 /\ p[i - 1].do = "post" /\ p[i].of = 0
  BY <1>1, <1>3, <1>4
<1>7. \A i, j \in DOMAIN p : Waits(p[i]) /\ Waits(p[j]) => i = j
  BY <1>4
<1> QED
  BY <1>2, <1>5, <1>6, <1>7 DEF Fit

\* An action and the wait for its task.
LEMMA TaskIsTasked ==
  ASSUME NEW action \in Resource
  PROVE  Task(action) \in Tasked
<1> DEFINE start == Oem("url", Post(action))
           wait == Do("wait", "Task")
           p == <<start, wait>>
<1>1. Post(action) \in Plain /\ Post(action).do = "post"
  BY RequestsArePlain
<1>2. start \in Plain /\ start.do = "post"
  BY <1>1, OemIsPlain
<1>3. wait \in Step
  BY DEF Do, Step, Kind, Resource
<1>4. start \in Step
  BY <1>2 DEF Plain, Loose
<1> HIDE DEF start, wait
<1>5. p \in Seq(Step) /\ Len(p) = 2 /\ p[1] = start /\ p[2] = wait
  BY <1>3, <1>4
<1> HIDE DEF p
<1>6. /\ 2 \in 2..Len(p) /\ p[2] = Do("wait", "Task") /\ p[2 - 1].do = "post"
      /\ \A i \in 1..Len(p) : i # 2 => p[i] \in Plain
  <2>1. 2 - 1 = 1 /\ \A i \in 1..2 : i # 2 => i = 1
    OBVIOUS
  <2> QED
    BY <1>2, <1>5, <2>1 DEF wait
<1> QED
  BY <1>5, <1>6 DEF p, start, wait, Task, Tasked

\* Plain steps may come before and after.
LEMMA TaskedGoesOn ==
  ASSUME NEW p \in Tasked, NEW q \in Seq(Plain)
  PROVE  p \o q \in Tasked /\ q \o p \in Tasked
<1>1. PICK k \in 2..Len(p) : /\ p[k] = Do("wait", "Task") /\ p[k - 1].do = "post"
                            /\ \A i \in 1..Len(p) : i # k => p[i] \in Plain
  BY DEF Tasked
<1>2. p \in Seq(Step) /\ q \in Seq(Step)
  BY DEF Tasked, Plain, Loose
<1>3. p \o q \in Tasked
  <2> DEFINE r == p \o q
  <2>1. r \in Seq(Step) /\ Len(r) = Len(p) + Len(q)
    BY <1>2, Joined
  <2>2. /\ \A i \in 1..Len(p) : r[i] = p[i]
        /\ \A i \in 1..Len(q) : r[Len(p) + i] = q[i]
    BY <1>2, JoinedAt
  <2> HIDE DEF r
  <2>3. k \in 2..Len(r) /\ r[k] = p[k] /\ r[k - 1] = p[k - 1]
    BY <1>2, <2>1, <2>2
  <2>4. ASSUME NEW i \in 1..Len(r), i # k PROVE r[i] \in Plain
    <3>1. CASE i <= Len(p)
      BY <1>1, <1>2, <2>1, <2>2, <2>4, <3>1
    <3>2. CASE i > Len(p)
      <4>1. i - Len(p) \in 1..Len(q) /\ Len(p) + (i - Len(p)) = i
        BY <1>2, <2>1, <3>2
      <4>2. r[Len(p) + (i - Len(p))] = q[i - Len(p)]
        BY <2>2, <4>1
      <4> QED
        BY <4>1, <4>2
    <3> QED
      BY <1>2, <2>1, <3>1, <3>2
  <2>5. r \in Tasked
    BY <1>1, <2>1, <2>3, <2>4 DEF Tasked
  <2> QED
    BY <2>5 DEF r
<1>4. q \o p \in Tasked
  <2> DEFINE r == q \o p
             n == Len(q)
  <2>1. r \in Seq(Step) /\ Len(r) = n + Len(p) /\ n \in Nat
    BY <1>2, Joined
  <2>2. /\ \A i \in 1..Len(q) : r[i] = q[i]
        /\ \A i \in 1..Len(p) : r[n + i] = p[i]
    BY <1>2, JoinedAt
  <2> HIDE DEF r
  <2>3. n + k \in 2..Len(r) /\ r[n + k] = p[k] /\ r[n + k - 1] = p[k - 1]
    <3>1. k - 1 \in 1..Len(p) /\ n + (k - 1) = n + k - 1 /\ n + k \in 2..(n + Len(p))
      BY <1>2, <2>1
    <3>2. r[n + (k - 1)] = p[k - 1]
      BY <2>2, <3>1
    <3> QED
      BY <2>1, <2>2, <3>1, <3>2
  <2>4. ASSUME NEW i \in 1..Len(r), i # n + k PROVE r[i] \in Plain
    <3>1. CASE i <= n
      <4>1. i \in 1..Len(q)
        BY <2>1, <3>1
      <4> QED
        BY <2>2, <4>1
    <3>2. CASE i > n
      <4>1. i - n \in 1..Len(p) /\ n + (i - n) = i /\ i - n # k
        BY <1>2, <2>1, <2>4, <3>2
      <4>2. r[n + (i - n)] = p[i - n]
        BY <2>2, <4>1
      <4> QED
        BY <1>1, <4>1, <4>2
    <3> QED
      BY <2>1, <3>1, <3>2
  <2>5. r \in Tasked
    <3> HIDE DEF n
    <3> QED
      BY <1>1, <2>1, <2>3, <2>4 DEF Tasked
  <2> QED
    BY <2>5 DEF r
<1> QED
  BY <1>3, <1>4

\* The commands that start a task and wait for it.
LEMMA TasksAreTasked ==
  /\ mountvmm \subseteq Tasked /\ importbmccfg \subseteq Tasked
  /\ exportbmccfg \subseteq Tasked /\ geteventlog \subseteq Tasked
  /\ collect \subseteq Tasked
<1>1. /\ Do("upload", "file") \in Plain /\ Do("checkfile", "file") \in Plain
      /\ Do("check", "file") \in Plain /\ Do("download", "file") \in Plain
      /\ Do("find", "LogServices") \in Plain
      /\ Do("check", "options") \in Plain /\ Do("connect", "Systems") \in Plain
      /\ Get("System") \in Plain
  BY DoIsPlain, RequestsArePlain DEF Kind, Resource
<1>2. Oem("url", Do("download", "file")) \in Plain
  BY <1>1, OemIsPlain
<1>3. /\ <<Do("upload", "file")>> \in Seq(Plain) /\ <<Do("find", "LogServices")>> \in Seq(Plain)
      /\ <<Do("check", "file")>> \in Seq(Plain) /\ <<Get("System")>> \in Seq(Plain)
      /\ CheckFile \in Seq(Plain) /\ Fetch \in Seq(Plain)
      /\ <<Head(Connected)>> \in Seq(Plain) /\ Tail(Connected) \in Seq(Plain)
      /\ Connected \in Seq(Plain) /\ <<>> \in Seq(Plain)
  BY <1>1, <1>2, ConnectedIsPlain DEF CheckFile, Fetch, Connected
<1>4. /\ Task("VirtualMedia.VmmControl") \in Tasked
      /\ Task("Manager.ImportConfiguration") \in Tasked
      /\ Task("Manager.ExportConfiguration") \in Tasked
      /\ Task("LogService.CollectSel") \in Tasked /\ Task("Manager.Dump") \in Tasked
  BY TaskIsTasked DEF Resource
<1>5. mountvmm \subseteq Tasked
  BY <1>3, <1>4, TaskedGoesOn DEF mountvmm, Asks
<1>6. importbmccfg \subseteq Tasked
  BY <1>3, <1>4, TaskedGoesOn DEF importbmccfg, Asks
<1>7. exportbmccfg \subseteq Tasked
  BY <1>3, <1>4, TaskedGoesOn DEF exportbmccfg
<1>8. geteventlog \subseteq Tasked
  <2>1. Tail(Connected) \o <<Do("find", "LogServices")>> \in Seq(Plain)
    BY <1>3, Joined
  <2> QED
    BY <1>3, <1>4, <2>1, TaskedGoesOn DEF geteventlog
<1>9. collect \subseteq Tasked
  <2>1. Asks(<<Do("check", "file")>> \o Task("Manager.Dump")) \subseteq Tasked
    BY <1>3, <1>4, TaskedGoesOn DEF Asks
  <2>2. ASSUME NEW n \in {<<>>, <<Get("System")>>}
        PROVE  Asks(n \o CheckFile \o Task("Manager.Dump") \o Fetch) \subseteq Tasked
    <3>1. n \in Seq(Plain)
      BY <1>3
    <3>2. n \o CheckFile \in Seq(Plain)
      BY <1>3, <3>1, Joined
    <3> QED
      BY <1>3, <1>4, <3>2, TaskedGoesOn DEF Asks
  <2> QED
    BY <2>1, <2>2 DEF collect
<1> QED
  BY <1>5, <1>6, <1>7, <1>8, <1>9

\* download is a single request.
LEMMA DownloadsAreListings == download \subseteq Listing
<1>1. Do("download", "file") \in Plain
  BY DoIsPlain DEF Kind, Resource
<1>2. Oem("url", Do("download", "file")) \in Plain
  BY <1>1, OemIsPlain
<1>3. Fetch \in Seq(Plain)
  BY <1>2 DEF Fetch
<1> QED
  BY <1>3, AsksAreListings DEF download

\* Two steps after two steps.
LEMMA TwoAndTwo ==
  ASSUME NEW S, NEW p \in Seq(S), NEW q \in Seq(S)
  PROVE  Len(p) = 2 /\ Len(q) = 2 =>
         /\ p \o q \in Seq(S) /\ Len(p \o q) = 4
         /\ (p \o q)[1] = p[1] /\ (p \o q)[2] = p[2]
         /\ (p \o q)[3] = q[1] /\ (p \o q)[4] = q[2]
<1> DEFINE r == p \o q
<1>1. r \in Seq(S) /\ Len(r) = Len(p) + Len(q)
  BY Joined
<1>2. /\ \A i \in 1..Len(p) : r[i] = p[i]
      /\ \A i \in 1..Len(q) : r[Len(p) + i] = q[i]
  BY JoinedAt
<1> HIDE DEF r
<1> HAVE Len(p) = 2 /\ Len(q) = 2
<1>4. r[2 + 1] = q[1] /\ r[2 + 2] = q[2] /\ r[1] = p[1] /\ r[2] = p[2]
  BY <1>2
<1>5. Len(r) = 4
  BY <1>1
<1> QED
  BY <1>1, <1>4, <1>5 DEF r

\* Two steps are a sequence.
LEMMA TwoSteps ==
  ASSUME NEW S, NEW x \in S, NEW y \in S
  PROVE  /\ <<x, y>> \in Seq(S) /\ Len(<<x, y>>) = 2
         /\ <<x, y>>[1] = x /\ <<x, y>>[2] = y
OBVIOUS

\* The steps of a sequence of two.
LEMMA FirstTwo ==
  ASSUME NEW S, NEW p \in Seq(S), Len(p) = 2
  PROVE  p[1] \in S /\ p[2] \in S
OBVIOUS

\* The task that waittask waits for was started by another call.
LEMMA WaitTaskIsFit == \A p \in waittask : Fit(p)
<1> DEFINE last == Do("waittask", "Task")
           p == Connected \o <<Get("Task"), last>>
<1> SUFFICES Fit(p)
  BY DEF waittask, Asks
<1>1. Get("Task") \in Plain /\ Get("Task") \in Step
  BY RequestsArePlain DEF Resource, Plain, Loose
<1>2. last \in Step /\ last.of = 0 /\ last.do = "waittask"
  BY DEF Do, Step, Kind, Resource
<1>3. Connected \in Seq(Step) /\ Len(Connected) = 2
  BY ConnectedIsPlain DEF Plain, Loose
<1>4. Connected[1] \in Plain /\ Connected[2] \in Plain
  BY ConnectedIsPlain, FirstTwo
<1> HIDE DEF last
<1>5. /\ p \in Seq(Step) /\ Len(p) = 4 /\ p[1] = Connected[1] /\ p[2] = Connected[2]
      /\ p[3] = Get("Task") /\ p[4] = last
  <2> DEFINE q == <<Get("Task"), last>>
  <2>1. q \in Seq(Step) /\ Len(q) = 2 /\ q[1] = Get("Task") /\ q[2] = last
    BY <1>1, <1>2, TwoSteps, Zenon
  <2> HIDE DEF q
  <2>2. /\ Connected \o q \in Seq(Step) /\ Len(Connected \o q) = 4
        /\ (Connected \o q)[1] = Connected[1] /\ (Connected \o q)[2] = Connected[2]
        /\ (Connected \o q)[3] = q[1] /\ (Connected \o q)[4] = q[2]
    <3>1. Len(Connected) = 2 /\ Len(q) = 2
      BY <1>3, <2>1
    <3> QED
      BY <1>3, <2>1, <3>1, TwoAndTwo
  <2>3. p = Connected \o q
    BY DEF q
  <2> QED
    BY <2>1, <2>2, <2>3, Zenon
<1> HIDE DEF p
<1>6. \A i \in DOMAIN p : i # 4 => p[i] \in Plain
  BY <1>1, <1>4, <1>5
<1>7. \A i \in DOMAIN p : i # 4 => ~Waits(p[i]) /\ p[i].do # "wait" /\ p[i].of = 0
  BY <1>6 DEF Plain, Loose, Waits
<1>8. \A i \in DOMAIN p : p[i].of < i /\ p[i].do # "wait"
  BY <1>2, <1>5, <1>7
<1>9. \A i, j \in DOMAIN p : Waits(p[i]) /\ Waits(p[j]) => i = j
  BY <1>7
<1> QED
  BY <1>5, <1>8, <1>9 DEF Fit

\* Whatever the options of a sub-command are and however many members its
\* lists have, its plan reads a list before the members and waits once at most,
\* for a task it has started (all 58 handlers of src/src/commands that are made
\* of requests).
THEOREM CommandsAreFit == \A p \in AllPlans : Fit(p)
<1> SUFFICES ASSUME NEW p \in AllPlans PROVE Fit(p)
  OBVIOUS
<1>1. p \in Listing \/ p \in Tasked \/ p \in waittask
  BY SingleQueriesAreListings, ListQueriesAreListings, DeviceQueryIsListing,
     ServiceQueryIsListing, StatusQueriesAreListings, FirmwareAndBiosAreListings,
     ChangesAreListings, ServiceChangeIsListing, SessionDeletionIsListing, TasksAreTasked,
     DownloadsAreListings DEF AllPlans
<1> QED
  BY <1>1, ListingIsFit, TaskedIsFit, WaitTaskIsFit
=============================================================================
