------------------------- MODULE FwUpdateSafetyProofs -------------------------
(***************************************************************************)
(* The safety properties of the fwupdate workflow, for every set of        *)
(* command lines and versions and every bound on rounds and polls.  Each   *)
(* rests on a part of SafeInv, and the parts on FwInv (FwUpdateProofs).    *)
(***************************************************************************)
EXTENDS FwUpdateProofs

\* How failures, a new round and a started task change the result.
LEMMA ResultFields ==
  ASSUME result \in UtoolResult
  PROVE  /\ \A r \in WaitFailures :
              /\ r.broken = 1 /\ r.reboot = result.reboot
              /\ r.desc \in {"NULL", "failure", result.desc}
              /\ [r EXCEPT !.reboot = 1].broken = 1
              /\ [r EXCEPT !.reboot = 1].desc \in {"NULL", "failure", result.desc}
         /\ RequestFailures \subseteq WaitFailures
         /\ \A c \in {"OK", "ERR"}, d \in {"NULL", "failure", "success"} :
              /\ Broken(c, d).broken = 1 /\ Broken(c, d).desc = d
              /\ Broken(c, d).reboot = result.reboot
         /\ Cleared.broken = 0 /\ Cleared.desc = "NULL" /\ Cleared.reboot = result.reboot
         /\ StartedTask.broken = result.broken /\ StartedTask.desc = result.desc
         /\ StartedTask.reboot = result.reboot
         /\ \A d \in {"NULL", "task", "reason"} :
              /\ [result EXCEPT !.data = d].broken = result.broken
              /\ [result EXCEPT !.data = d].desc = result.desc
              /\ [result EXCEPT !.data = d].reboot = result.reboot
  BY DEF UtoolResult, Broken, Cleared, StartedTask, RequestFailures, WaitFailures

-----------------------------------------------------------------------------
\* What flashing an image changes on the BMC, and what it does not.
LEMMA FlashedForFields ==
  ASSUME TypeOK, NEW side, NEW image \in {"transition", "target"}, NEW taker \in Bmc,
         FlashedFor(side, image, taker)
  PROVE  /\ bmc'.up = taker.up /\ bmc'.version = taker.version /\ bmc'.flashed = image
         /\ bmc'.written = IF image = "target" THEN taker.written \cup {side}
                                               ELSE taker.written
         /\ bmc'.taken = taker.taken /\ bmc'.due = {}
  <1>1. PICK p \in {bmc.pending, 1} :
          bmc' = [taker EXCEPT !.flashed = image, !.pending = p, !.due = {},
                   !.written = IF image = "target" THEN @ \cup {side} ELSE @]
    BY DEF FlashedFor
  <1> QED
    BY <1>1 DEF Bmc

LEMMA FlashedFields ==
  ASSUME TypeOK, NEW image \in {"transition", "target"}, Flashed(image)
  PROVE  /\ bmc'.up = bmc.up /\ bmc'.version = bmc.version /\ bmc'.flashed = image
         /\ bmc'.written = IF image = "target" THEN bmc.written \cup {plane} ELSE bmc.written
         /\ bmc'.taken = bmc.taken /\ bmc'.due = {}
         /\ image = "target" => plane \in bmc'.written
  <1>1. bmc \in Bmc
    BY DEF TypeOK
  <1>2. FlashedFor(plane, image, bmc)
    BY DEF Flashed
  <1>3. PICK p \in {bmc.pending, 1} :
          bmc' = [bmc EXCEPT !.flashed = image, !.pending = p, !.due = {},
                   !.written = IF image = "target" THEN @ \cup {plane} ELSE @]
    BY <1>2 DEF FlashedFor
  <1> QED
    BY <1>1, <1>3 DEF Bmc

\* A BMC that takes the start command flashes the image, or it does not.
TakenEffect ==
  /\ bmc.up = 1 /\ bmc'.up = 1 /\ bmc'.version = bmc.version
  /\ bmc'.taken = bmc.taken \cup {plane} /\ bmc'.due \subseteq {plane}
  /\ \/ bmc'.flashed = bmc.flashed /\ bmc'.written = bmc.written
     \/ bmc'.flashed = "target" /\ bmc'.written = bmc.written \cup {plane}

LEMMA UpgradeTakenEffect ==
  ASSUME TypeOK, UpgradeTaken
  PROVE  TakenEffect
  <1> DEFINE taker == [bmc EXCEPT !.taken = @ \cup {plane}]
  <1>1. bmc \in Bmc /\ plane \in {1, 2}
    BY DEF TypeOK
  <1>2. bmc.taken \cup {plane} \in SUBSET {1, 2}
    BY <1>1 DEF Bmc
  <1>3. /\ taker \in Bmc /\ taker.up = bmc.up /\ taker.version = bmc.version
        /\ taker.flashed = bmc.flashed /\ taker.written = bmc.written
        /\ taker.taken = bmc.taken \cup {plane}
    BY <1>1, <1>2 DEF Bmc
  <1>4. \/ bmc' = [taker EXCEPT !.due = {}]
        \/ bmc' = [taker EXCEPT !.due = {plane}]
        \/ FlashedFor(plane, "target", taker)
    BY DEF UpgradeTaken
  <1>5. bmc.up = 1
    BY DEF UpgradeTaken
  <1> HIDE DEF taker
  <1>6. CASE \E due \in {{}, {plane}} : bmc' = [taker EXCEPT !.due = due]
    <2>1. PICK due \in {{}, {plane}} : bmc' = [taker EXCEPT !.due = due]
      BY <1>6
    <2>2. bmc'.due \subseteq {plane}
      BY <1>3, <2>1 DEF Bmc
    <2>3. /\ bmc'.up = taker.up /\ bmc'.version = taker.version /\ bmc'.taken = taker.taken
          /\ bmc'.flashed = taker.flashed /\ bmc'.written = taker.written
      BY <1>3, <2>1 DEF Bmc
    <2> QED
      BY <1>3, <1>5, <2>2, <2>3 DEF TakenEffect
  <1>7. CASE FlashedFor(plane, "target", taker)
    <2>1. /\ bmc'.up = taker.up /\ bmc'.version = taker.version /\ bmc'.taken = taker.taken
          /\ bmc'.due = {} /\ bmc'.flashed = "target"
          /\ bmc'.written = taker.written \cup {plane}
      BY <1>1, <1>3, <1>7, FlashedForFields
    <2> QED
      BY <1>3, <1>5, <2>1 DEF TakenEffect
  <1> QED
    BY <1>4, <1>6, <1>7

\* The same for the wait: it only succeeds on an image that was flashed.
LEMMA AwaitFlashFields ==
  ASSUME TypeOK, NEW image \in {"transition", "target"}, NEW r, r.broken = result.broken,
         r.desc = result.desc, r.reboot = result.reboot, AwaitFlash(image, r)
  PROVE  /\ bmc'.up = bmc.up /\ bmc'.version = bmc.version /\ bmc'.taken = bmc.taken
         /\ \/ bmc'.flashed = bmc.flashed /\ bmc'.written = bmc.written /\ bmc'.due = bmc.due
            \/ /\ bmc'.flashed = image /\ bmc'.due = {}
               /\ bmc'.written = IF image = "target" THEN bmc.written \cup {plane}
                                                     ELSE bmc.written
         /\ result'.broken = 0 => /\ result.broken = 0 /\ bmc'.flashed = image
                                  /\ image = "target" => plane \in bmc'.written
         /\ result'.reboot = result.reboot
         /\ result'.desc \in {"NULL", "failure", result.desc}
  <1>1. result \in UtoolResult
    BY DEF TypeOK
  <1>2. CASE Flashed(image) /\ result' = r /\ UNCHANGED failed
    BY <1>2, FlashedFields
  <1>3. CASE Flashed(image) /\ result' \in WaitFailures /\ WriteFailedLogEntry
    <2>1. result'.broken = 1 /\ result'.reboot = result.reboot
          /\ result'.desc \in {"NULL", "failure", result.desc}
      BY <1>1, <1>3, ResultFields
    <2> QED
      BY <2>1, <1>3, FlashedFields
  <1>4. CASE UNCHANGED bmc /\ result' \in WaitFailures /\ WriteFailedLogEntry
    BY <1>1, <1>4, ResultFields
  <1> QED
    BY <1>2, <1>3, <1>4 DEF AwaitFlash

\* Nothing is flashed, and no upgrade is taken or dropped.
Untouched ==
  /\ bmc'.flashed = bmc.flashed /\ bmc'.written = bmc.written
  /\ bmc'.taken = bmc.taken /\ bmc'.due = bmc.due

\* What a call of a stage function leaves alone, and what its success means.
StageEffect ==
  /\ pc = "call" /\ pc' = "returned" /\ UNCHANGED <<opt, stage, after, plane, lost>>
  /\ bmc'.up = bmc.up /\ bmc'.version = bmc.version
  /\ bmc' # bmc => bmc.up = 1 /\ stage \in Target \cup Transit
  /\ \/ Untouched
     \/ /\ bmc'.flashed = "target" /\ bmc'.written = bmc.written \cup {plane}
        /\ bmc'.taken = bmc.taken /\ bmc'.due = {}
        /\ stage = "download" \/ (stage = "upgrade" /\ ~Skips)
     \/ /\ bmc'.flashed = "transition" /\ bmc'.written = bmc.written
        /\ bmc'.taken = bmc.taken /\ bmc'.due = {} /\ stage = "upgradeT"
     \/ TakenEffect /\ stage = "upgrade" /\ Eq258 /\ opt.file = "local"
  /\ result'.desc \in {"NULL", "failure", result.desc}
  /\ stage \in Early \cup {"version"} => result'.reboot = result.reboot
  /\ seen' = seen \/ (stage = "version" /\ seen' = bmc.version)
  /\ stage # "upload" => sent' = sent
  /\ GoesOn' => /\ stage = "version"  => seen' = bmc.version
                /\ stage = "upload"   => sent' = Transport
                /\ stage = "upgradeT" => bmc'.flashed = "transition"
                /\ stage = "upgrade"  => plane \in Handled' \/ Skips

LEMMA StageFunctionEffect ==
  ASSUME TypeOK, ControlInv, StageFunction
  PROVE  StageEffect
  <1>t. result \in UtoolResult /\ bmc \in Bmc
    BY DEF TypeOK
  <1>g. pc = "call" => result.broken = 0
    BY DEF ControlInv, GoesOn
  <1>1. CASE CreateSession \/ GetProductSn \/ CreateLogFile \/ GetBmcVersion
    <2>1. /\ pc = "call" /\ pc' = "returned" /\ UNCHANGED <<opt, stage, after, plane, lost>>
          /\ UNCHANGED bmc /\ sent' = sent
          /\ stage \in {"session", "sn", "logfile", "version"}
      BY <1>1 DEF CreateSession, GetProductSn, CreateLogFile, GetBmcVersion, Calling, Return, facts
    <2>2. \/ result' = result \/ result' \in WaitFailures
          \/ result' = Broken("OK", result.desc)
          \/ result' = [Broken("OK", result.desc) EXCEPT !.data = "reason"]
      BY <1>1, <1>t, ResultFields DEF CreateSession, GetProductSn, CreateLogFile, GetBmcVersion
    <2>3. /\ result'.desc \in {"NULL", "failure", result.desc}
          /\ result'.reboot = result.reboot
      BY <2>2, <1>t, ResultFields DEF Broken, UtoolResult
    <2>4. seen' = seen \/ (stage = "version" /\ seen' = bmc.version)
      BY <1>1 DEF CreateSession, GetProductSn, CreateLogFile, GetBmcVersion, Calling, facts
    <2>5. stage = "version" /\ result'.broken = 0 => seen' = bmc.version
      <3> SUFFICES ASSUME stage = "version", seen' # bmc.version
                   PROVE  result'.broken # 0
        OBVIOUS
      <3>1. result' = Broken("OK", result.desc) \/ result' \in WaitFailures
        BY <1>1, <1>t, ResultFields
           DEF CreateSession, GetProductSn, CreateLogFile, GetBmcVersion, Calling
      <3>2. Broken("OK", result.desc).broken = 1
        BY <1>t DEF Broken, UtoolResult
      <3> QED
        BY <3>1, <3>2, <1>t, ResultFields
    <2> QED
      BY <2>1, <2>3, <2>4, <2>5 DEF StageEffect, Untouched, GoesOn, Early
  <1>2. CASE UploadLocalFile \/ UploadTransitionFile
    <2>1. /\ pc = "call" /\ pc' = "returned" /\ UNCHANGED <<opt, stage, after, plane, lost>>
          /\ seen' = seen /\ stage \in {"upload", "uploadT"}
          /\ stage # "upload" => sent' = sent
      BY <1>2 DEF UploadLocalFile, UploadTransitionFile, Calling, Return, facts
    <2>2. /\ bmc'.up = bmc.up /\ bmc'.version = bmc.version /\ Untouched
          /\ bmc' # bmc => bmc.up = 1
      BY <1>2, <1>t DEF UploadLocalFile, UploadTransitionFile, UploadFails, Untouched, Bmc
    <2>3. \/ result' = result /\ (stage = "upload" => sent' = Transport)
          \/ \E r \in RequestFailures : result' = [r EXCEPT !.reboot = 1]
      BY <1>2 DEF UploadLocalFile, UploadTransitionFile, UploadFails, Calling
    <2>4. /\ result'.desc \in {"NULL", "failure", result.desc}
          /\ stage = "upload" /\ result'.broken = 0 => sent' = Transport
      <3>1. CASE result' = result /\ (stage = "upload" => sent' = Transport)
        BY <3>1
      <3>2. CASE \E r \in RequestFailures : result' = [r EXCEPT !.reboot = 1]
        <4>1. PICK r \in WaitFailures : result' = [r EXCEPT !.reboot = 1]
          BY <3>2, <1>t, ResultFields
        <4>2. result'.broken = 1 /\ result'.desc \in {"NULL", "failure", result.desc}
          BY <4>1, <1>t, ResultFields
        <4> QED
          BY <4>2
      <3> QED
        BY <2>3, <3>1, <3>2
    <2> QED
      BY <2>1, <2>2, <2>4 DEF StageEffect, GoesOn, Early, Target, Transit
  <1>3. CASE DownloadRemoteFile
    <2>1. /\ pc = "call" /\ pc' = "returned" /\ UNCHANGED <<opt, stage, after, plane, lost>>
          /\ seen' = seen /\ sent' = sent /\ stage = "download"
      BY <1>3 DEF DownloadRemoteFile, Calling, Return, facts
    <2>2. UNCHANGED bmc \/ (bmc.up = 1 /\ Flashed("target"))
      BY <1>3 DEF DownloadRemoteFile
    <2>3. /\ bmc'.up = bmc.up /\ bmc'.version = bmc.version
          /\ \/ Untouched
             \/ /\ bmc'.flashed = "target" /\ bmc'.written = bmc.written \cup {plane}
                /\ bmc'.taken = bmc.taken /\ bmc'.due = {}
      BY <2>2, FlashedFields DEF Untouched
    <2>4. result'.desc \in {"NULL", "failure", result.desc}
      BY <1>3, <1>t, ResultFields DEF DownloadRemoteFile
    <2> QED
      BY <2>1, <2>2, <2>3, <2>4 DEF StageEffect, Early, Target
  <1>4. CASE UpgradeFirmware
    <2>1. /\ pc = "call" /\ pc' = "returned" /\ UNCHANGED <<opt, stage, after, plane, lost>>
          /\ seen' = seen /\ sent' = sent /\ stage = "upgrade"
      BY <1>4 DEF UpgradeFirmware, Calling, Return, facts
    <2>2. \/ bmc.up = 1 /\ ~Skips /\ \E r \in {result, StartedTask} : AwaitFlash("target", r)
          \/ Eq258 /\ opt.file = "local" /\ UpgradeTaken /\ result' \in {result} \cup WaitFailures
          \/ UNCHANGED bmc /\ result' \in WaitFailures
          \/ Skips /\ UNCHANGED <<result, bmc>>
      BY <1>4, <1>t, ResultFields DEF UpgradeFirmware, UpgradeFirmwareByRedfish, AwaitRemoteTask,
         FlashUploaded, UpgradeFirmwareByIpmi, Skips
    <2>3. CASE bmc.up = 1 /\ ~Skips /\ \E r \in {result, StartedTask} : AwaitFlash("target", r)
      <3>1. /\ bmc'.up = bmc.up /\ bmc'.version = bmc.version
            /\ \/ Untouched
               \/ /\ bmc'.flashed = "target" /\ bmc'.written = bmc.written \cup {plane}
                  /\ bmc'.taken = bmc.taken /\ bmc'.due = {}
            /\ result'.broken = 0 => plane \in bmc'.written
            /\ result'.desc \in {"NULL", "failure", result.desc}
        BY <2>3, <1>t, AwaitFlashFields, ResultFields DEF Untouched
      <3> QED
        BY <2>1, <2>3, <3>1 DEF StageEffect, Handled, GoesOn, Early, Target
    <2>4. CASE /\ Eq258 /\ opt.file = "local" /\ UpgradeTaken
               /\ result' \in {result} \cup WaitFailures
      <3>1. TakenEffect /\ plane \in Handled'
        BY <2>4, UpgradeTakenEffect DEF TakenEffect, Handled
      <3>2. result'.desc \in {"NULL", "failure", result.desc}
        BY <2>4, <1>t, ResultFields
      <3> QED
        BY <2>1, <2>4, <3>1, <3>2 DEF StageEffect, TakenEffect, GoesOn, Early, Target
    <2>5. CASE UNCHANGED bmc /\ result' \in WaitFailures
      BY <2>1, <2>5, <1>t, ResultFields DEF StageEffect, Untouched, GoesOn, Early, Target
    <2>6. CASE Skips /\ UNCHANGED <<result, bmc>>
      BY <2>1, <2>6 DEF StageEffect, Untouched, GoesOn, Early, Target
    <2> QED
      BY <2>2, <2>3, <2>4, <2>5, <2>6
  <1>5. CASE UpgradeTransitionFirmware
    <2>1. /\ pc = "call" /\ pc' = "returned" /\ UNCHANGED <<opt, stage, after, plane, lost>>
          /\ seen' = seen /\ sent' = sent /\ stage = "upgradeT"
      BY <1>5 DEF UpgradeTransitionFirmware, Calling, Return, facts
    <2>2. \/ bmc.up = 1 /\ AwaitFlash("transition", StartedTask)
          \/ UNCHANGED bmc /\ result' \in WaitFailures
      BY <1>5 DEF UpgradeTransitionFirmware, FlashUploaded
    <2>3. CASE bmc.up = 1 /\ AwaitFlash("transition", StartedTask)
      <3>1. /\ bmc'.up = bmc.up /\ bmc'.version = bmc.version
            /\ \/ Untouched
               \/ /\ bmc'.flashed = "transition" /\ bmc'.written = bmc.written
                  /\ bmc'.taken = bmc.taken /\ bmc'.due = {}
            /\ result'.broken = 0 => bmc'.flashed = "transition"
            /\ result'.desc \in {"NULL", "failure", result.desc}
        BY <2>3, <1>t, AwaitFlashFields, ResultFields DEF Untouched
      <3> QED
        BY <2>1, <2>3, <3>1 DEF StageEffect, GoesOn, Early, Transit
    <2>4. CASE UNCHANGED bmc /\ result' \in WaitFailures
      BY <2>1, <2>4, <1>t, ResultFields DEF StageEffect, Untouched, GoesOn, Early, Transit
    <2> QED
      BY <2>2, <2>3, <2>4
  <1> QED
    BY <1>1, <1>2, <1>3, <1>4, <1>5 DEF StageFunction

-----------------------------------------------------------------------------
\* RetryFunc calls again, asks for a restart, or leaves the stage.
RetryEffect ==
  /\ UNCHANGED <<opt, stage, plane, seen, sent, bmc>>
  /\ lost' \in {lost, lost \ {"retry"}}
  /\ result'.reboot = result.reboot /\ result'.desc \in {"NULL", result.desc}
  /\ \/ pc \in {"start", "returned", "rebooted"} /\ pc' = "call" /\ after' = after
        /\ result'.broken = 0
     \/ pc = "returned" /\ pc' = "reset" /\ after' = "retry" /\ result.reboot = 1
     \/ pc \in {"returned", "rebooted"} /\ pc' = "over" /\ after' = after
        /\ result' = result /\ (pc = "rebooted" => result.broken = 1)

LEMMA RetryFuncEffect ==
  ASSUME TypeOK, ControlInv, RetryFunc
  PROVE  RetryEffect
  <1>t. result \in UtoolResult
    BY DEF TypeOK
  <1>k. Cleared.broken = 0 /\ Cleared.reboot = result.reboot /\ Cleared.desc = "NULL"
    BY <1>t, ResultFields
  <1>1. CASE StartStage
    BY <1>1 DEF StartStage, RetryEffect, facts, ControlInv, GoesOn
  <1>2. CASE RetryNow \/ RetryAfterReboot
    BY <1>2, <1>k DEF RetryNow, RetryAfterReboot, NewRound, RetryEffect, facts
  <1>3. CASE RebootForRetry
    BY <1>3, <1>k DEF RebootForRetry, Repairable, RetryEffect, facts
  <1>4. CASE LeaveStage
    <2>1. result.broken \in {0, 1}
      BY <1>t DEF UtoolResult
    <2> QED
      BY <2>1, <1>4 DEF LeaveStage, RetryEffect, facts
  <1> QED
    BY <1>1, <1>2, <1>3, <1>4 DEF RetryFunc

\* A restart changes nothing but what is due on the BMC; it is seen when the
\* BMC is down, or a poll is lost, and done when the BMC is up again.
RebootEffect ==
  /\ InReboot /\ UNCHANGED <<opt, stage, after, plane, seen, sent>>
  /\ bmc'.up = bmc.up /\ bmc'.version = bmc.version
  /\ Untouched
  /\ bmc' # bmc => bmc.up = 1 /\ pc = "reset"
  /\ pc' \in {"shutdown", "poweron", "rebooted"}
  /\ result'.reboot = result.reboot /\ result'.desc \in {"failure", result.desc}
  /\ pc' = "poweron" => bmc' = bmc /\ (pc = "poweron" \/ bmc.up = 0 \/ after \in lost')
  /\ lost' \in {lost, lost \cup {after}}
  /\ pc' = "rebooted" /\ result'.broken = 0 => bmc' = bmc /\ pc = "poweron"

LEMMA RebootBMCEffect ==
  ASSUME TypeOK, RebootBMC
  PROVE  RebootEffect
  <1>t. result \in UtoolResult /\ bmc \in Bmc
    BY DEF TypeOK
  <1>1. CASE Reset
    <2>1. /\ bmc'.up = bmc.up /\ bmc'.version = bmc.version /\ Untouched
          /\ bmc' # bmc => bmc.up = 1
      BY <1>t, <1>1 DEF Reset, Untouched, Bmc
    <2> QED
      BY <2>1, <1>1 DEF Reset, Unmoved, RebootEffect, InReboot, facts
  <1>2. CASE SeeShutdown
    <2>1. /\ bmc.up = 0 \/ after \in lost'
          /\ lost' \in {lost, lost \cup {after}}
      BY <1>t, <1>2 DEF SeeShutdown, Bmc
    <2> QED
      BY <2>1, <1>2 DEF SeeShutdown, Unmoved, RebootEffect, Untouched, InReboot, facts
  <1>3. CASE SeePowerOn \/ PollAgain
    BY <1>3 DEF SeePowerOn, PollAgain, Unmoved, RebootEffect, Untouched, InReboot, facts
  <1>4. CASE TimeLimitExceeds
    <2>1. result'.broken = 1 /\ result'.reboot = result.reboot /\ result'.desc = "failure"
      BY <1>t, <1>4 DEF TimeLimitExceeds, Broken, UtoolResult
    <2> QED
      BY <2>1, <1>4 DEF TimeLimitExceeds, Unmoved, RebootEffect, Untouched, InReboot, facts
  <1> QED
    BY <1>1, <1>2, <1>3, <1>4 DEF RebootBMC

\* By itself the BMC starts what was flashed, and begins what it has taken.
BmcEffect ==
  /\ UNCHANGED <<opt, pc, stage, after, plane, seen, sent, result, lost>>
  /\ bmc'.written = bmc.written /\ bmc'.taken = bmc.taken
  /\ \/ bmc'.up = 0 /\ bmc'.pending = 0 /\ bmc'.flashed = "none" /\ bmc'.version = StartedVersion
        /\ bmc'.due = {}
     \/ bmc'.up = 1 /\ bmc'.pending = bmc.pending /\ bmc'.flashed = bmc.flashed
        /\ bmc'.version = bmc.version /\ bmc'.due = bmc.due

LEMMA BmcAloneEffect ==
  ASSUME TypeOK, GoDown \/ ComeUp
  PROVE  BmcEffect
  <1>t. bmc \in Bmc
    BY DEF TypeOK
  <1>1. UNCHANGED <<opt, pc, stage, after, plane, seen, sent, result, lost>>
    BY DEF GoDown, ComeUp, program, facts
  <1>2. CASE GoDown
    <2>1. PICK kept \in {{}, bmc.tmp} :
            bmc' = [bmc EXCEPT !.up = 0, !.pending = 0, !.flashed = "none", !.tmp = kept,
                               !.due = {}, !.version = StartedVersion]
      BY <1>2 DEF GoDown
    <2> QED
      BY <1>1, <1>t, <2>1 DEF BmcEffect, Bmc
  <1>3. CASE ComeUp
    BY <1>1, <1>3, <1>t DEF ComeUp, BmcEffect, Bmc
  <1> QED
    BY <1>2, <1>3

LateEffect ==
  /\ UNCHANGED <<opt, pc, stage, after, plane, seen, sent, result, lost>>
  /\ bmc.up = 1 /\ bmc'.up = 1 /\ bmc'.version = bmc.version
  /\ bmc'.flashed = "target" /\ bmc'.taken = bmc.taken /\ bmc'.due = {}
  /\ \E side \in bmc.due : bmc'.written = bmc.written \cup {side}

LEMMA BeginLateEffect ==
  ASSUME TypeOK, BeginLate
  PROVE  LateEffect
  <1>1. bmc \in Bmc /\ bmc.up = 1
    BY DEF TypeOK, BeginLate
  <1>2. UNCHANGED <<opt, pc, stage, after, plane, seen, sent, result, lost>>
    BY DEF BeginLate, program, facts
  <1>3. PICK side \in bmc.due : FlashedFor(side, "target", bmc)
    BY DEF BeginLate
  <1>4. /\ bmc'.up = bmc.up /\ bmc'.version = bmc.version /\ bmc'.flashed = "target"
        /\ bmc'.written = bmc.written \cup {side} /\ bmc'.taken = bmc.taken /\ bmc'.due = {}
    BY <1>1, <1>3, FlashedForFields
  <1> QED
    BY <1>1, <1>2, <1>4 DEF LateEffect

\* A crash leaves all as it is, but for an upgrade over IPMI that was taken.
CrashEffect ==
  /\ pc \in {"call", "over"} /\ pc' = "crashed"
  /\ UNCHANGED <<opt, stage, after, plane, seen, sent, result, lost>>
  /\ \/ UNCHANGED bmc
     \/ TakenEffect /\ stage = "upgrade" /\ Eq258 /\ opt.file = "local"

LEMMA CrashEffects ==
  ASSUME TypeOK, Crash
  PROVE  CrashEffect
  BY UpgradeTakenEffect DEF Crash, CrashEffect, Calling, AllUpgraded, Over, facts

-----------------------------------------------------------------------------
\* The workflow and the activation leave the BMC and what is known of it alone.
\* Each of their actions is a move of pc, stage, plane and after.
WorkflowEffect ==
  /\ UNCHANGED <<opt, seen, sent, lost, bmc>>
  /\ result'.reboot = result.reboot
  /\ result'.desc = "success" => pc' = "done"
  /\ pc' \in {"start", "over", "check", "reset", "shutdown", "activate", "newversion", "done"}

LEMMA WorkflowEffects ==
  ASSUME TypeOK, ControlInv, Workflow \/ Activate
  PROVE  WorkflowEffect
  <1>t. result \in UtoolResult
    BY DEF TypeOK
  <1>k. /\ \A r \in RequestFailures : r.reboot = result.reboot /\ r \in UtoolResult
        /\ Broken("OK", "failure").reboot = result.reboot
        /\ Broken("OK", "failure").desc = "failure"
    BY <1>t, ResultFields, ResultsAreTyped
  <1>1. CASE Workflow
    <2>1. UNCHANGED <<opt, seen, sent, lost, bmc>>
      BY <1>1 DEF Workflow, AcceptOptions, RejectOptions, ForgiveMissingSn, StopWorkflow,
         NextStage, VersionKnown, Refuse, StartTransition, StartTarget, ActivateTransition,
         TransitionDone, SwitchPlane, PlaneSwitched, facts
    <2>2. pc' \in {"start", "over", "check", "reset", "done"}
      BY <1>1 DEF Workflow, AcceptOptions, RejectOptions, ForgiveMissingSn, StopWorkflow,
         NextStage, VersionKnown, Refuse, StartTransition, StartTarget, ActivateTransition,
         TransitionDone, SwitchPlane, PlaneSwitched, Enter, Finish, RebootInto, program, Over
    <2>3. pc # "done"
      BY <1>1 DEF Workflow, AcceptOptions, RejectOptions, ForgiveMissingSn, StopWorkflow,
         NextStage, VersionKnown, Refuse, StartTransition, StartTarget, ActivateTransition,
         TransitionDone, SwitchPlane, PlaneSwitched, Over
    <2>4. result'.reboot = result.reboot /\ result'.desc \in {"failure", result.desc}
      BY <1>1, <1>t, <1>k DEF Workflow, AcceptOptions, RejectOptions, ForgiveMissingSn,
         StopWorkflow, NextStage, VersionKnown, Refuse, StartTransition, StartTarget,
         ActivateTransition, TransitionDone, SwitchPlane, PlaneSwitched, RebootInto, UtoolResult
    <2> QED
      BY <2>1, <2>2, <2>3, <2>4 DEF WorkflowEffect, ControlInv
  <1>2. CASE Activate
    <2>1. UNCHANGED <<opt, seen, sent, lost, bmc>>
      BY <1>2 DEF Activate, StartActivation, SkipActivation, AwaitActivation, ActivationRebooted,
         ActivationDone, ActivationFails, Elsewhere, facts
    <2>2. \/ pc' \in {"shutdown", "activate", "newversion"} /\ result' = result /\ pc # "done"
          \/ pc' = "done" /\ \E r \in RequestFailures \cup {result} : Succeed(r)
      BY <1>2 DEF Activate, StartActivation, SkipActivation, AwaitActivation, ActivationRebooted,
         ActivationDone, ActivationFails, AllUpgraded, Over, Succeed, Finish
    <2>3. result'.reboot = result.reboot
      <3> SUFFICES ASSUME NEW r \in RequestFailures \cup {result}, Succeed(r)
                   PROVE  result'.reboot = result.reboot
        BY <2>2
      <3>1. r \in UtoolResult /\ r.reboot = result.reboot
        BY <1>t, <1>k
      <3> QED
        BY <3>1 DEF Succeed, UtoolResult
    <2> QED
      BY <2>1, <2>2, <2>3 DEF WorkflowEffect, ControlInv
  <1> QED
    BY <1>1, <1>2

-----------------------------------------------------------------------------
LEMMA ControlInvIsKept ==
  ASSUME TypeOK, ControlInv, [Next]_vars
  PROVE  ControlInv'
  <1>t. opt \in Option
    BY OptionsAssumption DEF TypeOK
  <1>r. result \in UtoolResult
    BY DEF TypeOK
  <1>1. CASE RetryFunc
    BY <1>1, RetryFuncEffect DEF RetryEffect, ControlInv, Restarting, InReboot, GoesOn
  <1>2. CASE StageFunction
    BY <1>2, StageFunctionEffect DEF StageEffect, ControlInv, Restarting, InReboot
  <1>3. CASE RebootBMC
    BY <1>3, RebootBMCEffect DEF RebootEffect, ControlInv, Restarting, InReboot
  <1>4. CASE Workflow
    <2>1. WorkflowEffect
      BY <1>4, WorkflowEffects
    <2>2. stage' = "upload" => opt.file = "local"
      BY <1>4, <1>t DEF Workflow, AcceptOptions, RejectOptions, ForgiveMissingSn, StopWorkflow,
         NextStage, VersionKnown, Refuse, StartTransition, StartTarget, ActivateTransition,
         TransitionDone, SwitchPlane, PlaneSwitched, Enter, Finish, program, Following,
         FirstTargetStage, ControlInv, Over, Option
    <2>3. stage' = "download" => opt.file = "remote"
      BY <1>4, <1>t DEF Workflow, AcceptOptions, RejectOptions, ForgiveMissingSn, StopWorkflow,
         NextStage, VersionKnown, Refuse, StartTransition, StartTarget, ActivateTransition,
         TransitionDone, SwitchPlane, PlaneSwitched, Enter, Finish, program, Following,
         FirstTargetStage, ControlInv, Over, Option
    <2>4. pc' \in {"start", "check"} => result'.broken = 0
      <3> SUFFICES ASSUME pc' \in {"start", "check"} PROVE result'.broken = 0
        OBVIOUS
      <3>1. result.broken = 0 /\ result'.broken = result.broken
        BY <1>4, <1>r DEF GoesOn, UtoolResult, Workflow, AcceptOptions, RejectOptions, ForgiveMissingSn, StopWorkflow,
           NextStage, VersionKnown, Refuse, StartTransition, StartTarget, ActivateTransition,
           TransitionDone, SwitchPlane, PlaneSwitched, Enter, Finish, RebootInto, program,
           ControlInv, Over
      <3> QED
        BY <3>1
    <2>5. pc' = "check" => stage' = "version" /\ plane' = 1
      BY <1>4 DEF Workflow, AcceptOptions, RejectOptions, ForgiveMissingSn, StopWorkflow,
         NextStage, VersionKnown, Refuse, StartTransition, StartTarget, ActivateTransition,
         TransitionDone, SwitchPlane, PlaneSwitched, Enter, Finish, RebootInto, program, Over
    <2>6. Restarting' /\ after' = "dual" => stage' = "upgrade"
      BY <1>4 DEF Workflow, AcceptOptions, RejectOptions, ForgiveMissingSn, StopWorkflow,
         NextStage, VersionKnown, Refuse, StartTransition, StartTarget, ActivateTransition,
         TransitionDone, SwitchPlane, PlaneSwitched, Enter, Finish, RebootInto, program, Over,
         Restarting, InReboot
    <2> QED
      BY <2>1, <2>2, <2>3, <2>4, <2>5, <2>6 DEF WorkflowEffect, ControlInv, GoesOn
  <1>5. CASE Activate
    <2>1. WorkflowEffect
      BY <1>5, WorkflowEffects
    <2>2. /\ UNCHANGED stage /\ pc' \notin {"options", "start", "call", "check"}
          /\ Restarting' => after' = "activate"
      BY <1>5 DEF Activate, StartActivation, SkipActivation, AwaitActivation, ActivationRebooted,
         ActivationDone, ActivationFails, Succeed, Finish, Elsewhere,
         Restarting, InReboot
    <2> QED
      BY <2>1, <2>2 DEF WorkflowEffect, ControlInv
  <1>6. CASE GoDown \/ ComeUp
    BY <1>6, BmcAloneEffect DEF BmcEffect, ControlInv, Restarting, InReboot, GoesOn
  <1>7. CASE Crash \/ BeginLate
    BY <1>7, CrashEffects, BeginLateEffect
       DEF CrashEffect, LateEffect, ControlInv, Restarting, InReboot, GoesOn
  <1>8. CASE Terminated \/ UNCHANGED vars
    BY <1>8 DEF Terminated, vars, program, ControlInv, Restarting, InReboot, GoesOn
  <1> QED
    BY <1>1, <1>2, <1>3, <1>4, <1>5, <1>6, <1>7, <1>8 DEF Next, Program

-----------------------------------------------------------------------------
\* What was lost in a restart stays lost, but for the retries.
LEMMA LossIsKept ==
  ASSUME TypeOK, ControlInv, [Next]_vars
  PROVE  \A w \in Reason \ {"retry"} : w \in lost => w \in lost'
  <1>1. CASE RetryFunc \/ StageFunction \/ RebootBMC
    BY <1>1, RetryFuncEffect, StageFunctionEffect, RebootBMCEffect
       DEF RetryEffect, StageEffect, RebootEffect
  <1>2. CASE Workflow \/ Activate \/ GoDown \/ ComeUp \/ BeginLate
    BY <1>2, WorkflowEffects, BmcAloneEffect, BeginLateEffect
       DEF WorkflowEffect, BmcEffect, LateEffect
  <1>3. CASE Crash \/ Terminated \/ UNCHANGED vars
    BY <1>3 DEF Crash, Terminated, vars
  <1> QED
    BY <1>1, <1>2, <1>3 DEF Next, Program

-----------------------------------------------------------------------------
LEMMA RestartInvIsKept ==
  ASSUME TypeOK, ControlInv, RestartInv, [Next]_vars
  PROVE  RestartInv'
  <1>1. CASE RetryFunc
    BY <1>1, RetryFuncEffect DEF RetryEffect, RestartInv
  <1>2. CASE StageFunction
    BY <1>2, StageFunctionEffect DEF StageEffect, RestartInv
  <1>3. CASE RebootBMC
    BY <1>3, RebootBMCEffect DEF RebootEffect, RestartInv, GoesOn
  <1>4. CASE Workflow \/ Activate
    BY <1>4, WorkflowEffects DEF WorkflowEffect, RestartInv
  <1>5. CASE GoDown \/ ComeUp
    BY <1>5, BmcAloneEffect DEF BmcEffect, RestartInv, GoesOn
  <1>6. CASE Crash
    <2>1. pc' = "crashed" /\ (bmc' = bmc \/ bmc'.up = 1)
      BY <1>6, CrashEffects DEF CrashEffect, TakenEffect
    <2> QED
      BY <2>1 DEF RestartInv
  <1>7. CASE BeginLate
    <2>1. /\ UNCHANGED <<pc, after, lost, result>> /\ bmc'.up = 1
          /\ bmc.due # {}
      BY <1>7, BeginLateEffect DEF LateEffect
    <2> QED
      BY <2>1 DEF RestartInv, GoesOn
  <1>8. CASE Terminated \/ UNCHANGED vars
    BY <1>8 DEF Terminated, vars, program, RestartInv, GoesOn
  <1> QED
    BY <1>1, <1>2, <1>3, <1>4, <1>5, <1>6, <1>7, <1>8 DEF Next, Program

-----------------------------------------------------------------------------
\* The rule of the versions: who is accepted is eligible, and who needs no
\* transition image may take the target image directly.
LEMMA AcceptedIsEligible ==
  ASSUME opt \in Option, seen \in Int, Accepted
  PROVE  /\ opt.type \in IPMI_SUPPORT_TYPES
         /\ RestrictedTarget(opt) => Eligible(seen)
         /\ RestrictedTarget(opt) /\ ~TransitionRequired(opt, seen) => Direct(seen)
         /\ TransitionRequired(opt, seen) => TransitionRequired(opt, seen)
  BY DEF Accepted, UpgradeRefused, TransitionRequired, AsksDecision, Eligible, Direct,
     ALLOW_UPGRADE_TO_GE_639, BMC_TRANSITION_VERSION, BMC_TRANSITION_FM_VERSION, FourSegments

\* A restart starts a version that may take the target image directly, if
\* anything was flashed.
LEMMA StartedIsDirect ==
  ASSUME TypeOK, RestrictedTarget(opt), bmc.flashed # "none"
  PROVE  Direct(StartedVersion)
  <1>1. bmc.flashed \in {"transition", "target"} /\ opt \in Option
    BY OptionsAssumption DEF TypeOK, Bmc
  <1> QED
    BY <1>1 DEF StartedVersion, RestrictedTarget, Direct, Option, BMC_TRANSITION_FM_VERSION,
       BMC_TRANSITION_VERSION, NoVersion, FourSegments

LEMMA StartedIsOld ==
  ASSUME bmc.flashed = "none"
  PROVE  StartedVersion = bmc.version
  BY DEF StartedVersion

LEMMA GrantInvIsKept ==
  ASSUME TypeOK, OptionsFirst, ControlInv, GrantInv, TakenInv, OrderInv, [Next]_vars
  PROVE  GrantInv'
  <1>t. /\ opt \in Option /\ seen \in Int /\ bmc \in Bmc /\ plane \in {1, 2}
        /\ opt.file \in {"local", "remote", "bmc"}
    BY OptionsAssumption DEF TypeOK, Option
  <1>1. CASE RetryFunc
    BY <1>1, RetryFuncEffect DEF RetryEffect, GrantInv, Granted, Restarting, InReboot, Done, GoesOn
  <1>2. CASE StageFunction
    <2>1. StageEffect
      BY <1>2, StageFunctionEffect
    <2>2. (Granted' <=> Granted) /\ opt' = opt
      BY <2>1 DEF StageEffect, Granted
    <2>3. CASE Granted
      BY <2>1, <2>2, <2>3 DEF StageEffect, GrantInv
    <2>4. CASE ~Granted
      <3>1. stage \in Early \cup {"version"} /\ bmc' = bmc
        BY <2>1, <2>4 DEF StageEffect, Granted, TypeOK, Stage
      <3>2. pc' = "returned" /\ result'.reboot = 0 /\ bmc'.flashed = "none"
        BY <2>1, <2>4, <3>1 DEF StageEffect, GrantInv
      <3>3. Done("version")' => seen' = bmc'.version
        BY <2>1, <3>1 DEF StageEffect, Done
      <3> QED
        BY <2>2, <2>4, <3>2, <3>3 DEF GrantInv, Restarting, InReboot
    <2> QED
      BY <2>3, <2>4
  <1>3. CASE RebootBMC
    BY <1>3, RebootBMCEffect DEF RebootEffect, GrantInv, Granted, Restarting, InReboot
  <1>4. CASE Workflow
    <2>1. WorkflowEffect
      BY <1>4, WorkflowEffects
    <2>2. CASE Granted
      <3>1. Granted'
        BY <1>4, <1>t, <2>2 DEF OptionsFirst, Granted, Workflow, AcceptOptions, RejectOptions,
           ForgiveMissingSn, StopWorkflow, NextStage, VersionKnown, Refuse, StartTransition,
           StartTarget, ActivateTransition, TransitionDone, SwitchPlane, PlaneSwitched, Enter,
           RebootInto, program, Following, FirstTargetStage, Over, Target, Transit
      <3> QED
        BY <2>1, <2>2, <3>1 DEF WorkflowEffect, GrantInv
    <2>3. CASE ~Granted /\ pc # "check"
      <3>1. ~Restarting /\ stage \notin Target \cup Transit /\ plane = 1
        BY <1>t, <2>3 DEF GrantInv, Granted
      <3>2. /\ ~Granted' /\ UNCHANGED plane
            /\ pc' \in {"start", "check", "over", "done"}
            /\ pc' = "check" => Done("version")
            /\ pc' = "over" => stage' = "sn"
        BY <1>4, <2>3, <3>1 DEF Granted, Workflow, AcceptOptions, RejectOptions,
           ForgiveMissingSn, StopWorkflow, NextStage, VersionKnown, Refuse, StartTransition,
           StartTarget, ActivateTransition, TransitionDone, SwitchPlane, PlaneSwitched, Enter,
           Finish, RebootInto, program, Following, Over, Target, Transit, Restarting, Done
      <3> QED
        BY <2>1, <2>3, <3>1, <3>2 DEF WorkflowEffect, GrantInv, Restarting, InReboot, Done
    <2>4. CASE ~Granted /\ pc = "check"
      <3>1. Refuse \/ StartTransition \/ StartTarget
        BY <1>4, <2>4 DEF Workflow, AcceptOptions, RejectOptions, ForgiveMissingSn,
           StopWorkflow, NextStage, VersionKnown, ActivateTransition, TransitionDone,
           SwitchPlane, PlaneSwitched, Over
      <3>2. CASE Refuse
        <4>1. ~Granted' /\ pc' = "done"
          BY <2>4, <3>2 DEF Refuse, Finish, Granted
        <4> QED
          BY <2>1, <2>4, <4>1 DEF WorkflowEffect, GrantInv, Restarting, InReboot, Done
      <3>3. CASE StartTransition \/ StartTarget
        <4>1. Granted' /\ Accepted
          BY <3>3, <1>t DEF StartTransition, StartTarget, Enter, FirstTargetStage, Granted,
             Target, Transit
        <4>2. seen = bmc.version
          BY <2>4 DEF GrantInv
        <4> QED
          BY <2>1, <4>1, <4>2, <1>t, AcceptedIsEligible DEF WorkflowEffect, GrantInv
      <3> QED
        BY <3>1, <3>2, <3>3
    <2> QED
      BY <2>2, <2>3, <2>4
  <1>5. CASE Activate
    <2>1. WorkflowEffect
      BY <1>5, WorkflowEffects
    <2>2. Granted
      BY <1>5 DEF Activate, StartActivation, SkipActivation, AwaitActivation, ActivationRebooted,
         ActivationDone, ActivationFails, AllUpgraded, Over, GrantInv, Granted, Restarting, Target
    <2>3. Granted'
      BY <1>5, <2>2 DEF Activate, StartActivation, SkipActivation, AwaitActivation,
         ActivationRebooted, ActivationDone, ActivationFails, Elsewhere, Granted
    <2> QED
      BY <2>1, <2>2, <2>3 DEF WorkflowEffect, GrantInv
  <1>6. CASE GoDown \/ ComeUp
    <2>1. BmcEffect
      BY <1>6, BmcAloneEffect
    <2>2. bmc'.version \in {bmc.version, StartedVersion}
      BY <2>1 DEF BmcEffect
    <2>3. CASE Granted
      <3>1. RestrictedTarget(opt) => Eligible(bmc'.version)
        BY <2>2, <2>3, StartedIsDirect, StartedIsOld DEF GrantInv, Eligible
      <3> QED
        BY <2>1, <2>3, <3>1 DEF BmcEffect, GrantInv, Granted
    <2>4. CASE ~Granted
      <3>1. bmc'.version = bmc.version /\ bmc'.flashed = "none"
        BY <2>1, <2>4, StartedIsOld DEF BmcEffect, GrantInv
      <3> QED
        BY <2>1, <2>4, <3>1 DEF BmcEffect, GrantInv, Granted, Restarting, InReboot, Done, GoesOn
    <2> QED
      BY <2>3, <2>4
  <1>7. CASE Crash
    BY <1>7, CrashEffects DEF CrashEffect, TakenEffect, GrantInv, Granted, Restarting, InReboot,
       Done, Target
  <1>9. CASE BeginLate
    <2>1. LateEffect
      BY <1>9, BeginLateEffect
    <2>2. Granted
      BY <1>t, <2>1 DEF LateEffect, TakenInv, OrderInv, Handled, Granted, Target
    <2> QED
      BY <2>1, <2>2 DEF LateEffect, GrantInv, Granted
  <1>8. CASE Terminated \/ UNCHANGED vars
    BY <1>8 DEF Terminated, vars, program, facts, GrantInv, Granted, Restarting, InReboot, Done,
       GoesOn
  <1> QED
    BY <1>1, <1>2, <1>3, <1>4, <1>5, <1>6, <1>7, <1>8, <1>9 DEF Next, Program

-----------------------------------------------------------------------------
LEMMA TransitInvIsKept ==
  ASSUME TypeOK, OptionsFirst, ControlInv, RestartInv, GrantInv, TransitInv, TakenInv, [Next]_vars,
         "transition" \notin lost, RestrictedTarget(opt)
  PROVE  TransitInv'
  <1>t. /\ opt \in Option /\ seen \in Int /\ bmc \in Bmc /\ plane \in {1, 2}
        /\ opt.file \in {"local", "remote", "bmc"}
    BY OptionsAssumption DEF TypeOK, Option
  <1>1. CASE RetryFunc
    BY <1>1, RetryFuncEffect DEF RetryEffect, TransitInv, Restarting, InReboot, Done, GoesOn
  <1>2. CASE StageFunction
    <2>1. StageEffect
      BY <1>2, StageFunctionEffect
    <2>2. Done("upgradeT")' => bmc'.flashed = "transition"
      BY <2>1 DEF StageEffect, Done
    <2>3. /\ plane' = plane /\ stage' = stage /\ bmc'.version = bmc.version
          /\ ~Restarting'
      BY <2>1 DEF StageEffect, Restarting, InReboot
    <2> QED
      BY <2>2, <2>3 DEF TransitInv
  <1>3. CASE RebootBMC
    <2>1. /\ UNCHANGED <<stage, after, plane>> /\ InReboot /\ pc' \notin {"returned", "over"}
          /\ bmc'.version = bmc.version /\ bmc'.flashed = bmc.flashed
      BY <1>3, RebootBMCEffect DEF RebootEffect, Untouched
    <2>2. Direct(bmc.version)' <=> Direct(bmc.version)
      BY <2>1 DEF Direct
    <2> QED
      BY <2>1, <2>2 DEF TransitInv, Restarting, Done
  <1>4. CASE Workflow
    <2>1. WorkflowEffect
      BY <1>4, WorkflowEffects
    <2>2. CASE AcceptOptions \/ RejectOptions \/ ForgiveMissingSn \/ StopWorkflow \/ Refuse
      <3>1. /\ stage' \in {stage, "session"} /\ plane' = plane
            /\ pc' \in {"start", "done"} \/ (pc' = "over" /\ stage' = "sn")
        BY <2>2 DEF AcceptOptions, RejectOptions, ForgiveMissingSn, StopWorkflow, Refuse, Enter,
           Finish, program, Over
      <3> QED
        BY <2>1, <3>1 DEF WorkflowEffect, TransitInv, Restarting, InReboot, Done, Target
    <2>3. CASE NextStage
      <3>1. /\ plane' = plane /\ pc' = "start"
            /\ stage' \in Target => stage \in Target
        BY <2>3 DEF NextStage, Enter, Following, Over, Target
      <3> QED
        BY <2>1, <3>1 DEF WorkflowEffect, TransitInv, Restarting, InReboot, Done
    <2>4. CASE VersionKnown \/ StartTransition \/ SwitchPlane
      <3>1. /\ plane' = plane
            /\ pc' \in {"start", "check"} \/ (pc' = "reset" /\ after' = "dual")
            /\ stage' \in Target => plane = 2 \/ stage \in Target
        BY <2>4, <1>t DEF VersionKnown, StartTransition, SwitchPlane, Enter, RebootInto, Over,
           Target
      <3> QED
        BY <2>1, <3>1 DEF WorkflowEffect, TransitInv, Restarting, InReboot, Done
    <2>5. CASE StartTarget
      <3>1. seen = bmc.version \/ Granted
        BY <2>5 DEF StartTarget, GrantInv
      <3>2. CASE Granted
        <4>1. FALSE
          BY <2>5, <3>2 DEF StartTarget, ControlInv, Granted, Target, Transit
        <4> QED
          BY <4>1
      <3>3. CASE seen = bmc.version
        <4>1. Direct(bmc.version)
          BY <2>5, <3>3, <1>t, AcceptedIsEligible DEF StartTarget
        <4>2. plane' = plane /\ pc' = "start"
          BY <2>5 DEF StartTarget, Enter
        <4> QED
          BY <2>1, <4>1, <4>2 DEF WorkflowEffect, TransitInv, Restarting, InReboot, Done
      <3> QED
        BY <3>1, <3>2, <3>3
    <2>6. CASE ActivateTransition
      <3>1. /\ Done("upgradeT") /\ UNCHANGED <<stage, plane>> /\ pc' = "reset"
        BY <2>6 DEF ActivateTransition, RebootInto, Over, Done
      <3> QED
        BY <2>1, <3>1 DEF WorkflowEffect, TransitInv, Done
    <2>7. CASE TransitionDone
      <3>1. bmc.flashed = "none" /\ Restarting /\ after = "transition"
        BY <2>7 DEF TransitionDone, RestartInv, Restarting
      <3>2. Direct(bmc.version)
        BY <3>1 DEF TransitInv
      <3>3. plane' = plane /\ pc' = "start"
        BY <2>7 DEF TransitionDone, Enter
      <3> QED
        BY <2>1, <3>2, <3>3 DEF WorkflowEffect, TransitInv, Restarting, InReboot, Done
    <2>8. CASE PlaneSwitched
      <3>1. stage \in Target \/ plane = 2
        BY <2>8 DEF PlaneSwitched, ControlInv, Restarting, Target
      <3> QED
        BY <2>1, <2>8, <3>1 DEF WorkflowEffect, PlaneSwitched, Enter, TransitInv, Restarting,
           InReboot, Done
    <2> QED
      BY <1>4, <2>2, <2>3, <2>4, <2>5, <2>6, <2>7, <2>8 DEF Workflow
  <1>5. CASE Activate
    <2>1. WorkflowEffect
      BY <1>5, WorkflowEffects
    <2>2. /\ UNCHANGED <<stage, plane>>
          /\ pc' \in {"activate", "newversion", "done"} \/ (pc' = "shutdown" /\ after' = "activate")
      BY <1>5 DEF Activate, StartActivation, SkipActivation, AwaitActivation, ActivationRebooted,
         ActivationDone, ActivationFails, Elsewhere, Succeed, Finish
    <2> QED
      BY <2>1, <2>2 DEF WorkflowEffect, TransitInv, Restarting, InReboot, Done
  <1>6. CASE GoDown \/ ComeUp
    <2>1. BmcEffect
      BY <1>6, BmcAloneEffect
    <2>2. Direct(bmc.version) => Direct(bmc'.version)
      BY <2>1, StartedIsDirect, StartedIsOld DEF BmcEffect
    <2>3. bmc.flashed = "transition" => bmc'.flashed = "transition" \/ Direct(bmc'.version)
      BY <2>1, StartedIsDirect DEF BmcEffect
    <2> QED
      BY <2>1, <2>2, <2>3 DEF BmcEffect, TransitInv, Restarting, InReboot, Done, GoesOn
  <1>7. CASE Crash
    BY <1>7, CrashEffects
       DEF CrashEffect, TakenEffect, TransitInv, Restarting, InReboot, Done
  <1>9. CASE BeginLate
    <2>1. FALSE
      BY <1>9, BeginLateEffect DEF LateEffect, TakenInv
    <2> QED
      BY <2>1
  <1>8. CASE Terminated \/ UNCHANGED vars
    BY <1>8 DEF Terminated, vars, program, TransitInv, Restarting, InReboot, Done, GoesOn
  <1> QED
    BY <1>1, <1>2, <1>3, <1>4, <1>5, <1>6, <1>7, <1>8, <1>9 DEF Next, Program

-----------------------------------------------------------------------------
LEMMA SentInvIsKept ==
  ASSUME TypeOK, OptionsFirst, ControlInv, SentInv, [Next]_vars, opt.file = "local"
  PROVE  SentInv'
  <1>1. CASE RetryFunc
    BY <1>1, RetryFuncEffect DEF RetryEffect, SentInv, Transport, Eq258, Done, GoesOn
  <1>2. CASE StageFunction
    <2>1. StageEffect
      BY <1>2, StageFunctionEffect
    <2>2. stage # "version" => Transport' = Transport
      BY <2>1 DEF StageEffect, Transport, Eq258
    <2> QED
      BY <2>1, <2>2 DEF StageEffect, SentInv, Done
  <1>3. CASE RebootBMC
    BY <1>3, RebootBMCEffect DEF RebootEffect, SentInv, Transport, Eq258, Done
  <1>4. CASE Workflow
    <2>1. sent' = sent /\ Transport' = Transport /\ opt' = opt
      BY <1>4, WorkflowEffects DEF WorkflowEffect, Transport, Eq258
    <2>2. stage' = "upgrade" => stage = "upgrade" \/ Done("upload")
      BY <1>4 DEF ControlInv, OptionsFirst, Workflow, AcceptOptions, RejectOptions,
         ForgiveMissingSn, StopWorkflow, NextStage, VersionKnown, Refuse, StartTransition,
         StartTarget, ActivateTransition, TransitionDone, SwitchPlane, PlaneSwitched, Enter,
         RebootInto, program, Following, FirstTargetStage, Over, Done
    <2>3. Done("upload")' => FALSE
      BY <1>4 DEF Workflow, AcceptOptions, RejectOptions,
         ForgiveMissingSn, StopWorkflow, NextStage, VersionKnown, Refuse, StartTransition,
         StartTarget, ActivateTransition, TransitionDone, SwitchPlane, PlaneSwitched, Enter,
         Finish, RebootInto, program, Over, Done
    <2> QED
      BY <2>1, <2>2, <2>3 DEF SentInv
  <1>5. CASE Activate
    <2>1. sent' = sent /\ Transport' = Transport /\ opt' = opt
      BY <1>5, WorkflowEffects DEF WorkflowEffect, Transport, Eq258
    <2>2. stage' = stage /\ pc' \notin {"returned", "over"}
      BY <1>5 DEF Activate, StartActivation, SkipActivation, AwaitActivation, ActivationRebooted,
         ActivationDone, ActivationFails, Elsewhere, Succeed, Finish
    <2> QED
      BY <2>1, <2>2 DEF SentInv, Done
  <1>6. CASE GoDown \/ ComeUp
    BY <1>6, BmcAloneEffect DEF BmcEffect, SentInv, Transport, Eq258, Done, GoesOn
  <1>7. CASE Crash \/ BeginLate
    BY <1>7, CrashEffects, BeginLateEffect
       DEF CrashEffect, LateEffect, SentInv, Transport, Eq258, Done, GoesOn
  <1>8. CASE Terminated \/ UNCHANGED vars
    BY <1>8 DEF Terminated, vars, program, facts, SentInv, Transport, Eq258, Done, GoesOn
  <1> QED
    BY <1>1, <1>2, <1>3, <1>4, <1>5, <1>6, <1>7, <1>8 DEF Next, Program

-----------------------------------------------------------------------------
\* No move of the workflow ends in success: that is left to the activation.
LEMMA WorkflowNeverSucceeds ==
  ASSUME TypeOK, ControlInv, Workflow
  PROVE  result'.desc # "success"
  <1>t. result \in UtoolResult
    BY DEF TypeOK
  <1>k. Broken("OK", "failure").desc = "failure"
    BY <1>t, ResultFields
  <1>1. pc # "done"
    BY DEF Workflow, AcceptOptions, RejectOptions, ForgiveMissingSn, StopWorkflow,
       NextStage, VersionKnown, Refuse, StartTransition, StartTarget, ActivateTransition,
       TransitionDone, SwitchPlane, PlaneSwitched, Over
  <1>2. result'.desc \in {"failure", result.desc}
    BY <1>t, <1>k DEF Workflow, AcceptOptions, RejectOptions, ForgiveMissingSn,
       StopWorkflow, NextStage, VersionKnown, Refuse, StartTransition, StartTarget,
       ActivateTransition, TransitionDone, SwitchPlane, PlaneSwitched, RebootInto, UtoolResult
  <1> QED
    BY <1>1, <1>2 DEF ControlInv

\* Before the upgrade, and on a BMC that is skipped, nothing is flashed.
LEMMA SkippedStays ==
  ASSUME TypeOK, ControlInv, WrittenInv, StageEffect, Skipped
  PROVE  Skipped'
  <1>1. opt' = opt /\ bmc'.version = bmc.version /\ seen' \in {seen, bmc.version}
    BY DEF StageEffect
  <1>2. Skips'
    BY <1>1 DEF Skipped, Skips, Eq258
  <1>3. stage # "download" /\ stage \notin Transit
    BY DEF Skipped, Skips, Eq258, ControlInv, WrittenInv, TransitionRequired,
       ALLOW_UPGRADE_TO_GE_639, BMC_USE_IPMI_VERSION
  <1>4. bmc'.flashed = bmc.flashed
    BY <1>3 DEF StageEffect, Untouched, Skipped, Skips, Transit
  <1> QED
    BY <1>1, <1>2, <1>4 DEF Skipped

LEMMA WrittenInvIsKept ==
  ASSUME TypeOK, OptionsFirst, ControlInv, GrantInv, WrittenInv, TakenInv, [Next]_vars
  PROVE  WrittenInv'
  <1>t. plane \in {1, 2} /\ opt \in Option /\ seen \in Int
    BY OptionsAssumption DEF TypeOK
  <1>1. CASE RetryFunc
    BY <1>1, RetryFuncEffect DEF RetryEffect, WrittenInv, Handled, Skips, Skipped, Eq258,
       Concluding, Restarting, InReboot, Done, GoesOn, PlanesToUpgrade
  <1>2. CASE StageFunction
    <2>1. StageEffect
      BY <1>2, StageFunctionEffect
    <2>2. /\ plane' = plane /\ stage' = stage /\ Handled \subseteq Handled'
          /\ pc' = "returned" /\ opt' = opt
      BY <2>1 DEF StageEffect, TakenEffect, Untouched, Handled
    <2>3. stage \in Transit => seen' = seen
      BY <2>1 DEF StageEffect, Transit
    <2>4. plane = 1 /\ Skips' => Skipped'
      <3>1. CASE Skips
        BY <3>1, <2>1, SkippedStays DEF WrittenInv
      <3>2. CASE plane = 1 /\ ~Skips /\ Skips'
        <4>1. stage = "version" /\ seen' = bmc.version
          BY <2>1, <3>2 DEF StageEffect, Skips, Eq258
        <4>2. bmc' = bmc /\ bmc.flashed = "none"
          BY <2>1, <3>2, <4>1 DEF StageEffect, GrantInv, Granted, Target, Transit
        <4> QED
          BY <3>2, <4>1, <4>2 DEF Skipped, Skips, Eq258
      <3> QED
        BY <3>1, <3>2
    <2>5. Done("upgrade")' => plane \in Handled' \/ Skips'
      <3>1. Done("upgrade")' => plane \in Handled' \/ Skips
        BY <2>1 DEF StageEffect, Done
      <3>2. Done("upgrade")' => seen' = seen
        BY <2>1 DEF StageEffect, Done
      <3> QED
        BY <3>1, <3>2, <2>2 DEF Skips, Eq258
    <2>6. plane = 2 => 1 \in Handled' \/ Skipped'
      BY <2>1, <2>2, SkippedStays DEF WrittenInv
    <2> QED
      BY <2>2, <2>3, <2>4, <2>5, <2>6 DEF WrittenInv, Concluding, Restarting, InReboot
  <1>3. CASE RebootBMC
    BY <1>3, RebootBMCEffect DEF RebootEffect, Untouched, WrittenInv, Handled, Skips,
       Skipped, Eq258, Concluding, Restarting, InReboot, Done, PlanesToUpgrade
  <1>4. CASE Workflow
    <2>1. WorkflowEffect /\ result'.desc # "success"
      BY <1>4, WorkflowEffects, WorkflowNeverSucceeds
    <2>2. (Skips' <=> Skips) /\ (Skipped' <=> Skipped)
          /\ UNCHANGED <<bmc, seen, opt>>
      BY <2>1 DEF WorkflowEffect, Skips, Skipped, Eq258
    <2>3. stage' \in Transit => plane' = 1 /\ TransitionRequired(opt, seen)
      <3>1. CASE StartTransition
        BY <3>1 DEF StartTransition, ControlInv
      <3>2. CASE ~StartTransition
        <4>1. stage' \in Transit => stage \in Transit /\ plane' = plane
          BY <1>4, <1>t, <3>2 DEF Workflow, AcceptOptions, RejectOptions, ForgiveMissingSn,
             StopWorkflow, NextStage, VersionKnown, Refuse, StartTarget, ActivateTransition,
             TransitionDone, SwitchPlane, PlaneSwitched, Enter, RebootInto, program, Following,
             FirstTargetStage, Over, Transit, Option
        <4> QED
          BY <4>1 DEF WrittenInv
      <3> QED
        BY <3>1, <3>2
    <2>4. plane' = plane \/ (plane' = 2 /\ Restarting /\ after = "dual")
      BY <1>4 DEF Workflow, AcceptOptions, RejectOptions, ForgiveMissingSn, StopWorkflow,
         NextStage, VersionKnown, Refuse, StartTransition, StartTarget, ActivateTransition,
         TransitionDone, SwitchPlane, PlaneSwitched, program, Restarting
    <2>5. Restarting' =>
            \/ after' = "transition"
            \/ after' = "dual" /\ plane' = 1 /\ plane = 1 /\ Done("upgrade")
      BY <1>4 DEF Workflow, AcceptOptions, RejectOptions, ForgiveMissingSn, StopWorkflow,
         NextStage, VersionKnown, Refuse, StartTransition, StartTarget, ActivateTransition,
         TransitionDone, SwitchPlane, PlaneSwitched, Enter, Finish, RebootInto, program, Over,
         Restarting, InReboot, DualNext, Done
    <2>6. ~Done("upgrade")' /\ pc' \notin {"activate", "newversion"}
      BY <1>4 DEF Workflow, AcceptOptions, RejectOptions, ForgiveMissingSn, StopWorkflow,
         NextStage, VersionKnown, Refuse, StartTransition, StartTarget, ActivateTransition,
         TransitionDone, SwitchPlane, PlaneSwitched, Enter, Finish, RebootInto, program, Over,
         Done
    <2> QED
      BY <1>t, <2>1, <2>2, <2>3, <2>4, <2>5, <2>6 DEF WrittenInv, Handled, Concluding
  <1>5. CASE Activate
    <2>1. WorkflowEffect
      BY <1>5, WorkflowEffects
    <2>2. (Skips' <=> Skips) /\ (Skipped' <=> Skipped) /\ UNCHANGED <<bmc, seen, opt>>
      BY <2>1 DEF WorkflowEffect, Skips, Skipped, Eq258
    <2>3. /\ UNCHANGED <<stage, plane>> /\ pc' \notin {"returned", "over"}
          /\ Restarting' => after' = "activate"
      BY <1>5 DEF Activate, StartActivation, SkipActivation, AwaitActivation, ActivationRebooted,
         ActivationDone, ActivationFails, Elsewhere, Succeed, Finish, Restarting, InReboot
    <2>4. Concluding \/ AllUpgraded
      BY <1>5 DEF Activate, StartActivation, SkipActivation, AwaitActivation, ActivationRebooted,
         ActivationDone, ActivationFails, Concluding, Restarting
    <2>5. AllUpgraded => PlanesToUpgrade \subseteq Handled \/ Skips
      <3> SUFFICES ASSUME AllUpgraded, ~Skips
                   PROVE  PlanesToUpgrade \subseteq Handled
        OBVIOUS
      <3>1. plane \in Handled
        BY DEF AllUpgraded, Over, WrittenInv, Done
      <3>2. opt.dual = "Dual" => plane = 2
        BY <1>t DEF AllUpgraded, DualNext
      <3>3. plane = 2 => 1 \in Handled
        BY DEF WrittenInv, Skipped
      <3> QED
        BY <1>t, <3>1, <3>2, <3>3 DEF PlanesToUpgrade
    <2> QED
      BY <2>2, <2>3, <2>4, <2>5 DEF WrittenInv, Handled, Done, PlanesToUpgrade
  <1>6. CASE GoDown \/ ComeUp
    <2>1. BmcEffect
      BY <1>6, BmcAloneEffect
    <2>2. (Skips' <=> Skips) /\ (Skipped => Skipped')
      BY <2>1, StartedIsOld DEF BmcEffect, Skips, Skipped, Eq258
    <2> QED
      BY <2>1, <2>2 DEF BmcEffect, WrittenInv, Handled, Concluding, Restarting, InReboot, Done,
         GoesOn, PlanesToUpgrade
  <1>7. CASE Crash
    <2>1. CrashEffect
      BY <1>7, CrashEffects
    <2>2. /\ (Skips' <=> Skips) /\ Handled \subseteq Handled' /\ (Skips => (Skipped' <=> Skipped))
          /\ UNCHANGED <<stage, plane, seen, opt>> /\ pc' = "crashed"
      BY <2>1 DEF CrashEffect, TakenEffect, Handled, Skips, Skipped, Eq258
    <2> QED
      BY <2>2 DEF WrittenInv, Skipped, Concluding, Restarting, InReboot, Done
  <1>8. CASE Terminated \/ UNCHANGED vars
    BY <1>8 DEF Terminated, vars, program, facts, WrittenInv, Handled, Skips, Skipped, Eq258,
       Concluding, Restarting, InReboot, Done, GoesOn, PlanesToUpgrade
  <1>9. CASE BeginLate
    <2>1. LateEffect
      BY <1>9, BeginLateEffect
    <2>2. ~Skips /\ ~Skips' /\ Handled' = Handled
      BY <2>1 DEF LateEffect, TakenInv, Handled, Skips
    <2> QED
      BY <2>1, <2>2 DEF LateEffect, WrittenInv, Skipped, Concluding, Restarting, InReboot, Done,
         GoesOn, PlanesToUpgrade
  <1> QED
    BY <1>1, <1>2, <1>3, <1>4, <1>5, <1>6, <1>7, <1>8, <1>9 DEF Next, Program

-----------------------------------------------------------------------------
\* A BMC of 2.58 is too old for an image that the rule of the versions is about.
LEMMA OldTakesUnrestricted ==
  ASSUME TypeOK, GrantInv, Granted, Eq258
  PROVE  ~RestrictedTarget(opt)
  BY DEF GrantInv, Eq258, Eligible, Direct, BMC_USE_IPMI_VERSION, BMC_TRANSITION_VERSION,
     BMC_TRANSITION_FM_VERSION, ALLOW_UPGRADE_TO_GE_639, FourSegments

LEMMA TakenInvIsKept ==
  ASSUME TypeOK, ControlInv, GrantInv, TakenInv, OrderInv, [Next]_vars
  PROVE  TakenInv'
  <1>t. plane \in {1, 2}
    BY DEF TypeOK
  <1>1. ASSUME UNCHANGED <<opt, bmc>>
        PROVE  TakenInv'
    BY <1>1 DEF TakenInv, Handled
  <1>2. ASSUME TakenEffect, stage = "upgrade", Eq258, opt.file = "local", opt' = opt
        PROVE  TakenInv'
    <2>1. opt.type \in IPMI_SUPPORT_TYPES /\ ~RestrictedTarget(opt)
      BY <1>2, OldTakesUnrestricted DEF GrantInv, Granted, Target
    <2>2. plane = 1 => 2 \notin Handled'
      BY <1>2 DEF TakenEffect, OrderInv, Handled
    <2> QED
      BY <1>t, <1>2, <2>1, <2>2 DEF TakenEffect, TakenInv
  <1>3. CASE RetryFunc \/ Workflow \/ Activate
    BY <1>1, <1>3, RetryFuncEffect, WorkflowEffects DEF RetryEffect, WorkflowEffect
  <1>4. CASE StageFunction
    <2>1. StageEffect
      BY <1>4, StageFunctionEffect
    <2>2. CASE TakenEffect /\ stage = "upgrade" /\ Eq258 /\ opt.file = "local"
      BY <1>2, <2>1, <2>2 DEF StageEffect
    <2>3. CASE ~TakenEffect
      BY <2>1, <2>3 DEF StageEffect, Untouched, TakenInv, Handled
    <2> QED
      BY <2>1, <2>2, <2>3 DEF StageEffect, Untouched, TakenInv, Handled
  <1>5. CASE RebootBMC
    BY <1>5, RebootBMCEffect DEF RebootEffect, Untouched, TakenInv, Handled
  <1>6. CASE GoDown \/ ComeUp
    BY <1>6, BmcAloneEffect DEF BmcEffect, TakenInv, Handled
  <1>7. CASE Crash
    BY <1>1, <1>2, <1>7, CrashEffects DEF CrashEffect
  <1>8. CASE BeginLate
    BY <1>8, BeginLateEffect DEF LateEffect, TakenInv, Handled
  <1>9. CASE Terminated \/ UNCHANGED vars
    BY <1>1, <1>9 DEF Terminated, vars
  <1> QED
    BY <1>3, <1>4, <1>5, <1>6, <1>7, <1>8, <1>9 DEF Next, Program

-----------------------------------------------------------------------------
LEMMA OrderInvIsKept ==
  ASSUME TypeOK, OptionsFirst, ControlInv, TakenInv, OrderInv, [Next]_vars
  PROVE  OrderInv'
  <1>t. plane \in {1, 2} /\ opt \in Option
    BY OptionsAssumption DEF TypeOK
  <1>1. CASE RetryFunc
    BY <1>1, RetryFuncEffect DEF RetryEffect, OrderInv, Handled, Restarting, InReboot
  <1>2. CASE StageFunction
    BY <1>t, <1>2, StageFunctionEffect DEF StageEffect, Untouched, TakenEffect, OrderInv, Handled,
       Restarting, InReboot
  <1>3. CASE RebootBMC
    BY <1>3, RebootBMCEffect DEF RebootEffect, Untouched, OrderInv, Handled, Restarting, InReboot
  <1>4. CASE Workflow
    <2>1. UNCHANGED <<opt, bmc>>
      BY <1>4, WorkflowEffects DEF WorkflowEffect
    <2>2. plane' = plane \/ (plane' = 2 /\ Restarting /\ after = "dual")
      BY <1>4 DEF Workflow, AcceptOptions, RejectOptions, ForgiveMissingSn, StopWorkflow,
         NextStage, VersionKnown, Refuse, StartTransition, StartTarget, ActivateTransition,
         TransitionDone, SwitchPlane, PlaneSwitched, program, Restarting
    <2>3. plane' = 1 /\ stage' \notin {"download", "upgrade"} =>
            stage \notin {"download", "upgrade"}
      BY <1>4, <1>t DEF OptionsFirst, ControlInv, OrderInv, Workflow, AcceptOptions,
         RejectOptions, ForgiveMissingSn, StopWorkflow, NextStage, VersionKnown, Refuse,
         StartTransition, StartTarget, ActivateTransition, TransitionDone, SwitchPlane,
         PlaneSwitched, Enter, RebootInto, program, Following, Over, Restarting
    <2>4. Restarting' => \/ after' = "dual" /\ opt.dual = "Dual"
                         \/ after' = "transition" /\ stage' = "upgradeT"
      BY <1>4 DEF Workflow, AcceptOptions, RejectOptions, ForgiveMissingSn, StopWorkflow,
         NextStage, VersionKnown, Refuse, StartTransition, StartTarget, ActivateTransition,
         TransitionDone, SwitchPlane, PlaneSwitched, Enter, Finish, RebootInto, program, Over,
         Restarting, InReboot, DualNext
    <2>5. Restarting' /\ after' = "dual" => plane' = 1
      BY <1>4 DEF Workflow, AcceptOptions, RejectOptions, ForgiveMissingSn, StopWorkflow,
         NextStage, VersionKnown, Refuse, StartTransition, StartTarget, ActivateTransition,
         TransitionDone, SwitchPlane, PlaneSwitched, Enter, Finish, RebootInto, program, Over,
         Restarting, InReboot, DualNext
    <2> QED
      BY <1>t, <2>1, <2>2, <2>3, <2>4, <2>5 DEF OrderInv, Handled
  <1>5. CASE Activate
    <2>1. UNCHANGED <<opt, bmc>>
      BY <1>5, WorkflowEffects DEF WorkflowEffect
    <2>2. UNCHANGED <<stage, plane>> /\ (Restarting' => after' = "activate")
      BY <1>5 DEF Activate, StartActivation, SkipActivation, AwaitActivation, ActivationRebooted,
         ActivationDone, ActivationFails, Elsewhere, Succeed, Finish, Restarting, InReboot
    <2> QED
      BY <2>1, <2>2 DEF OrderInv, Handled
  <1>6. CASE GoDown \/ ComeUp
    BY <1>6, BmcAloneEffect DEF BmcEffect, OrderInv, Handled, Restarting, InReboot
  <1>7. CASE Crash
    BY <1>t, <1>7, CrashEffects
       DEF CrashEffect, TakenEffect, OrderInv, Handled, Restarting, InReboot
  <1>8. CASE Terminated \/ UNCHANGED vars
    BY <1>8 DEF Terminated, vars, program, OrderInv, Handled, Restarting, InReboot
  <1>9. CASE BeginLate
    <2>1. LateEffect
      BY <1>9, BeginLateEffect
    <2>2. Handled' = Handled
      BY <2>1 DEF LateEffect, TakenInv, Handled
    <2> QED
      BY <2>1, <2>2 DEF LateEffect, OrderInv, Restarting, InReboot
  <1> QED
    BY <1>1, <1>2, <1>3, <1>4, <1>5, <1>6, <1>7, <1>8, <1>9 DEF Next, Program

-----------------------------------------------------------------------------
LEMMA MuteInvIsKept ==
  ASSUME TypeOK, ControlInv, MuteInv, [Next]_vars
  PROVE  MuteInv'
  <1>1. CASE RetryFunc
    BY <1>1 DEF RetryFunc, StartStage, RetryNow, RebootForRetry, RetryAfterReboot, LeaveStage,
       NewRound, Repairable, files, Restarting, InReboot, MuteInv
  <1>2. CASE StageFunction
    <2>1. UNCHANGED <<stage, mute>> /\ pc' = "returned"
      BY <1>2 DEF StageFunction, CreateSession, GetProductSn, CreateLogFile, GetBmcVersion,
         UploadLocalFile, DownloadRemoteFile, UpgradeFirmware, UploadTransitionFile,
         UpgradeTransitionFirmware, Return, files
    <2> QED
      BY <2>1 DEF MuteInv, Restarting, InReboot
  <1>3. CASE RebootBMC
    BY <1>3 DEF RebootBMC, Reset, SeeShutdown, SeePowerOn, PollAgain, TimeLimitExceeds, Unmoved,
       files, MuteInv, Restarting, InReboot
  <1>4. CASE Workflow
    BY <1>4 DEF Workflow, AcceptOptions, RejectOptions, ForgiveMissingSn, StopWorkflow, NextStage,
       VersionKnown, Refuse, StartTransition, StartTarget, ActivateTransition, TransitionDone,
       SwitchPlane, PlaneSwitched, Enter, Finish, RebootInto, Over, program, files, Following,
       MuteInv, ControlInv, Restarting, InReboot, Transit
  <1>5. CASE Activate
    BY <1>5 DEF Activate, StartActivation, SkipActivation, AwaitActivation, ActivationRebooted,
       ActivationDone, ActivationFails, AllUpgraded, Over, Succeed, Finish, Elsewhere, files,
       MuteInv, Restarting, InReboot, Transit
  <1>6. CASE GoDown \/ ComeUp \/ BeginLate \/ Terminated \/ UNCHANGED vars
    BY <1>6 DEF GoDown, ComeUp, BeginLate, Terminated, vars, program, files, MuteInv, Restarting,
       InReboot
  <1>7. CASE Crash
    BY <1>7 DEF Crash, files, MuteInv, Restarting, InReboot
  <1> QED
    BY <1>1, <1>2, <1>3, <1>4, <1>5, <1>6, <1>7 DEF Next, Program

-----------------------------------------------------------------------------
\* The command line is read once.
LEMMA OptStays ==
  ASSUME TypeOK, ControlInv, [Next]_vars
  PROVE  opt' = opt
  <1>1. CASE RetryFunc \/ StageFunction \/ RebootBMC
    BY <1>1, RetryFuncEffect, StageFunctionEffect, RebootBMCEffect
       DEF RetryEffect, StageEffect, RebootEffect
  <1>2. CASE Workflow \/ Activate \/ GoDown \/ ComeUp \/ BeginLate
    BY <1>2, WorkflowEffects, BmcAloneEffect, BeginLateEffect
       DEF WorkflowEffect, BmcEffect, LateEffect
  <1>3. CASE Crash \/ Terminated \/ UNCHANGED vars
    BY <1>3 DEF Crash, Terminated, vars
  <1> QED
    BY <1>1, <1>2, <1>3 DEF Next, Program

LEMMA SafeInvHoldsInitially ==
  ASSUME Init, FwInv
  PROVE  SafeInv
  <1>t. /\ opt \in Option /\ bmc.up = 1 /\ bmc.flashed = "none" /\ bmc.written = {}
        /\ bmc.taken = {} /\ bmc.due = {} /\ seen = 0
    BY OptionsAssumption DEF Init, NoVersion
  <1>1. /\ pc = "options" /\ stage = "session" /\ plane = 1 /\ mute = 0
        /\ result.broken = 0 /\ result.reboot = 0 /\ result.desc = "NULL"
    BY DEF Init
  <1>2. ~Restarting /\ ~Granted /\ ~Skips /\ ~Concluding /\ \A s \in Stage : ~Done(s)
    BY <1>t, <1>1 DEF Restarting, InReboot, Granted, Skips, Eq258, Concluding, Done, Target,
       Transit, BMC_USE_IPMI_VERSION
  <1>3. ControlInv /\ MuteInv /\ RestartInv
    BY <1>t, <1>1, <1>2 DEF ControlInv, MuteInv, RestartInv, GoesOn
  <1>4. GrantInv /\ TransitInv /\ WrittenInv /\ TakenInv /\ OrderInv /\ SentInv
    BY <1>t, <1>1, <1>2 DEF GrantInv, TransitInv, WrittenInv, TakenInv, OrderInv, Handled, SentInv,
       Done, Transit, Target
  <1> QED
    BY <1>3, <1>4 DEF SafeInv

LEMMA SafeInvIsKept ==
  ASSUME SafeInv, [Next]_vars
  PROVE  SafeInv'
  <1>1. TypeOK /\ OptionsFirst
    BY DEF SafeInv, FwInv
  <1>2. FwInv'
    BY FwInvIsKept DEF SafeInv
  <1>3. ControlInv' /\ MuteInv' /\ RestartInv'
    BY <1>1, ControlInvIsKept, MuteInvIsKept, RestartInvIsKept DEF SafeInv
  <1>4. GrantInv' /\ WrittenInv' /\ TakenInv' /\ OrderInv'
    BY <1>1, GrantInvIsKept, WrittenInvIsKept, TakenInvIsKept, OrderInvIsKept DEF SafeInv
  <1>5. opt' = opt
    BY <1>1, OptStays DEF SafeInv
  <1>6. TransitInv'
    <2>1. CASE "transition" \notin lost' /\ RestrictedTarget(opt)
      <3>1. "transition" \notin lost
        BY <1>1, <2>1, LossIsKept DEF SafeInv, Reason
      <3> QED
        BY <1>1, <2>1, <3>1, TransitInvIsKept DEF SafeInv
    <2>2. CASE ~("transition" \notin lost' /\ RestrictedTarget(opt))
      BY <1>5, <2>2 DEF TransitInv, RestrictedTarget
    <2> QED
      BY <2>1, <2>2
  <1>7. SentInv'
    <2>1. CASE opt.file = "local"
      BY <1>1, <2>1, SentInvIsKept DEF SafeInv
    <2>2. CASE opt.file # "local"
      BY <1>5, <2>2 DEF SentInv
    <2> QED
      BY <2>1, <2>2
  <1> QED
    BY <1>2, <1>3, <1>4, <1>6, <1>7 DEF SafeInv

\* The inductive invariant behind all that follows: what FwInv says, and where
\* the image was sent, what was flashed, which upgrades over IPMI were taken and
\* are yet to begin, what the BMC runs and what it was read.
THEOREM SafeInvariant == Spec => []SafeInv
  <1>1. Init => SafeInv
    BY InitIsSafe, SafeInvHoldsInitially
  <1>2. SafeInv /\ [Next]_vars => SafeInv'
    BY SafeInvIsKept
  <1> QED
    BY <1>1, <1>2, PTL DEF Spec

-----------------------------------------------------------------------------
\* Console and log are silenced only while the transition image is uploaded,
\* flashed and activated, whichever way that ends (lines 1637-1669).
THEOREM AlwaysMutedForTransition == Spec => []MutedOnlyForTransition
  <1>1. SafeInv => MutedOnlyForTransition
    BY DEF SafeInv, MuteInv, MutedOnlyForTransition
  <1> QED
    BY <1>1, SafeInvariant, PTL

\* "Success" is printed only when, for every plane that was asked for, the image
\* was flashed or, of a local image alone, a 2.58 BMC took the command to flash
\* it: what it makes of that command, success does not tell (lines 1055, 1132).
\* Of an image that a 2.58 BMC holds already it tells nothing (line 872).
THEOREM SuccessAlwaysUpgraded == Spec => []SuccessMeansUpgraded
  <1>1. SafeInv => SuccessMeansUpgraded
    BY DEF SafeInv, WrittenInv, TakenInv, Handled, SuccessMeansUpgraded, Concluding, Skips, Report
  <1> QED
    BY <1>1, SafeInvariant, PTL

\* UpgradeFirmware looks for a local image where it was uploaded last, although
\* the version that decides may change between the planes.
THEOREM TransportAlwaysMatches == Spec => []TransportMatches
  <1>1. SafeInv => TransportMatches
    BY DEF SafeInv, SentInv, TransportMatches
  <1> QED
    BY <1>1, SafeInvariant, PTL

\* A restart that RebootBMC reports as done, and in which every poll of a
\* running BMC was answered, has taken place with whatever was flashed before
\* it, and no upgrade taken before it begins after it, whatever went wrong in
\* the restarts before.
THEOREM RestartsHappen == Spec => []RestartHasHappened
  <1>1. SafeInv => RestartHasHappened
    BY DEF SafeInv, RestartInv, RestartHasHappened
  <1> QED
    BY <1>1, SafeInvariant, PTL

\* Who changes the BMC: a stage or a restart of a command that was accepted, or
\* the BMC itself, and then the command stays where it is.
LEMMA ChangerIsGranted ==
  ASSUME SafeInv, Next, bmc' # bmc, pc' # pc
  PROVE  Granted
  <1>1. TypeOK /\ ControlInv /\ GrantInv
    BY DEF SafeInv, FwInv
  <1>2. StageFunction \/ RebootBMC \/ Crash
    <2>1. CASE RetryFunc \/ Workflow \/ Activate
      BY <1>1, <2>1, RetryFuncEffect, WorkflowEffects DEF RetryEffect, WorkflowEffect
    <2>2. CASE GoDown \/ ComeUp \/ BeginLate
      BY <1>1, <2>2, BmcAloneEffect, BeginLateEffect DEF BmcEffect, LateEffect
    <2>3. CASE Terminated
      BY <2>3 DEF Terminated, vars
    <2> QED
      BY <2>1, <2>2, <2>3 DEF Next, Program
  <1>3. CASE StageFunction
    BY <1>1, <1>3, StageFunctionEffect DEF StageEffect, Granted
  <1>4. CASE RebootBMC
    BY <1>1, <1>4, RebootBMCEffect DEF RebootEffect, GrantInv, Restarting
  <1>5. CASE Crash
    BY <1>1, <1>5, CrashEffects DEF CrashEffect, Granted, Target
  <1> QED
    BY <1>2, <1>3, <1>4, <1>5

\* No step of the command changes the BMC before options and version have been
\* accepted: refused commands neither upload, nor flash, nor restart.
THEOREM RefusedIsLeftAlone == Spec => RefusedIsUntouched
  <1> DEFINE Spared ==
        bmc' # bmc /\ pc' # pc =>
          /\ opt.type \in IPMI_SUPPORT_TYPES
          /\ RestrictedTarget(opt) => Eligible(seen)
  <1>1. SafeInv /\ [Next]_vars => [Spared]_vars
    <2> SUFFICES ASSUME SafeInv, Next, bmc' # bmc, pc' # pc
                 PROVE  /\ opt.type \in IPMI_SUPPORT_TYPES
                        /\ RestrictedTarget(opt) => Eligible(seen)
      BY DEF vars
    <2>1. Granted /\ GrantInv
      BY ChangerIsGranted DEF SafeInv
    <2> QED
      BY <2>1 DEF GrantInv
  <1> QED
    BY <1>1, SafeInvariant, PTL DEF Spec, RefusedIsUntouched

\* Unless a poll is lost in the restart into the transition image, no BMC older
\* than 6.39 is given an image of 6.39 or later, unless it runs 6.36: the
\* transition image has been flashed and started before, on each plane.
THEOREM TargetAlwaysOnTransition == Spec => TargetOnTransition
  <1> DEFINE Prepared ==
        bmc.flashed # "target" /\ bmc'.flashed = "target" =>
          ~RestrictedTarget(opt) \/ "transition" \in lost \/ Direct(bmc.version)
  <1>1. SafeInv /\ [Next]_vars => [Prepared]_vars
    <2> SUFFICES ASSUME SafeInv, Next, bmc.flashed # "target",
                        bmc'.flashed = "target", RestrictedTarget(opt), "transition" \notin lost
                 PROVE  Direct(bmc.version)
      BY DEF vars
    <2>1. TypeOK /\ ControlInv /\ TransitInv /\ TakenInv /\ GrantInv
      BY DEF SafeInv, FwInv
    <2>2. StageFunction \/ Crash
      <3>1. CASE RetryFunc \/ Workflow \/ Activate
        BY <2>1, <3>1, RetryFuncEffect, WorkflowEffects DEF RetryEffect, WorkflowEffect
      <3>2. CASE RebootBMC \/ GoDown \/ ComeUp
        BY <2>1, <3>2, RebootBMCEffect, BmcAloneEffect DEF RebootEffect, Untouched, BmcEffect
      <3>3. CASE Terminated
        BY <3>3 DEF Terminated, vars
      <3>4. CASE BeginLate
        BY <2>1, <3>4, BeginLateEffect DEF LateEffect, TakenInv
      <3> QED
        BY <3>1, <3>2, <3>3, <3>4 DEF Next, Program
    <2>3. stage \in Target
      <3>1. CASE StageFunction
        BY <2>1, <3>1, StageFunctionEffect DEF StageEffect, Untouched, Target
      <3>2. CASE Crash
        BY <2>1, <3>2, CrashEffects DEF CrashEffect, Target
      <3> QED
        BY <2>2, <3>1, <3>2
    <2> QED
      BY <2>1, <2>3 DEF TransitInv
  <1> QED
    BY <1>1, SafeInvariant, PTL DEF Spec, TargetOnTransition

-----------------------------------------------------------------------------
\* The command implements UpdatePromise: each step is one of its actions, or
\* none.  Its rules of the versions are those of the code.
LEMMA PromisedRules ==
  /\ Promise!RestrictedTarget(opt) <=> RestrictedTarget(opt)
  /\ Promise!TransitionRequired(opt, seen) <=> TransitionRequired(opt, seen)
  /\ \A v \in Int : (Promise!Direct(v) <=> Direct(v)) /\ (Promise!Eligible(v) <=> Eligible(v))
  /\ Promise!IPMI_SUPPORT_TYPES = IPMI_SUPPORT_TYPES
  /\ Promise!Asked = PlanesToUpgrade
  BY DEF Promise!RestrictedTarget, RestrictedTarget, Promise!TransitionRequired,
     TransitionRequired, Promise!AsksDecision, AsksDecision, Promise!Direct, Direct,
     Promise!Eligible, Eligible, Promise!IPMI_SUPPORT_TYPES, IPMI_SUPPORT_TYPES,
     Promise!NoVersion, NoVersion, Promise!FourSegments, FourSegments,
     Promise!BMC_TRANSITION_VERSION, BMC_TRANSITION_VERSION,
     Promise!BMC_TRANSITION_FM_VERSION, BMC_TRANSITION_FM_VERSION,
     Promise!ALLOW_UPGRADE_TO_GE_639, ALLOW_UPGRADE_TO_GE_639, Promise!Asked, PlanesToUpgrade

\* Who is past the check is granted the update in the sense of the promise.
LEMMA PromisedGrant ==
  ASSUME TypeOK, GrantInv, Granted
  PROVE  Promise!Granted
  <1>1. seen \in Int
    BY DEF TypeOK
  <1> QED
    BY <1>1, PromisedRules DEF GrantInv, Promise!Granted

\* The planes come one after the other: it is the turn of the one at hand, and
\* still that of an upgrade that is yet to begin.
LEMMA PromisedTurn ==
  ASSUME SafeInv, Granted, NEW side \in {1, 2},
         \/ side = plane /\ stage \in {"download", "upgrade"} /\ ~Skips
         \/ side \in bmc.due
  PROVE  Promise!Turn(side)
  <1>t. /\ TypeOK /\ ControlInv /\ GrantInv /\ WrittenInv /\ TakenInv /\ OrderInv
        /\ plane \in {1, 2} /\ opt \in Option
    BY OptionsAssumption DEF SafeInv, FwInv, TypeOK
  <1>1. Promise!Granted
    BY <1>t, PromisedGrant
  <1>2. side = 2 => plane = 2 /\ opt.dual = "Dual"
    BY <1>t DEF TakenInv, OrderInv, Handled
  <1>3. ~Skips
    BY <1>t DEF TakenInv, Skips
  <1>4. side = 2 => 1 \in Handled
    BY <1>t, <1>2, <1>3 DEF WrittenInv, Skipped
  <1>5. side = 1 => 2 \notin Handled
    BY <1>t DEF TakenInv, OrderInv
  <1> QED
    BY <1>1, <1>2, <1>4, <1>5 DEF Promise!Turn, Promise!Asked, Handled

\* An upgrade that a 2.58 BMC takes, and perhaps flashes, is one of its actions.
LEMMA PromisedTaken ==
  ASSUME SafeInv, TakenEffect, stage = "upgrade", Eq258, opt.file = "local",
         UNCHANGED <<opt, seen, lost>>,
         Reported' = Reported \/ (Reported = "pending" /\ Reported' = "crashed")
  PROVE  Promise!Next
  <1>t. /\ TypeOK /\ GrantInv /\ plane \in {1, 2}
    BY DEF SafeInv, FwInv, TypeOK
  <1>1. Promise!Turn(plane)
    BY <1>t, PromisedTurn DEF Granted, Target, Skips
  <1>2. Promise!Takes(plane) /\ Promise!Told
    BY DEF TakenEffect, Promise!Takes, Promise!Told, Eq258, BMC_USE_IPMI_VERSION,
       Promise!BMC_USE_IPMI_VERSION
  <1>3. ~Promise!RestrictedTarget(opt)
    BY <1>t, OldTakesUnrestricted, PromisedRules DEF Granted, Target
  <1>4. CASE bmc'.flashed = bmc.flashed /\ bmc'.written = bmc.written
    BY <1>t, <1>1, <1>2, <1>4 DEF TakenEffect, Promise!Take, Promise!Next
  <1>5. CASE bmc'.flashed = "target" /\ bmc'.written = bmc.written \cup {plane}
    BY <1>t, <1>1, <1>2, <1>3, <1>5 DEF TakenEffect, Promise!FlashTarget, Promise!Next
  <1> QED
    BY <1>4, <1>5 DEF TakenEffect

\* A stage looks at the version, flashes one of the two images in its order,
\* has an upgrade taken, or does nothing that the promise sees.
LEMMA PromisedStage ==
  ASSUME SafeInv, StageFunction
  PROVE  [Promise!Next]_(Promise!promised)
  <1>t. /\ TypeOK /\ ControlInv /\ GrantInv /\ TransitInv /\ WrittenInv /\ OrderInv
        /\ plane \in {1, 2} /\ opt \in Option /\ seen \in Int /\ bmc.version \in Int
    BY OptionsAssumption DEF SafeInv, FwInv, TypeOK, Bmc
  <1>1. StageEffect
    BY <1>t, StageFunctionEffect
  <1>2. /\ UNCHANGED <<opt, lost, Reported>> /\ bmc'.version = bmc.version
        /\ stage # "version" => seen' = seen
        /\ seen' \in {seen, bmc.version}
        /\ ("transition" \in lost') = ("transition" \in lost)
    BY <1>1 DEF StageEffect, Reported
  <1>3. CASE Untouched
    BY <1>2, <1>3 DEF Untouched, Promise!Next, Promise!Look, Promise!promised
  <1>4. CASE /\ bmc'.flashed = "target" /\ bmc'.written = bmc.written \cup {plane}
             /\ bmc'.taken = bmc.taken
             /\ stage = "download" \/ (stage = "upgrade" /\ ~Skips)
    <2>1. Granted /\ stage \in Target
      BY <1>4 DEF Granted, Target
    <2>2. Promise!RestrictedTarget(opt) =>
            /\ Promise!Eligible(bmc.version)
            /\ Promise!Direct(bmc.version) \/ "transition" \in lost
      BY <1>t, <2>1, PromisedRules DEF GrantInv, TransitInv
    <2>3. ~Skips
      BY <1>t, <1>4 DEF ControlInv, Skips
    <2>4. Promise!Turn(plane)
      BY <1>t, <1>4, <2>1, <2>3, PromisedTurn
    <2>5. Promise!FlashTarget(plane)
      BY <1>2, <1>4, <2>2, <2>4 DEF Promise!FlashTarget
    <2> QED
      BY <1>t, <2>5 DEF Promise!Next
  <1>5. CASE /\ bmc'.flashed = "transition" /\ bmc'.written = bmc.written
             /\ bmc'.taken = bmc.taken /\ stage = "upgradeT"
    <2>1. /\ Granted /\ plane = 1 /\ TransitionRequired(opt, seen) /\ RestrictedTarget(opt)
          /\ seen' = seen
      BY <1>t, <1>2, <1>5 DEF Granted, Transit, WrittenInv, TransitionRequired, AsksDecision
    <2>2. Promise!Eligible(bmc.version) /\ bmc.written = {} /\ bmc.taken = {}
      BY <1>t, <1>5, <2>1, PromisedRules DEF GrantInv, OrderInv, Handled
    <2>3. Promise!FlashTransition
      BY <1>t, <1>2, <1>5, <2>1, <2>2, PromisedRules, PromisedGrant DEF Promise!FlashTransition
    <2> QED
      BY <2>3 DEF Promise!Next
  <1>6. CASE TakenEffect /\ stage = "upgrade" /\ Eq258 /\ opt.file = "local"
    BY <1>1, <1>2, <1>6, PromisedTaken DEF StageEffect
  <1> QED
    BY <1>1, <1>3, <1>4, <1>5, <1>6 DEF StageEffect

\* The command ends with a report that the promise allows.
LEMMA PromisedEnd ==
  ASSUME SafeInv, SafeInv', Workflow \/ Activate
  PROVE  [Promise!Next]_(Promise!promised)
  <1>t. /\ TypeOK /\ ControlInv /\ GrantInv /\ WrittenInv'
        /\ result' \in UtoolResult
    BY DEF SafeInv, FwInv, TypeOK
  <1>1. WorkflowEffect
    BY <1>t, WorkflowEffects
  <1>2. pc \notin {"done", "crashed"} /\ pc' # "crashed"
    BY <1>1 DEF WorkflowEffect, Workflow, AcceptOptions, RejectOptions, ForgiveMissingSn,
       StopWorkflow, NextStage, VersionKnown, Refuse, StartTransition, StartTarget,
       ActivateTransition, TransitionDone, SwitchPlane, PlaneSwitched, Over, Activate,
       StartActivation, SkipActivation, AwaitActivation, ActivationRebooted, ActivationDone,
       ActivationFails, AllUpgraded
  <1>3. UNCHANGED <<opt, bmc, seen, lost>> /\ Reported = "pending"
    BY <1>1, <1>2 DEF WorkflowEffect, Reported
  <1>4. CASE pc' # "done"
    BY <1>2, <1>3, <1>4 DEF Reported, Promise!promised
  <1>5. CASE pc' = "done"
    <2>1. Reported' \in {"NULL", "failure", "success"}
      BY <1>t, <1>5 DEF Reported, Report, UtoolResult
    <2>2. ASSUME Reported' = "success"
          PROVE  /\ Promise!Granted
                 /\ Promise!Asked \subseteq bmc.written \cup bmc.taken \/ Skips
      <3>1. result'.desc = "success"
        BY <1>5, <2>2 DEF Reported, Report
      <3>2. Activate
        BY <1>t, <3>1, WorkflowNeverSucceeds
      <3>3. Granted
        BY <1>t, <3>2 DEF Activate, StartActivation, SkipActivation, AwaitActivation,
           ActivationRebooted, ActivationDone, ActivationFails, AllUpgraded, Over, GrantInv,
           Granted, Restarting, Target
      <3>4. PlanesToUpgrade' \subseteq bmc'.written \cup bmc'.taken \/ Skips'
        BY <1>t, <1>5, <3>1 DEF WrittenInv, Handled, Concluding
      <3> QED
        BY <1>t, <1>3, <3>3, <3>4, PromisedRules, PromisedGrant
           DEF PlanesToUpgrade, Skips, Eq258
    <2>3. Promise!Finish
      BY <1>3, <2>1, <2>2 DEF Promise!Finish, Skips, Eq258, BMC_USE_IPMI_VERSION,
         Promise!BMC_USE_IPMI_VERSION
    <2> QED
      BY <2>3 DEF Promise!Next
  <1> QED
    BY <1>4, <1>5

LEMMA PromisedStep ==
  ASSUME SafeInv, [Next]_vars
  PROVE  [Promise!Next]_(Promise!promised)
  <1>t. TypeOK /\ ControlInv
    BY DEF SafeInv, FwInv
  <1>1. CASE RetryFunc
    <2>1. /\ UNCHANGED <<opt, seen, bmc, Reported>>
          /\ ("transition" \in lost') = ("transition" \in lost)
      BY <1>t, <1>1, RetryFuncEffect DEF RetryEffect, Reported
    <2> QED
      BY <2>1 DEF Promise!promised
  <1>2. CASE StageFunction
    BY <1>2, PromisedStage
  <1>3. CASE RebootBMC
    <2>1. /\ UNCHANGED <<opt, seen, Reported>> /\ bmc'.version = bmc.version
          /\ bmc'.written = bmc.written /\ bmc'.flashed = bmc.flashed
          /\ bmc'.taken = bmc.taken /\ lost' \in {lost, lost \cup {after}}
      BY <1>t, <1>3, RebootBMCEffect DEF RebootEffect, Untouched, InReboot, Reported
    <2>2. \/ ("transition" \in lost') = TRUE
          \/ ("transition" \in lost') = ("transition" \in lost)
      BY <2>1
    <2> QED
      BY <2>1, <2>2 DEF Promise!promised, Promise!Next, Promise!Miss
  <1>4. CASE Workflow \/ Activate
    BY <1>4, SafeInvIsKept, PromisedEnd
  <1>5. CASE GoDown \/ ComeUp
    <2>1. BmcEffect /\ UNCHANGED Reported
      BY <1>t, <1>5, BmcAloneEffect DEF BmcEffect, Reported, Report
    <2>2. bmc.flashed \in {"none", "transition", "target"}
      BY <1>t DEF TypeOK, Bmc
    <2>3. CASE bmc'.flashed = bmc.flashed /\ bmc'.version = bmc.version
      BY <2>1, <2>3 DEF BmcEffect, Promise!promised
    <2>4. CASE /\ bmc'.flashed = "none" /\ bmc'.version = StartedVersion
               /\ bmc.flashed # "none"
      BY <2>1, <2>2, <2>4 DEF BmcEffect, Promise!Next, Promise!Restart, StartedVersion,
         BMC_TRANSITION_FM_VERSION, Promise!BMC_TRANSITION_FM_VERSION, NoVersion,
         Promise!NoVersion
    <2> QED
      BY <2>1, <2>3, <2>4, StartedIsOld DEF BmcEffect
  <1>6. CASE Crash
    <2>1. CrashEffect /\ Reported = "pending" /\ Reported' = "crashed"
      BY <1>t, <1>6, CrashEffects DEF CrashEffect, Reported
    <2>2. CASE UNCHANGED bmc
      BY <2>1, <2>2 DEF CrashEffect, Promise!Next, Promise!Finish
    <2>3. CASE TakenEffect /\ stage = "upgrade" /\ Eq258 /\ opt.file = "local"
      BY <2>1, <2>3, PromisedTaken DEF CrashEffect
    <2> QED
      BY <2>1, <2>2, <2>3 DEF CrashEffect
  <1>7. CASE Terminated \/ UNCHANGED vars
    BY <1>7 DEF Terminated, vars, program, facts, Reported, Report, Promise!promised
  <1>8. CASE BeginLate
    <2>1. LateEffect /\ TakenInv /\ OrderInv /\ bmc \in Bmc
      BY <1>t, <1>8, BeginLateEffect DEF SafeInv, TypeOK
    <2>2. PICK side \in bmc.due : bmc'.written = bmc.written \cup {side}
      BY <2>1 DEF LateEffect
    <2>3. side \in {1, 2} /\ Granted /\ plane \in {1, 2}
      BY <1>t, <2>1, <2>2 DEF Bmc, TypeOK, TakenInv, OrderInv, Handled, Granted, Target
    <2>4. Promise!Turn(side)
      BY <2>2, <2>3, PromisedTurn
    <2>5. /\ ~Promise!RestrictedTarget(opt)
          /\ UNCHANGED <<opt, seen, lost, Reported>> /\ bmc'.version = bmc.version
          /\ bmc'.flashed = "target" /\ bmc'.taken = bmc.taken
      BY <2>1, <2>2, PromisedRules DEF LateEffect, TakenInv, Reported, Report
    <2>6. Promise!FlashTarget(side)
      BY <2>2, <2>4, <2>5 DEF Promise!FlashTarget
    <2> QED
      BY <2>3, <2>6 DEF Promise!Next
  <1> QED
    BY <1>1, <1>2, <1>3, <1>4, <1>5, <1>6, <1>7, <1>8 DEF Next, Program

\* fwupdate keeps its promise: what is refused is never flashed, the images
\* come in their order, and success means that every plane that was asked for
\* was flashed, or taken for an upgrade over IPMI by a 2.58 BMC.
THEOREM KeepsUpdatePromise == Spec => UpdateIsPromised
  <1>1. Init => Promise!Init
    BY DEF Init, Promise!Init, Reported, NoVersion, Promise!NoVersion
  <1>2. SafeInv /\ [Next]_vars => [Promise!Next]_(Promise!promised)
    BY PromisedStep
  <1> QED
    BY <1>1, <1>2, SafeInvariant, PTL DEF Spec, UpdateIsPromised, Promise!Spec

-----------------------------------------------------------------------------
\* What is left to do is counted by naturals: the order FewerLeft goes down
\* is well-founded.
LEMMA LeftIsNatural ==
  ASSUME TypeOK
  PROVE  /\ StagesLeft \in 0..16 /\ RoundsLeft \in 0..Rounds /\ StepsLeft \in 0..16
         /\ polls \in 0..Polls
  <1>t. /\ stage \in Stage /\ round \in 0..Rounds /\ result.broken \in {0, 1}
        /\ polls \in 0..Polls
    BY DEF TypeOK, UtoolResult
  <1>1. StagesLeft \in 0..16
    BY <1>t DEF StagesLeft, Stage, Early, Target, Transit
  <1>2. RoundsLeft \in 0..Rounds
    BY <1>t, BoundsAssumption DEF RoundsLeft
  <1>3. StepsLeft \in 0..16
    <2>1. CASE pc \in {"options", "start", "call", "returned", "over", "check", "activate",
                       "newversion", "done", "crashed"}
      BY <1>t, <2>1 DEF StepsLeft
    <2>2. CASE pc \in {"reset", "shutdown", "poweron", "rebooted"}
      BY <2>2 DEF StepsLeft
    <2> QED
      BY <2>1, <2>2 DEF TypeOK
  <1> QED
    BY <1>t, <1>1, <1>2, <1>3

LEMMA StageIsTheSame ==
  ASSUME TypeOK, UNCHANGED <<stage, plane>>,
         pc \notin {"done", "crashed"}, pc' \notin {"done", "crashed"}
  PROVE  StagesLeft' = StagesLeft
  <1>1. stage \in Stage
    BY DEF TypeOK
  <1> QED
    BY <1>1 DEF StagesLeft, Stage, Early, Target, Transit

\* Within a stage: a new round, or the next step of the round.
LEMMA RetryUsesUp ==
  ASSUME TypeOK, RoundLeft, RetryFunc
  PROVE  FewerLeft
  <1>t. /\ round \in 0..Rounds /\ Rounds \in Nat \ {0} /\ result.broken \in {0, 1}
        /\ stage \in Stage
    BY BoundsAssumption DEF TypeOK, UtoolResult
  <1>1. UNCHANGED <<stage, plane>> /\ pc \notin {"done", "crashed"} /\ pc' \notin {"done", "crashed"}
    BY DEF RetryFunc, StartStage, RetryNow, RebootForRetry, RetryAfterReboot, LeaveStage, NewRound
  <1>2. StagesLeft' = StagesLeft
    BY <1>1, StageIsTheSame
  <1>3. CASE StartStage \/ RetryNow \/ RetryAfterReboot
    <2>1. RoundsLeft' < RoundsLeft
      BY <1>t, <1>3 DEF StartStage, RetryNow, RetryAfterReboot, NewRound, RoundsLeft
    <2> QED
      BY <1>2, <2>1 DEF FewerLeft
  <1>4. CASE RebootForRetry \/ LeaveStage
    <2>1. RoundsLeft' = RoundsLeft
      BY <1>4 DEF RebootForRetry, LeaveStage, RoundsLeft
    <2>2. StepsLeft' < StepsLeft
      BY <1>t, <1>4 DEF RebootForRetry, LeaveStage, StepsLeft
    <2> QED
      BY <1>2, <2>1, <2>2 DEF FewerLeft
  <1> QED
    BY <1>3, <1>4 DEF RetryFunc

LEMMA StageUsesUp ==
  ASSUME TypeOK, StageFunction \/ Crash
  PROVE  FewerLeft
  <1>1. CASE StageFunction
    <2>1. pc = "call" /\ pc' = "returned" /\ UNCHANGED <<stage, plane, round>>
      BY <1>1 DEF StageFunction, CreateSession, GetProductSn, CreateLogFile, GetBmcVersion,
         UploadLocalFile, DownloadRemoteFile, UpgradeFirmware, UploadTransitionFile,
         UpgradeTransitionFirmware, Calling, Return
    <2>2. StagesLeft' = StagesLeft
      BY <2>1, StageIsTheSame
    <2> QED
      BY <2>1, <2>2 DEF FewerLeft, RoundsLeft, StepsLeft
  <1>2. CASE Crash
    <2>1. pc \in {"call", "over"} /\ pc' = "crashed"
      BY <1>2, CrashEffects DEF CrashEffect
    <2>2. StagesLeft' = 0
      BY <2>1 DEF StagesLeft
    <2>3. StagesLeft > 0
      <3>1. stage \in Stage /\ plane \in {1, 2}
        BY DEF TypeOK
      <3>2. CASE plane = 1
        BY <2>1, <3>1, <3>2 DEF StagesLeft, Stage, Early, Target, Transit
      <3>3. CASE plane = 2
        BY <2>1, <3>1, <3>3 DEF StagesLeft, Stage, Early, Target, Transit
      <3> QED
        BY <3>1, <3>2, <3>3
    <2> QED
      BY <2>2, <2>3 DEF FewerLeft
  <1> QED
    BY <1>1, <1>2

\* Within a restart: the next wait, or the next poll of it.
LEMMA RebootUsesUp ==
  ASSUME TypeOK, RebootBMC
  PROVE  FewerLeft
  <1>t. polls \in 0..Polls /\ Polls \in Nat /\ result.broken \in {0, 1}
    BY BoundsAssumption DEF TypeOK, UtoolResult
  <1>1. /\ UNCHANGED <<stage, plane, round, after>> /\ InReboot
        /\ pc' \in {"shutdown", "poweron", "rebooted"}
    BY DEF RebootBMC, Reset, SeeShutdown, SeePowerOn, PollAgain, TimeLimitExceeds, Unmoved, InReboot
  <1>2. StagesLeft' = StagesLeft /\ RoundsLeft' = RoundsLeft
    BY <1>1, StageIsTheSame DEF RoundsLeft, InReboot
  <1>3. CASE PollAgain
    <2>1. pc' = pc /\ polls' = polls - 1
      BY <1>3 DEF PollAgain
    <2>2. StepsLeft' = StepsLeft
      BY <1>1, <2>1 DEF StepsLeft, InReboot
    <2> QED
      BY <1>2, <1>t, <2>1, <2>2 DEF FewerLeft
  <1>4. CASE Reset \/ SeeShutdown \/ SeePowerOn \/ TimeLimitExceeds
    <2>1. \/ pc = "reset" /\ pc' = "shutdown"
          \/ pc = "shutdown" /\ pc' \in {"poweron", "rebooted"}
          \/ pc = "poweron" /\ pc' = "rebooted"
      BY <1>4 DEF Reset, SeeShutdown, SeePowerOn, TimeLimitExceeds
    <2>2. StepsLeft' < StepsLeft
      BY <1>1, <2>1 DEF StepsLeft
    <2> QED
      BY <1>2, <2>2 DEF FewerLeft
  <1> QED
    BY <1>3, <1>4 DEF RebootBMC

\* Between the stages: on to a later one, to the other plane, or to the end.
LEMMA WorkflowUsesUp ==
  ASSUME TypeOK, OptionsFirst, ControlInv, OrderInv, Workflow
  PROVE  FewerLeft
  <1>t. /\ stage \in Stage /\ plane \in {1, 2} /\ opt \in Option /\ result \in UtoolResult
        /\ StagesLeft \in 0..16
    BY OptionsAssumption, LeftIsNatural DEF TypeOK
  <1>f. opt.file \in {"local", "remote", "bmc"}
    BY <1>t DEF Option
  <1>1. CASE AcceptOptions
    <2>1. pc = "options" /\ stage = "session" /\ pc' = "start" /\ UNCHANGED <<stage, plane>>
      BY <1>1 DEF AcceptOptions, Enter, OptionsFirst
    <2> QED
      BY <2>1 DEF FewerLeft, StagesLeft, RoundsLeft, StepsLeft
  <1>2. CASE RejectOptions \/ StopWorkflow \/ Refuse
    <2>1. pc \notin {"done", "crashed"} /\ pc' = "done"
      BY <1>2 DEF RejectOptions, StopWorkflow, Refuse, Finish
    <2>2. StagesLeft' = 0
      BY <2>1 DEF StagesLeft
    <2>3. StagesLeft > 0
      BY <1>t, <2>1 DEF StagesLeft, Stage, Early, Target, Transit
    <2> QED
      BY <2>2, <2>3 DEF FewerLeft
  <1>3. CASE ForgiveMissingSn
    <2>1. /\ pc = "over" /\ UNCHANGED <<pc, stage, plane, round>>
          /\ result.broken = 1 /\ result'.broken = 0
      BY <1>t, <1>3 DEF ForgiveMissingSn, Over, GoesOn, program, UtoolResult
    <2> QED
      BY <2>1 DEF FewerLeft, StagesLeft, RoundsLeft, StepsLeft
  <1>4. CASE NextStage
    <2>1. /\ pc = "over" /\ pc' = "start" /\ UNCHANGED plane /\ stage' = Following(stage)
          /\ stage \in {"session", "sn", "logfile", "upload", "download", "uploadT"}
      BY <1>4 DEF NextStage, Over, Enter
    <2>2. StagesLeft' < StagesLeft
      BY <2>1 DEF StagesLeft, Following
    <2> QED
      BY <2>2 DEF FewerLeft
  <1>5. CASE VersionKnown
    <2>1. /\ pc = "over" /\ stage = "version" /\ UNCHANGED <<plane, round>>
          /\ \/ pc' = "check" /\ stage' = stage
             \/ pc' = "start" /\ stage' = FirstTargetStage
      BY <1>5 DEF VersionKnown, Over, Enter
    <2>2. CASE pc' = "check" /\ stage' = stage
      <3>1. StagesLeft' = StagesLeft /\ RoundsLeft' = RoundsLeft
        BY <2>1, <2>2 DEF StagesLeft, RoundsLeft
      <3>2. StepsLeft' < StepsLeft
        BY <1>t, <2>1, <2>2 DEF StepsLeft, UtoolResult
      <3> QED
        BY <3>1, <3>2 DEF FewerLeft
    <2>3. CASE pc' = "start" /\ stage' = FirstTargetStage
      BY <1>f, <2>1, <2>3 DEF FewerLeft, StagesLeft, FirstTargetStage
    <2> QED
      BY <2>1, <2>2, <2>3
  <1>6. CASE StartTransition \/ StartTarget
    <2>1. /\ pc = "check" /\ stage = "version" /\ UNCHANGED plane /\ pc' = "start"
          /\ stage' \in {"uploadT", FirstTargetStage}
      BY <1>6 DEF StartTransition, StartTarget, Enter, ControlInv
    <2> QED
      BY <1>f, <2>1 DEF FewerLeft, StagesLeft, FirstTargetStage
  <1>7. CASE ActivateTransition \/ SwitchPlane
    <2>1. /\ pc = "over" /\ pc' = "reset" /\ UNCHANGED <<stage, plane, round>>
          /\ after' \in {"transition", "dual"} /\ stage \in {"upgrade", "upgradeT"}
      BY <1>7 DEF ActivateTransition, SwitchPlane, RebootInto, Over
    <2>2. StagesLeft' = StagesLeft /\ RoundsLeft' = RoundsLeft
      BY <2>1, StageIsTheSame DEF RoundsLeft
    <2>3. StepsLeft' < StepsLeft
      BY <1>t, <2>1 DEF StepsLeft, UtoolResult
    <2> QED
      BY <2>2, <2>3 DEF FewerLeft
  <1>8. CASE TransitionDone
    <2>1. /\ pc = "rebooted" /\ stage = "upgradeT" /\ UNCHANGED plane /\ pc' = "start"
          /\ stage' = FirstTargetStage
      BY <1>8 DEF TransitionDone, Enter, OrderInv, Restarting
    <2> QED
      BY <1>f, <2>1 DEF FewerLeft, StagesLeft, FirstTargetStage
  <1>9. CASE PlaneSwitched
    <2>1. /\ pc = "rebooted" /\ stage = "upgrade" /\ plane = 1 /\ plane' = 2 /\ pc' = "start"
          /\ stage' = "version"
      BY <1>9 DEF PlaneSwitched, Enter, OrderInv, ControlInv, Restarting
    <2> QED
      BY <2>1 DEF FewerLeft, StagesLeft
  <1> QED
    BY <1>1, <1>2, <1>3, <1>4, <1>5, <1>6, <1>7, <1>8, <1>9 DEF Workflow

\* The activation: at most one restart, then the end.
LEMMA ActivateUsesUp ==
  ASSUME TypeOK, Activate
  PROVE  FewerLeft
  <1>t. stage \in Stage /\ plane \in {1, 2} /\ result \in UtoolResult
    BY DEF TypeOK
  <1>1. CASE pc' = "done"
    <2>1. pc \notin {"done", "crashed"}
      BY <1>1 DEF Activate, StartActivation, SkipActivation, AwaitActivation, ActivationRebooted,
         ActivationDone, ActivationFails, AllUpgraded, Over
    <2>2. StagesLeft' = 0
      BY <1>1 DEF StagesLeft
    <2>3. StagesLeft > 0
      BY <1>t, <2>1 DEF StagesLeft, Stage, Early, Target, Transit
    <2> QED
      BY <2>2, <2>3 DEF FewerLeft
  <1>2. CASE pc' # "done"
    <2>1. /\ UNCHANGED <<stage, plane, round>>
          /\ \/ pc = "over" /\ pc' = "activate"
             \/ pc = "activate" /\ pc' = "shutdown" /\ after' = "activate"
             \/ pc = "rebooted" /\ pc' = "newversion" /\ after = "activate"
      BY <1>2 DEF Activate, StartActivation, SkipActivation, AwaitActivation, ActivationRebooted,
         ActivationDone, ActivationFails, AllUpgraded, Over, Succeed, Finish
    <2>2. StagesLeft' = StagesLeft /\ RoundsLeft' = RoundsLeft
      BY <2>1, StageIsTheSame DEF RoundsLeft
    <2>3. StepsLeft' < StepsLeft
      BY <1>t, <2>1 DEF StepsLeft, UtoolResult
    <2> QED
      BY <2>2, <2>3 DEF FewerLeft
  <1> QED
    BY <1>1, <1>2

\* Every step of the command uses something up, and what there is to use up
\* is counted by naturals (LeftIsNatural): no behaviour holds infinitely many
\* of them, for any number of rounds and polls.
THEOREM StepsAlwaysRunOut == Spec => StepsRunOut
  <1>1. SafeInv /\ [Next]_vars => [Program => FewerLeft]_vars
    <2> SUFFICES ASSUME SafeInv, Program PROVE FewerLeft
      OBVIOUS
    <2>1. TypeOK /\ RoundLeft /\ OptionsFirst /\ ControlInv /\ OrderInv
      BY DEF SafeInv, FwInv
    <2> QED
      BY <2>1, RetryUsesUp, StageUsesUp, RebootUsesUp, WorkflowUsesUp, ActivateUsesUp DEF Program
  <1> QED
    BY <1>1, SafeInvariant, PTL DEF Spec, StepsRunOut
=============================================================================
