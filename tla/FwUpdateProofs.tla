---------------------------- MODULE FwUpdateProofs ----------------------------
(***************************************************************************)
(* Proofs about the fwupdate workflow, for every set of command lines and  *)
(* versions and every bound on rounds and polls.                           *)
(***************************************************************************)
EXTENDS FwUpdate, TLAPS

\* The results a step can leave are results.
LEMMA ResultsAreTyped ==
  ASSUME result \in UtoolResult
  PROVE  /\ \A c \in {"OK", "ERR"}, d \in {"NULL", "failure", "success"} :
              Broken(c, d) \in UtoolResult
         /\ Cleared \in UtoolResult
         /\ StartedTask \in UtoolResult
         /\ RequestFailures \subseteq UtoolResult
         /\ WaitFailures \subseteq UtoolResult
  BY DEF UtoolResult, Broken, Cleared, StartedTask, RequestFailures, WaitFailures

\* Flashing an image for a plane, and a start command taken, leave a BMC.
LEMMA FlashedForIsTyped ==
  ASSUME TypeOK, NEW side \in {1, 2}, NEW image \in {"transition", "target"},
         NEW taker \in Bmc, FlashedFor(side, image, taker)
  PROVE  bmc' \in Bmc
  <1>1. PICK p \in {bmc.pending, 1} :
          bmc' = [taker EXCEPT !.flashed = image, !.pending = p, !.due = {},
                   !.written = IF image = "target" THEN @ \cup {side} ELSE @]
    BY DEF FlashedFor
  <1>2. bmc \in Bmc
    BY DEF TypeOK
  <1>3. p \in {0, 1} /\ taker.written \cup {side} \in SUBSET {1, 2}
    BY <1>2 DEF Bmc
  <1> QED
    BY <1>1, <1>3 DEF Bmc

LEMMA FlashedIsTyped ==
  ASSUME TypeOK, NEW image \in {"transition", "target"}, Flashed(image)
  PROVE  bmc' \in Bmc
  BY FlashedForIsTyped DEF Flashed, TypeOK

LEMMA UpgradeTakenIsTyped ==
  ASSUME TypeOK, UpgradeTaken
  PROVE  bmc' \in Bmc
  <1> DEFINE taker == [bmc EXCEPT !.taken = @ \cup {plane}]
  <1>1. bmc \in Bmc /\ plane \in {1, 2}
    BY DEF TypeOK
  <1>2. bmc.taken \cup {plane} \in SUBSET {1, 2}
    BY <1>1 DEF Bmc
  <1>3. taker \in Bmc
    BY <1>1, <1>2 DEF Bmc
  <1>4. \/ bmc' = [taker EXCEPT !.due = {}]
        \/ bmc' = [taker EXCEPT !.due = {plane}]
        \/ FlashedFor(plane, "target", taker)
    BY DEF UpgradeTaken
  <1>5. [taker EXCEPT !.due = {}] \in Bmc /\ [taker EXCEPT !.due = {plane}] \in Bmc
    BY <1>1, <1>3 DEF Bmc
  <1> HIDE DEF taker
  <1> QED
    BY <1>1, <1>3, <1>4, <1>5, FlashedForIsTyped

LEMMA AwaitFlashIsTyped ==
  ASSUME TypeOK, NEW image \in {"transition", "target"},
         NEW r \in UtoolResult, AwaitFlash(image, r)
  PROVE  result' \in UtoolResult /\ bmc' \in Bmc /\ failed' \in {0, 1}
  <1>1. result \in UtoolResult /\ bmc \in Bmc /\ failed \in {0, 1}
    BY DEF TypeOK
  <1>2. CASE Flashed(image) /\ result' = r /\ UNCHANGED failed
    BY <1>1, <1>2, FlashedIsTyped
  <1>3. CASE Flashed(image) /\ result' \in WaitFailures /\ WriteFailedLogEntry
    BY <1>1, <1>3, FlashedIsTyped, ResultsAreTyped DEF WriteFailedLogEntry
  <1>4. CASE UNCHANGED bmc /\ result' \in WaitFailures /\ WriteFailedLogEntry
    BY <1>1, <1>4, ResultsAreTyped DEF WriteFailedLogEntry
  <1> QED
    BY <1>2, <1>3, <1>4 DEF AwaitFlash

-----------------------------------------------------------------------------
\* RetryFunc, RebootBMC, the stage functions, the workflow and the activation.
LEMMA RetryIsTyped ==
  ASSUME TypeOK, RoundLeft, RetryFunc
  PROVE  TypeOK'
  <1>t. result \in UtoolResult /\ round \in 0..Rounds
    BY DEF TypeOK
  <1>0. /\ Cleared \in UtoolResult
        /\ Rounds \in Int /\ Rounds >= 1 /\ round \in Int /\ round >= 0 /\ round <= Rounds
    BY <1>t, ResultsAreTyped, BoundsAssumption
  <1>a. ASSUME NewRound, round < Rounds
        PROVE  TypeOK'
    <2>1. round' \in 0..Rounds
      BY <1>0, <1>a DEF NewRound
    <2> QED
      BY <1>0, <1>a, <2>1 DEF NewRound, TypeOK, facts, files
  <1>1. CASE StartStage
    <2>1. round' \in 0..Rounds
      BY <1>0, <1>1 DEF StartStage
    <2> QED
      BY <1>1, <2>1 DEF StartStage, TypeOK, facts, files
  <1>2. CASE RetryNow
    BY <1>2, <1>a DEF RetryNow
  <1>3. CASE RebootForRetry
    BY <1>0, <1>3 DEF RebootForRetry, Reason, TypeOK, facts, files
  <1>4. CASE RetryAfterReboot
    BY <1>4, <1>a DEF RetryAfterReboot, RoundLeft
  <1>5. CASE LeaveStage
    BY <1>5 DEF LeaveStage, TypeOK, facts, files
  <1> QED
    BY <1>1, <1>2, <1>3, <1>4, <1>5 DEF RetryFunc

LEMMA RebootIsTyped ==
  ASSUME TypeOK, RebootBMC
  PROVE  TypeOK'
  <1>t. /\ result \in UtoolResult /\ bmc \in Bmc
        /\ polls \in 0..Polls /\ lost \subseteq Reason /\ after \in Reason
    BY DEF TypeOK
  <1>0. Polls \in Int /\ Polls >= 0 /\ polls \in Int /\ polls >= 0 /\ polls <= Polls
    BY <1>t, BoundsAssumption
  <1>b. [bmc EXCEPT !.pending = 1] \in Bmc
    BY <1>t DEF Bmc
  <1>r. Broken(result.code, "failure") \in UtoolResult
    BY <1>t, ResultsAreTyped DEF UtoolResult
  <1>1. CASE Reset
    <2>1. bmc' \in Bmc
      BY <1>t, <1>b, <1>1 DEF Reset
    <2>2. polls' \in 0..Polls
      BY <1>0, <1>1 DEF Reset
    <2> QED
      BY <1>1, <2>1, <2>2 DEF Reset, Unmoved, TypeOK, facts, files
  <1>2. CASE SeeShutdown
    <2>1. polls' \in 0..Polls
      BY <1>0, <1>2 DEF SeeShutdown
    <2>2. lost' \subseteq Reason
      BY <1>t, <1>2 DEF SeeShutdown
    <2> QED
      BY <1>2, <2>1, <2>2 DEF SeeShutdown, Unmoved, TypeOK, facts, files
  <1>3. CASE SeePowerOn
    BY <1>3 DEF SeePowerOn, Unmoved, TypeOK, facts, files
  <1>4. CASE PollAgain
    <2>1. polls' \in 0..Polls
      BY <1>0, <1>4 DEF PollAgain
    <2>2. UNCHANGED <<opt, pc, stage, round, after, plane, result, facts, files, failed,
                      lost, bmc>>
      BY <1>4 DEF PollAgain, Unmoved
    <2>3. pc' \in {"options", "start", "call", "returned", "over", "check", "reset", "shutdown",
             "poweron", "rebooted", "activate", "newversion", "done", "crashed"}
      BY <2>2 DEF TypeOK
    <2> QED
      BY <2>1, <2>2, <2>3 DEF TypeOK, facts, files
  <1>5. CASE TimeLimitExceeds
    <2>1. result' \in UtoolResult /\ failed' \in {0, 1}
      BY <1>r, <1>5 DEF TimeLimitExceeds, TypeOK
    <2> QED
      BY <1>5, <2>1 DEF TimeLimitExceeds, Unmoved, TypeOK, facts, files
  <1> QED
    BY <1>1, <1>2, <1>3, <1>4, <1>5 DEF RebootBMC

LEMMA FlashUploadedIsTyped ==
  ASSUME TypeOK, NEW path, NEW image \in {"transition", "target"},
         NEW r \in UtoolResult, FlashUploaded(path, image, r)
  PROVE  result' \in UtoolResult /\ bmc' \in Bmc /\ failed' \in {0, 1}
  <1>1. result \in UtoolResult /\ bmc \in Bmc
    BY DEF TypeOK
  <1>2. CASE AwaitFlash(image, r)
    BY <1>2, AwaitFlashIsTyped
  <1>3. CASE result' \in WaitFailures /\ UNCHANGED bmc /\ WriteFailedLogEntry
    BY <1>1, <1>3, ResultsAreTyped DEF WriteFailedLogEntry
  <1> QED
    BY <1>2, <1>3 DEF FlashUploaded

\* A stage function returns: what is left is the result, the BMC, and what the
\* function itself has found out.
LEMMA ReturnIsTyped ==
  ASSUME TypeOK, Return, UNCHANGED <<mute, activation>>,
         result' \in UtoolResult, bmc' \in Bmc, failed' \in {0, 1},
         named' \in {0, 1}, seen' \in Int, folder' \in {0, 1}, log' \in {"NULL", "open"},
         sent' \in {"nothing", "/tmp/web", "/tmp/image.hpm"}
  PROVE  TypeOK'
  BY DEF TypeOK, Return

LEMMA StageFunctionIsTyped ==
  ASSUME TypeOK, StageFunction
  PROVE  TypeOK'
  <1>t. /\ result \in UtoolResult /\ bmc \in Bmc /\ failed \in {0, 1}
        /\ named \in {0, 1} /\ seen \in Int /\ folder \in {0, 1}
        /\ log \in {"NULL", "open"} /\ sent \in {"nothing", "/tmp/web", "/tmp/image.hpm"}
    BY DEF TypeOK
  <1>b. Broken("OK", result.desc) \in UtoolResult
    BY <1>t, ResultsAreTyped DEF UtoolResult
  <1>v. bmc.version \in Int
    BY <1>t DEF Bmc
  <1>r. \A r \in UtoolResult : [r EXCEPT !.reboot = 1] \in UtoolResult
    BY DEF UtoolResult
  <1>n. \A r \in UtoolResult : [r EXCEPT !.data = "reason"] \in UtoolResult
    BY DEF UtoolResult
  <1>m. \A S \in SUBSET {"/tmp/web", "/tmp/image.hpm", "transition"} :
          [bmc EXCEPT !.tmp = @ \cup S] \in Bmc
    BY <1>t DEF Bmc
  <1>u. UploadFails => result' \in UtoolResult /\ bmc' \in Bmc
    BY <1>t, <1>r, ResultsAreTyped DEF UploadFails
  <1>1. CASE CreateSession
    <2>1. Return /\ UNCHANGED <<facts, files, failed, bmc>> /\ result' \in UtoolResult
      BY <1>1, <1>t, ResultsAreTyped DEF CreateSession
    <2> QED
      BY <2>1, <1>t, ReturnIsTyped DEF facts, files
  <1>2. CASE GetProductSn
    <2>1. /\ Return /\ UNCHANGED <<seen, sent, activation, files, failed, bmc>>
          /\ result' \in UtoolResult /\ named' \in {0, 1}
      BY <1>2, <1>t, <1>b, ResultsAreTyped DEF GetProductSn
    <2> QED
      BY <2>1, <1>t, ReturnIsTyped DEF files
  <1>3. CASE CreateLogFile
    <2>1. /\ Return /\ UNCHANGED <<mute, facts, failed, bmc>>
          /\ result' \in UtoolResult /\ folder' \in {0, 1} /\ log' \in {"NULL", "open"}
      BY <1>3, <1>t, <1>b, <1>n DEF CreateLogFile
    <2> QED
      BY <2>1, <1>t, ReturnIsTyped DEF facts
  <1>4. CASE GetBmcVersion
    <2>1. /\ Return /\ UNCHANGED <<named, sent, activation, files, failed, bmc>>
          /\ result' \in UtoolResult /\ seen' \in Int
      BY <1>4, <1>t, <1>b, <1>v, ResultsAreTyped DEF GetBmcVersion
    <2> QED
      BY <2>1, <1>t, ReturnIsTyped DEF files
  <1>5. CASE UploadLocalFile
    <2>0. Transport \in {"/tmp/web", "/tmp/image.hpm"}
      BY DEF Transport
    <2>1. Return /\ UNCHANGED <<named, seen, activation, files>>
      BY <1>5 DEF UploadLocalFile
    <2>2. result' \in UtoolResult /\ bmc' \in Bmc
      BY <1>5, <1>t, <1>u, <1>m, <2>0 DEF UploadLocalFile
    <2>3. failed' \in {0, 1} /\ sent' \in {"nothing", "/tmp/web", "/tmp/image.hpm"}
      BY <1>5, <1>t, <2>0 DEF UploadLocalFile, WriteFailedLogEntry
    <2> QED
      BY <2>1, <2>2, <2>3, <1>t, ReturnIsTyped DEF files
  <1>6. CASE UploadTransitionFile
    <2>1. Return /\ UNCHANGED <<facts, files, failed>>
      BY <1>6 DEF UploadTransitionFile
    <2>2. result' \in UtoolResult /\ bmc' \in Bmc
      BY <1>6, <1>t, <1>u, <1>m DEF UploadTransitionFile
    <2> QED
      BY <2>1, <2>2, <1>t, ReturnIsTyped DEF facts, files
  <1>7. CASE DownloadRemoteFile
    <2>1. Return /\ UNCHANGED <<facts, files>>
      BY <1>7 DEF DownloadRemoteFile
    <2>2. result' \in UtoolResult
      BY <1>7, <1>r, ResultsAreTyped, <1>t DEF DownloadRemoteFile
    <2>3. bmc' \in Bmc
      BY <1>7, <1>t, FlashedIsTyped DEF DownloadRemoteFile
    <2>4. failed' \in {0, 1}
      BY <1>7, <1>t DEF DownloadRemoteFile, WriteFailedLogEntry
    <2> QED
      BY <2>1, <2>2, <2>3, <2>4, <1>t, ReturnIsTyped DEF facts, files
  <1>8. CASE UpgradeFirmware
    <2>1. Return /\ UNCHANGED <<facts, files>>
      BY <1>8 DEF UpgradeFirmware
    <2>2. StartedTask \in UtoolResult
      BY <1>t, ResultsAreTyped
    <2>3. CASE AwaitRemoteTask
      <3>1. CASE AwaitFlash("target", result)
        BY <3>1, <1>t, <2>1, AwaitFlashIsTyped, ReturnIsTyped DEF facts, files
      <3>2. CASE /\ result' \in RequestFailures \cup WaitFailures
                 /\ UNCHANGED bmc /\ WriteFailedLogEntry
        BY <3>2, <1>t, <2>1, ResultsAreTyped, ReturnIsTyped DEF facts, files, WriteFailedLogEntry
      <3> QED
        BY <2>3, <3>1, <3>2 DEF AwaitRemoteTask
    <2>4. CASE FlashUploaded("/tmp/web", "target", StartedTask)
      BY <2>4, <1>t, <2>1, <2>2, FlashUploadedIsTyped, ReturnIsTyped DEF facts, files
    <2>5. CASE UpgradeFirmwareByIpmi
      <3>1. bmc' \in Bmc
        BY <2>5, <1>t, UpgradeTakenIsTyped DEF UpgradeFirmwareByIpmi
      <3>2. result' \in UtoolResult /\ failed' \in {0, 1}
        BY <2>5, <1>t, ResultsAreTyped DEF UpgradeFirmwareByIpmi, WriteFailedLogEntry
      <3> QED
        BY <3>1, <3>2, <1>t, <2>1, ReturnIsTyped DEF facts, files
    <2>6. CASE UNCHANGED <<result, failed, bmc>>
      BY <2>6, <1>t, <2>1, ReturnIsTyped DEF facts, files
    <2> QED
      BY <1>8, <2>3, <2>4, <2>5, <2>6 DEF UpgradeFirmware, UpgradeFirmwareByRedfish
  <1>9. CASE UpgradeTransitionFirmware
    <2>1. /\ Return /\ UNCHANGED <<facts, files>>
          /\ FlashUploaded("transition", "transition", StartedTask)
      BY <1>9 DEF UpgradeTransitionFirmware
    <2>2. StartedTask \in UtoolResult
      BY <1>t, ResultsAreTyped
    <2> QED
      BY <2>1, <2>2, <1>t, FlashUploadedIsTyped, ReturnIsTyped DEF facts, files
  <1> QED
    BY <1>1, <1>2, <1>3, <1>4, <1>5, <1>6, <1>7, <1>8, <1>9 DEF StageFunction

LEMMA WorkflowIsTyped ==
  ASSUME TypeOK, Workflow
  PROVE  TypeOK'
  <1>t. result \in UtoolResult /\ stage \in Stage /\ mute \in {0, 1}
    BY DEF TypeOK
  <1>b. Broken("OK", "failure") \in UtoolResult
    BY <1>t, ResultsAreTyped
  <1>n. /\ [result EXCEPT !.data = "NULL"] \in UtoolResult
        /\ [result EXCEPT !.broken = 0, !.code = "OK"] \in UtoolResult
        /\ [result EXCEPT !.data = "NULL", !.desc = "failure"] \in UtoolResult
    BY <1>t DEF UtoolResult
  <1>s. Stage = {"session", "sn", "logfile", "version", "upload", "download", "upgrade",
                 "uploadT", "upgradeT"}
    BY DEF Stage, Early, Target, Transit
  <1>f. FirstTargetStage \in Stage
    <2>1. opt.file \in {"local", "remote", "bmc"}
      BY OptionsAssumption DEF TypeOK, Option
    <2> QED
      BY <2>1, <1>s DEF FirstTargetStage
  <1>1. CASE AcceptOptions
    BY <1>1, <1>s DEF AcceptOptions, Enter, TypeOK, facts, files
  <1>2. CASE RejectOptions
    BY <1>2, <1>b DEF RejectOptions, Finish, TypeOK, facts, files
  <1>3. CASE ForgiveMissingSn
    <2>1. result' \in UtoolResult /\ pc' = "over"
      BY <1>3, <1>n DEF ForgiveMissingSn, Over, program
    <2> QED
      BY <1>3, <2>1 DEF ForgiveMissingSn, program, TypeOK, facts, files
  <1>4. CASE StopWorkflow
    <2>1. result' \in UtoolResult
      BY <1>4, <1>t DEF StopWorkflow, UtoolResult
    <2> QED
      BY <1>4, <2>1 DEF StopWorkflow, Finish, TypeOK, facts
  <1>5. CASE NextStage
    <2>1. Following(stage) \in Stage
      BY <1>5, <1>s DEF NextStage, Over, Following
    <2>2. result' \in UtoolResult
      BY <1>5, <1>t, <1>n DEF NextStage, UtoolResult
    <2> QED
      BY <1>5, <2>1, <2>2 DEF NextStage, Enter, TypeOK, facts, files
  <1>6. CASE VersionKnown
    <2>1. stage' \in Stage
      BY <1>6, <1>t, <1>f DEF VersionKnown, Enter
    <2>2. UNCHANGED <<opt, round, after, polls, plane, result, facts, files, failed, lost, bmc>>
      BY <1>6 DEF VersionKnown
    <2>3. pc' = "check" \/ pc' = "start"
      BY <1>6 DEF VersionKnown, Enter
    <2>4. CASE pc' = "check"
      BY <2>1, <2>2, <2>4 DEF TypeOK, facts, files
    <2>5. CASE pc' = "start"
      BY <2>1, <2>2, <2>5 DEF TypeOK, facts, files
    <2> QED
      BY <2>3, <2>4, <2>5
  <1>7. CASE Refuse
    BY <1>7, <1>b DEF Refuse, Finish, TypeOK, facts, files
  <1>8. CASE StartTransition
    BY <1>8, <1>s DEF StartTransition, Enter, TypeOK, facts, files
  <1>9. CASE StartTarget
    BY <1>9, <1>f DEF StartTarget, Enter, TypeOK, facts, files
  <1>10. CASE ActivateTransition
    BY <1>10, <1>n DEF ActivateTransition, RebootInto, Reason, TypeOK, facts, files
  <1>11. CASE TransitionDone
    BY <1>11, <1>f DEF TransitionDone, Enter, TypeOK, facts, files
  <1>12. CASE SwitchPlane
    BY <1>12, <1>n DEF SwitchPlane, RebootInto, Reason, TypeOK, facts, files
  <1>13. CASE PlaneSwitched
    BY <1>13, <1>s DEF PlaneSwitched, Enter, TypeOK, facts, files
  <1> QED
    BY <1>1, <1>2, <1>3, <1>4, <1>5, <1>6, <1>7, <1>8, <1>9, <1>10, <1>11, <1>12, <1>13
    DEF Workflow

LEMMA ActivateIsTyped ==
  ASSUME TypeOK, Activate
  PROVE  TypeOK'
  <1>t. result \in UtoolResult
    BY DEF TypeOK
  <1>p. Polls \in 0..Polls
    BY BoundsAssumption
  <1>n. \A r \in UtoolResult : [r EXCEPT !.desc = "success", !.data = "NULL"] \in UtoolResult
    BY DEF UtoolResult
  <1>1. CASE StartActivation
    BY <1>1 DEF StartActivation, TypeOK, facts, files
  <1>2. CASE SkipActivation
    BY <1>2, <1>n, <1>t DEF SkipActivation, Succeed, Elsewhere, Finish, TypeOK, files
  <1>3. CASE AwaitActivation
    BY <1>3, <1>p DEF AwaitActivation, Reason, TypeOK, facts, files
  <1>4. CASE ActivationRebooted
    BY <1>4 DEF ActivationRebooted, TypeOK, facts, files
  <1>5. CASE ActivationDone
    BY <1>5, <1>n, <1>t DEF ActivationDone, Succeed, Elsewhere, Finish, TypeOK, files
  <1>6. CASE ActivationFails
    <2>1. result' \in UtoolResult /\ pc' = "done"
      BY <1>6, <1>n, <1>t, ResultsAreTyped DEF ActivationFails, Succeed, Finish
    <2> QED
      BY <1>6, <2>1 DEF ActivationFails, Elsewhere, TypeOK, files
  <1> QED
    BY <1>1, <1>2, <1>3, <1>4, <1>5, <1>6 DEF Activate

LEMMA RestartIsTyped ==
  ASSUME TypeOK, GoDown \/ ComeUp \/ BeginLate
  PROVE  TypeOK'
  <1>t. bmc \in Bmc
    BY DEF TypeOK
  <1>v. StartedVersion \in Int
    <2>1. opt.target \in Int /\ bmc.version \in Int
      BY <1>t, OptionsAssumption DEF TypeOK, Option, Bmc
    <2> QED
      BY <2>1 DEF StartedVersion, BMC_TRANSITION_FM_VERSION
  <1>1. bmc' \in Bmc
    <2>1. CASE GoDown
      <3>1. PICK kept \in {{}, bmc.tmp} :
              bmc' = [bmc EXCEPT !.up = 0, !.pending = 0, !.flashed = "none", !.tmp = kept,
                                 !.due = {}, !.version = StartedVersion]
        BY <2>1 DEF GoDown
      <3>2. kept \in SUBSET {"/tmp/web", "/tmp/image.hpm", "transition"}
        BY <1>t DEF Bmc
      <3> QED
        BY <1>t, <1>v, <3>1, <3>2 DEF Bmc
    <2>2. CASE ComeUp
      BY <1>t, <2>2 DEF ComeUp, Bmc
    <2>3. CASE BeginLate
      <3>1. PICK side \in bmc.due : FlashedFor(side, "target", bmc)
        BY <2>3 DEF BeginLate
      <3>2. side \in {1, 2}
        BY <1>t DEF Bmc
      <3> QED
        BY <1>t, <3>1, <3>2, FlashedForIsTyped
    <2> QED
      BY <2>1, <2>2, <2>3
  <1>2. UNCHANGED <<opt, program, result, facts, files, failed, lost>>
    BY DEF GoDown, ComeUp, BeginLate
  <1>3. pc' \in {"options", "start", "call", "returned", "over", "check", "reset", "shutdown",
             "poweron", "rebooted", "activate", "newversion", "done", "crashed"}
    BY <1>2 DEF TypeOK, program
  <1> QED
    BY <1>1, <1>2, <1>3 DEF TypeOK, program, facts, files

LEMMA CrashIsTyped ==
  ASSUME TypeOK, Crash
  PROVE  TypeOK'
  <1>1. /\ pc' = "crashed"
        /\ UNCHANGED <<opt, stage, round, after, polls, plane, result, facts, files, failed,
                       lost>>
    BY DEF Crash
  <1>2. pc' \in {"options", "start", "call", "returned", "over", "check", "reset", "shutdown",
             "poweron", "rebooted", "activate", "newversion", "done", "crashed"}
    BY <1>1
  <1>3. bmc' \in Bmc
    BY UpgradeTakenIsTyped DEF Crash, TypeOK
  <1> QED
    BY <1>1, <1>2, <1>3 DEF TypeOK, facts, files

\* Type correctness: every step keeps the types, given RoundLeft.
LEMMA NextIsTyped ==
  ASSUME TypeOK, RoundLeft, [Next]_vars
  PROVE  TypeOK'
  <1>1. CASE Terminated \/ UNCHANGED vars
    <2>1. UNCHANGED vars
      BY <1>1 DEF Terminated
    <2>2. pc' \in {"options", "start", "call", "returned", "over", "check", "reset", "shutdown",
             "poweron", "rebooted", "activate", "newversion", "done", "crashed"}
      BY <2>1 DEF TypeOK, vars, program
    <2> QED
      BY <2>1, <2>2 DEF TypeOK, vars, program, facts, files
  <1>2. CASE Program
    BY <1>2, RetryIsTyped, StageFunctionIsTyped, RebootIsTyped, WorkflowIsTyped, ActivateIsTyped,
       CrashIsTyped
    DEF Program
  <1>3. CASE GoDown \/ ComeUp \/ BeginLate
    BY <1>3, RestartIsTyped
  <1> QED
    BY <1>1, <1>2, <1>3 DEF Next

\* A failed request, or one that has to be tried again, asks for no restart.
LEMMA FailuresKeepReboot ==
  ASSUME result \in UtoolResult
  PROVE  /\ \A r \in RequestFailures : r.reboot = result.reboot /\ r.broken = 1
         /\ Broken("OK", result.desc).reboot = result.reboot
         /\ Broken("OK", "failure").reboot = result.reboot
         /\ Cleared.reboot = result.reboot
  BY DEF UtoolResult, RequestFailures, Broken, Cleared

LEMMA RoundLeftIsKept ==
  ASSUME TypeOK, RoundLeft, [Next]_vars
  PROVE  RoundLeft'
  <1>1. CASE RetryFunc
    BY <1>1 DEF RetryFunc, StartStage, RetryNow, RebootForRetry, RetryAfterReboot, LeaveStage,
       NewRound, RoundLeft, InReboot
  <1>2. CASE StageFunction
    <2>1. Return
      BY <1>2 DEF StageFunction, CreateSession, GetProductSn, CreateLogFile, GetBmcVersion,
         UploadLocalFile, DownloadRemoteFile, UpgradeFirmware, UploadTransitionFile,
         UpgradeTransitionFirmware
    <2> QED
      BY <2>1 DEF Return, RoundLeft, InReboot
  <1>3. CASE RebootBMC
    BY <1>3 DEF RebootBMC, Reset, SeeShutdown, SeePowerOn, PollAgain, TimeLimitExceeds, Unmoved,
       RoundLeft, InReboot
  <1>4. CASE Workflow
    BY <1>4 DEF Workflow, AcceptOptions, RejectOptions, ForgiveMissingSn, StopWorkflow, NextStage,
       VersionKnown, Refuse, StartTransition, StartTarget, ActivateTransition, TransitionDone,
       SwitchPlane, PlaneSwitched, Enter, Finish, RebootInto, Over, program, RoundLeft, InReboot
  <1>5. CASE Activate
    BY <1>5 DEF Activate, StartActivation, SkipActivation, AwaitActivation, ActivationRebooted,
       ActivationDone, ActivationFails, Succeed, Finish, RoundLeft, InReboot
  <1>6. CASE GoDown \/ ComeUp \/ BeginLate \/ Terminated \/ UNCHANGED vars
    BY <1>6 DEF GoDown, ComeUp, BeginLate, Terminated, vars, program, RoundLeft, InReboot
  <1>7. CASE Crash
    BY <1>7 DEF Crash, RoundLeft, InReboot
  <1> QED
    BY <1>1, <1>2, <1>3, <1>4, <1>5, <1>6, <1>7 DEF Next, Program

\* Once the log file is there it stays; every step that does not run one of
\* the three early stages finds it there.
LEMMA LogStays ==
  ASSUME LogInv, stage \notin Early, UNCHANGED log, stage' \notin Early
  PROVE  LogInv'
  BY DEF LogInv, Early

\* No step goes back to the options.
LEMMA OptionsStayFirst ==
  ASSUME TypeOK, OptionsFirst, [Next]_vars
  PROVE  OptionsFirst'
  <1>1. CASE UNCHANGED <<pc, stage>>
    BY <1>1 DEF OptionsFirst
  <1>2. CASE RetryFunc \/ StageFunction
    BY <1>2 DEF RetryFunc, StartStage, RetryNow, RebootForRetry, RetryAfterReboot, LeaveStage,
       NewRound, StageFunction, CreateSession, GetProductSn, CreateLogFile, GetBmcVersion,
       UploadLocalFile, DownloadRemoteFile, UpgradeFirmware, UploadTransitionFile,
       UpgradeTransitionFirmware, Return, OptionsFirst
  <1>3. CASE RebootBMC
    BY <1>3 DEF RebootBMC, Reset, SeeShutdown, SeePowerOn, PollAgain, TimeLimitExceeds,
       OptionsFirst
  <1>4. CASE Workflow
    BY <1>4 DEF Workflow, AcceptOptions, RejectOptions, ForgiveMissingSn, StopWorkflow, NextStage,
       VersionKnown, Refuse, StartTransition, StartTarget, ActivateTransition, TransitionDone,
       SwitchPlane, PlaneSwitched, Enter, Finish, RebootInto, Over, program, OptionsFirst
  <1>5. CASE Activate
    BY <1>5 DEF Activate, StartActivation, SkipActivation, AwaitActivation, ActivationRebooted,
       ActivationDone, ActivationFails, Succeed, Finish, OptionsFirst
  <1>6. CASE GoDown \/ ComeUp \/ BeginLate \/ Terminated \/ UNCHANGED vars
    BY <1>1, <1>6 DEF GoDown, ComeUp, BeginLate, Terminated, vars, program
  <1>7. CASE Crash
    BY <1>7 DEF Crash, OptionsFirst
  <1> QED
    BY <1>2, <1>3, <1>4, <1>5, <1>6, <1>7 DEF Next, Program

LEMMA LogInvIsKept ==
  ASSUME TypeOK, OptionsFirst, LogInv, [Next]_vars
  PROVE  LogInv'
  <1>t. result \in UtoolResult
    BY DEF TypeOK
  <1>k. /\ \A r \in RequestFailures : r.reboot = result.reboot /\ r.broken = 1
        /\ Broken("OK", result.desc).reboot = result.reboot
        /\ Broken("OK", "failure").reboot = result.reboot
        /\ Cleared.reboot = result.reboot
    BY <1>t, FailuresKeepReboot
  <1>1. CASE RetryFunc
    <2>1. UNCHANGED <<stage, log>>
      BY <1>1 DEF RetryFunc, StartStage, RetryNow, RebootForRetry, RetryAfterReboot, LeaveStage,
         NewRound, files
    <2>2. CASE stage \notin Early
      BY <2>1, <2>2, LogStays
    <2>3. CASE stage \in Early
      <3>1. result.reboot = 0 /\ InStage
        BY <1>1, <2>3 DEF LogInv, RetryFunc, StartStage, RetryNow, RebootForRetry,
           RetryAfterReboot, LeaveStage, InStage
      <3>2. /\ result' = Cleared \/ result' = result
            /\ pc' = "call" \/ (pc' = "over" /\ pc = "returned" /\ result' = result)
        BY <1>1, <3>1 DEF RetryFunc, StartStage, RetryNow, RebootForRetry, RetryAfterReboot,
           LeaveStage, NewRound, Repairable, InStage
      <3>3. result'.reboot = 0
        BY <1>k, <3>1, <3>2
      <3> QED
        BY <2>1, <2>3, <3>2, <3>3 DEF LogInv, InStage, GoesOn
    <2> QED
      BY <2>2, <2>3
  <1>2. CASE StageFunction
    <2>1. CASE CreateSession \/ GetProductSn
      <3>1. /\ stage \in {"session", "sn"} /\ UNCHANGED <<stage, log>> /\ pc' = "returned"
            /\ \/ result' = result \/ result' \in RequestFailures
               \/ result' = Broken("OK", result.desc)
        BY <2>1 DEF CreateSession, GetProductSn, Calling, Return, files
      <3>2. result'.reboot = result.reboot
        BY <3>1, <1>k
      <3> QED
        BY <3>1, <3>2 DEF LogInv, Early, InStage
    <2>2. CASE CreateLogFile
      <3>1. /\ stage = "logfile" /\ UNCHANGED stage /\ pc' = "returned"
            /\ \/ log' = "open" /\ result' = result
               \/ result' = [Broken("OK", result.desc) EXCEPT !.data = "reason"]
        BY <2>2 DEF CreateLogFile, Calling, Return
      <3>2. /\ result'.reboot = result.reboot
            /\ result'.broken = 1 \/ log' = "open"
        BY <3>1, <1>t DEF Broken, UtoolResult
      <3> QED
        BY <3>1, <3>2 DEF LogInv, Early, InStage, GoesOn
    <2>3. CASE GetBmcVersion \/ UploadLocalFile \/ DownloadRemoteFile \/ UpgradeFirmware
               \/ UploadTransitionFile \/ UpgradeTransitionFirmware
      <3>1. /\ stage \in {"version", "upload", "download", "upgrade", "uploadT", "upgradeT"}
            /\ UNCHANGED <<stage, log>>
        BY <2>3 DEF GetBmcVersion, UploadLocalFile, DownloadRemoteFile, UpgradeFirmware,
           UploadTransitionFile, UpgradeTransitionFirmware, Calling, Return, files
      <3> QED
        BY <3>1, LogStays DEF Early
    <2> QED
      BY <1>2, <2>1, <2>2, <2>3 DEF StageFunction
  <1>3. CASE RebootBMC
    <2>1. InReboot /\ UNCHANGED <<stage, log>>
      BY <1>3 DEF RebootBMC, Reset, SeeShutdown, SeePowerOn, PollAgain, TimeLimitExceeds, Unmoved,
         InReboot, files
    <2>2. stage \notin Early
      BY <2>1 DEF LogInv, InReboot, InStage
    <2> QED
      BY <2>1, <2>2, LogStays
  <1>4. CASE Workflow
    <2>1. CASE AcceptOptions \/ RejectOptions
      <3>1. UNCHANGED log /\ pc = "options" /\ result'.reboot = result.reboot
        BY <2>1, <1>k DEF AcceptOptions, RejectOptions, files
      <3>2. /\ stage' = "session"
            /\ pc' \in {"start", "done"}
        BY <2>1, <3>1 DEF AcceptOptions, RejectOptions, Enter, Finish, OptionsFirst
      <3>3. result'.reboot = 0
        BY <3>1 DEF LogInv, OptionsFirst, Early
      <3> QED
        BY <3>2, <3>3 DEF LogInv, Early, InStage
    <2>2. CASE ForgiveMissingSn \/ StopWorkflow
      <3>1. UNCHANGED <<log, stage>> /\ result'.reboot = result.reboot
        BY <2>2, <1>t DEF ForgiveMissingSn, StopWorkflow, files, program, UtoolResult
      <3>2. pc' = "done" \/ (pc' = pc /\ stage = "sn")
        BY <2>2 DEF ForgiveMissingSn, StopWorkflow, program, Over, Finish
      <3> QED
        BY <3>1, <3>2 DEF LogInv, InStage
    <2>3. CASE NextStage
      <3>1. /\ pc = "over" /\ GoesOn /\ pc' = "start" /\ UNCHANGED log
            /\ stage' = Following(stage) /\ result'.reboot = result.reboot
            /\ stage \in {"session", "sn", "logfile", "upload", "download", "uploadT"}
        BY <2>3, <1>t DEF NextStage, Enter, Over, files, UtoolResult
      <3>2. CASE stage \in {"session", "sn"}
        BY <3>1, <3>2 DEF LogInv, Early, InStage, Following
      <3>3. CASE stage = "logfile"
        BY <3>1, <3>3 DEF LogInv, Early, InStage, Following
      <3>4. CASE stage \in {"upload", "download", "uploadT"}
        BY <3>1, <3>4, LogStays DEF Early, Following
      <3> QED
        BY <3>1, <3>2, <3>3, <3>4
    <2>4. CASE VersionKnown \/ ActivateTransition \/ SwitchPlane
      <3>1. stage \in {"version", "upgradeT", "upgrade"} /\ UNCHANGED log
        BY <2>4 DEF VersionKnown, ActivateTransition, SwitchPlane, Over, files
      <3>2. stage' \in {stage, FirstTargetStage}
        BY <2>4 DEF VersionKnown, ActivateTransition, SwitchPlane, Enter
      <3>3. FirstTargetStage \notin Early
        <4>1. opt.file \in {"local", "remote", "bmc"}
          BY OptionsAssumption DEF TypeOK, Option
        <4> QED
          BY <4>1 DEF FirstTargetStage, Early
      <3> QED
        BY <3>1, <3>2, <3>3, LogStays DEF Early
    <2>5. CASE Refuse \/ StartTransition \/ StartTarget \/ TransitionDone \/ PlaneSwitched
      <3>1. pc \in {"check", "rebooted"} /\ UNCHANGED log
        BY <2>5 DEF Refuse, StartTransition, StartTarget, TransitionDone, PlaneSwitched, files
      <3>2. stage \notin Early
        BY <3>1 DEF LogInv, InStage
      <3>3. stage' \in {stage, FirstTargetStage, "uploadT", "version"}
        BY <2>5 DEF Refuse, StartTransition, StartTarget, TransitionDone, PlaneSwitched, Enter
      <3>4. FirstTargetStage \notin Early
        <4>1. opt.file \in {"local", "remote", "bmc"}
          BY OptionsAssumption DEF TypeOK, Option
        <4> QED
          BY <4>1 DEF FirstTargetStage, Early
      <3> QED
        BY <3>1, <3>2, <3>3, <3>4, LogStays DEF Early
    <2> QED
      BY <1>4, <2>1, <2>2, <2>3, <2>4, <2>5 DEF Workflow
  <1>5. CASE Activate
    <2>1. UNCHANGED <<stage, log>>
      BY <1>5 DEF Activate, StartActivation, SkipActivation, AwaitActivation, ActivationRebooted,
         ActivationDone, ActivationFails, Elsewhere, files
    <2>2. stage = "upgrade" \/ pc \in {"activate", "rebooted", "newversion"}
      BY <1>5 DEF Activate, StartActivation, SkipActivation, AwaitActivation, ActivationRebooted,
         ActivationDone, ActivationFails, AllUpgraded, Over
    <2>3. stage \notin Early
      BY <2>2 DEF LogInv, InStage, Early
    <2> QED
      BY <2>1, <2>3, LogStays
  <1>6. CASE GoDown \/ ComeUp \/ BeginLate \/ Terminated \/ UNCHANGED vars
    <2>1. UNCHANGED <<stage, log, pc, result>>
      BY <1>6 DEF GoDown, ComeUp, BeginLate, Terminated, vars, program, files
    <2> QED
      BY <2>1 DEF LogInv, InStage, GoesOn
  <1>7. CASE Crash
    <2>1. UNCHANGED <<stage, log, result>> /\ pc' = "crashed"
      BY <1>7 DEF Crash, files
    <2> QED
      BY <2>1, <1>7 DEF LogInv, Crash, Calling, Early, InStage, AllUpgraded, Over
  <1> QED
    BY <1>1, <1>2, <1>3, <1>4, <1>5, <1>6, <1>7 DEF Next, Program

-----------------------------------------------------------------------------
LEMMA InitIsSafe ==
  ASSUME Init
  PROVE  FwInv
  <1>1. 0 \in 0..Rounds /\ 0 \in 0..Polls
    BY BoundsAssumption
  <1>2. bmc \in Bmc
    BY VersionsAssumption DEF Init, Bmc
  <1>3. result \in UtoolResult
    BY DEF Init, UtoolResult
  <1>4. TypeOK
    BY <1>1, <1>2, <1>3 DEF Init, TypeOK, Reason, Stage, Early, NoVersion
  <1>5. RoundLeft /\ OptionsFirst /\ LogInv
    BY DEF Init, RoundLeft, OptionsFirst, LogInv, InReboot, InStage, Early
  <1> QED
    BY <1>4, <1>5 DEF FwInv

LEMMA FwInvIsKept ==
  ASSUME FwInv, [Next]_vars
  PROVE  FwInv'
  BY NextIsTyped, RoundLeftIsKept, OptionsStayFirst, LogInvIsKept DEF FwInv

\* The inductive invariant: types, a round left after a repair, and the log.
THEOREM FwInvariant == Spec => []FwInv
  <1>1. Init => FwInv
    BY InitIsSafe
  <1>2. FwInv /\ [Next]_vars => FwInv'
    BY FwInvIsKept
  <1> QED
    BY <1>1, <1>2, PTL DEF Spec

\* Every variable of the workflow keeps its type.
THEOREM TypeCorrect == Spec => []TypeOK
  <1>1. FwInv => TypeOK
    BY DEF FwInv
  <1> QED
    BY <1>1, FwInvariant, PTL

\* No log entry is written before the log file is there.
THEOREM EntriesHaveFile == Spec => []EntryHasFile
  <1>1. FwInv => EntryHasFile
    <2> SUFFICES ASSUME LogInv, InReboot \/ (InStage /\ Logged(stage)) PROVE log = "open"
      BY DEF FwInv, EntryHasFile
    <2>1. stage \notin Early
      BY DEF LogInv, InReboot, InStage, Logged, Early, Target
    <2> QED
      BY <2>1 DEF LogInv
  <1> QED
    BY <1>1, FwInvariant, PTL
=============================================================================
