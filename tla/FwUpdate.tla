------------------------------- MODULE FwUpdate -------------------------------
(***************************************************************************)
(* The fwupdate command (update_outband_firmware.c): a workflow of stages, *)
(* each run by RetryFunc in up to three rounds, with restarts of the BMC   *)
(* between rounds, after the transition image, between the two planes of a *)
(* dual update, and to activate a new BMC image.  The BMC runs beside it:  *)
(* it goes down and comes up, loses its /tmp and starts what was flashed.  *)
(*                                                                         *)
(* An answer of the BMC is abstracted to success, refusal (a text in desc, *)
(* code OK) or a transport error (a code); waiting for a task, which is    *)
(* module TaskWait, to the verdict it promises.  The texts, the progress   *)
(* on the console and the content of the log entries are left out.         *)
(***************************************************************************)
EXTENDS TransitionCheck

CONSTANTS
  Options,    \* the command lines considered, a subset of Option
  Versions,   \* the versions a BMC may run at the start
  Rounds,     \* UPGRADE_FIRMWARE_STEPS_RETRY_TIMES, 3 in the code
  Polls       \* polls of each wait in RebootBMC: 41 and 141 in the code

ASSUME OptionsAssumption  == Options \subseteq Option
ASSUME VersionsAssumption == Versions \subseteq Int
ASSUME BoundsAssumption   ==
  Rounds \in Nat \ {0} /\ Polls \in Nat

VARIABLES
  opt,       \* the command line
  pc,        \* where the command is
  stage,     \* the stage RetryFunc runs
  round,     \* retryTimes
  after,     \* why RebootBMC was called: what goes on when it returns
  polls,     \* polls left before its time limit
  plane,     \* 1, or 2 once a dual update has switched planes
  result,    \* UtoolResult
  named,     \* productName is known
  seen,      \* activeBmcVersion
  folder,    \* the folder of the log file exists
  log,       \* logFileFP
  mute,      \* disableLogEntry (and quiet) during the transition upgrade
  failed,    \* the failure of this round has been written to the log
  sent,      \* how the image was last uploaded
  activation, \* how PrintFirmwareVersion ended
  lost,      \* the restarts in which a poll of a running BMC got no answer
  bmc        \* the BMC: see Bmc

program == <<pc, stage, round, after, polls, plane>>
files   == <<folder, log, mute>>
facts   == <<named, seen, sent, activation>>
vars    == <<opt, program, result, facts, files, failed, lost, bmc>>

-----------------------------------------------------------------------------
Early   == {"session", "sn", "logfile"}
Target  == {"upload", "download", "upgrade"}
Transit == {"uploadT", "upgradeT"}
Stage   == Early \cup {"version"} \cup Target \cup Transit
Logged(s) == s \in Target \cup {"version"}     \* writeLogEntry of RetryFunc

InStage  == pc \in {"start", "call", "returned", "over"}
InReboot == pc \in {"reset", "shutdown", "poweron"}

\* Why RebootBMC is called: once each, except for the retries.
Reason == {"retry", "transition", "dual", "activate"}

UtoolResult == [broken : {0, 1}, code : {"OK", "ERR"}, reboot : {0, 1},
                desc : {"NULL", "failure", "success"},
                data : {"NULL", "task", "reason"}]

\* pending: a restart is due.  flashed: what that restart will start.  The
\* planes the target image was written to, those whose upgrade over IPMI was
\* taken, and the one of them whose upgrade the BMC is yet to begin.
Bmc == [up : {0, 1}, pending : {0, 1}, version : Int,
        flashed : {"none", "transition", "target"},
        tmp : SUBSET {"/tmp/web", "/tmp/image.hpm", "transition"},
        written : SUBSET {1, 2}, taken : SUBSET {1, 2}, due : SUBSET {1, 2}]

Eq258 == seen = BMC_USE_IPMI_VERSION      \* activeBmcVersionEq258

TypeOK ==
  /\ opt \in Options
  /\ pc \in {"options", "start", "call", "returned", "over", "check", "reset", "shutdown",
             "poweron", "rebooted", "activate", "newversion", "done", "crashed"}
  /\ stage \in Stage
  /\ round \in 0..Rounds
  /\ after \in Reason
  /\ polls \in 0..Polls
  /\ plane \in {1, 2}
  /\ result \in UtoolResult
  /\ named \in {0, 1} /\ folder \in {0, 1} /\ mute \in {0, 1} /\ failed \in {0, 1}
  /\ seen \in Int
  /\ log \in {"NULL", "open"}
  /\ sent \in {"nothing", "/tmp/web", "/tmp/image.hpm"}
  /\ activation \in {"none", "done", "failed", "no new version"}
  /\ lost \subseteq Reason
  /\ bmc \in Bmc

Init ==
  /\ opt \in Options
  /\ pc = "options" /\ stage = "session" /\ round = 0 /\ after = "retry"
  /\ polls = 0 /\ plane = 1
  /\ result = [broken |-> 0, code |-> "OK", reboot |-> 0, desc |-> "NULL", data |-> "NULL"]
  /\ named = 0 /\ seen = NoVersion /\ sent = "nothing" /\ activation = "none"
  /\ folder = 0 /\ log = "NULL" /\ mute = 0 /\ failed = 0
  /\ lost = {}
  /\ \E v \in Versions :
       bmc = [up |-> 1, pending |-> 0, version |-> v, flashed |-> "none", written |-> {},
              taken |-> {}, due |-> {},
              tmp |-> IF opt.file = "bmc" THEN {"/tmp/web"} ELSE {}]

-----------------------------------------------------------------------------
\* What a step does to the result.
Broken(code, desc) == [result EXCEPT !.broken = 1, !.code = code, !.desc = desc]
Cleared == [result EXCEPT !.broken = 0, !.code = "OK", !.desc = "NULL", !.data = "NULL"]

\* A request fails: refused by the BMC, or not answered.
RequestFailures == {Broken("OK", "failure"), Broken("ERR", result.desc)}

\* A wait for a task fails: the task did, a request did, or the polls were
\* given up without a text.
WaitFailures == RequestFailures \cup {Broken("OK", "NULL"), Broken("ERR", "NULL")}

Finish == pc' = "done"
Enter(s) == pc' = "start" /\ stage' = s

\* WriteFailedLogEntry: nothing while muted, nothing without code and desc.
WriteFailedLogEntry ==
  failed' = IF mute = 0 /\ (result'.code # "OK" \/ result'.desc # "NULL") THEN 1 ELSE 0

-----------------------------------------------------------------------------
\* The options are validated and the payload is built, or the command ends.
AcceptOptions ==
  /\ pc = "options"
  /\ Enter("session")
  /\ UNCHANGED <<opt, round, after, polls, plane, result, facts, files, failed, lost, bmc>>

RejectOptions ==
  /\ pc = "options"
  /\ result' = Broken("OK", "failure")
  /\ Finish
  /\ UNCHANGED <<opt, stage, round, after, polls, plane, facts, files, failed, lost, bmc>>

-----------------------------------------------------------------------------
\* RetryFunc.
StartStage ==
  /\ pc = "start"
  /\ round' = 1
  /\ failed' = 0
  /\ pc' = "call"
  /\ UNCHANGED <<opt, stage, after, polls, plane, result, facts, files, lost, bmc>>

\* What if: the rounds are not counted.
NewRoundUncounted ==
  /\ result' = Cleared
  /\ failed' = 0
  /\ pc' = "call"
  /\ UNCHANGED <<opt, round, stage, after, polls, plane, facts, files, lost, bmc>>

\* Data, text and code of the failed round are dropped; reboot is not.
NewRound ==
  /\ result' = Cleared
  /\ failed' = 0
  /\ round' = round + 1
  /\ pc' = "call"
  /\ UNCHANGED <<opt, stage, after, polls, plane, facts, files, lost, bmc>>

Repairable == result.reboot = 1 /\ opt.mode = "Auto"

\* What if: one round too many.
RetryNowOnceMore ==
  /\ pc = "returned" /\ result.broken = 1 /\ round <= Rounds
  /\ ~Repairable
  /\ NewRound

RetryNow ==
  /\ pc = "returned" /\ result.broken = 1 /\ round < Rounds
  /\ ~Repairable
  /\ NewRound

RebootForRetry ==
  /\ pc = "returned" /\ result.broken = 1 /\ round < Rounds
  /\ Repairable
  /\ result' = Cleared
  /\ after' = "retry"
  /\ lost' = lost \ {"retry"}
  /\ pc' = "reset"
  /\ UNCHANGED <<opt, stage, round, polls, plane, facts, files, failed, bmc>>

RetryAfterReboot ==
  /\ pc = "rebooted" /\ after = "retry" /\ result.broken = 0
  /\ NewRound

\* Success, the last round, or a restart that failed.
LeaveStage ==
  /\ \/ pc = "returned" /\ (result.broken = 0 \/ round = Rounds)
     \/ pc = "rebooted" /\ after = "retry" /\ result.broken = 1
  /\ pc' = "over"
  /\ UNCHANGED <<opt, stage, round, after, polls, plane, result, facts, files, failed, lost, bmc>>

RetryFunc == StartStage \/ RetryNow \/ RebootForRetry \/ RetryAfterReboot \/ LeaveStage

-----------------------------------------------------------------------------
\* The stage functions.  Calling(s) guards the call, Return ends it.
Calling(s) == pc = "call" /\ stage = s
Return == pc' = "returned" /\ UNCHANGED <<opt, stage, round, after, polls, plane, lost>>

CreateSession ==
  /\ Calling("session")
  /\ \/ bmc.up = 1 /\ UNCHANGED result
     \/ result' \in RequestFailures
  /\ Return
  /\ UNCHANGED <<facts, files, failed, bmc>>

\* What if: a failure here asks for a restart as well.
GetProductSnAskingReboot ==
  /\ Calling("sn")
  /\ \/ bmc.up = 1 /\ UNCHANGED result /\ named' = 1
     \/ result' \in {[r EXCEPT !.reboot = 1] : r \in RequestFailures} /\ UNCHANGED named
  /\ Return
  /\ UNCHANGED <<seen, sent, activation, files, failed, bmc>>

\* The model may be null, or the serial number only.
GetProductSn ==
  /\ Calling("sn")
  /\ \/ bmc.up = 1 /\ UNCHANGED result /\ named' = 1
     \/ bmc.up = 1 /\ result' = Broken("OK", result.desc) /\ named' \in {0, 1}
     \/ result' \in RequestFailures /\ UNCHANGED named
  /\ Return
  /\ UNCHANGED <<seen, sent, activation, files, failed, bmc>>

\* The folder is made first; once it exists, a later round cannot make it.
CreateLogFile ==
  /\ Calling("logfile")
  /\ \/ folder = 0 /\ folder' = 1 /\ log' = "open" /\ UNCHANGED result
     \/ folder' \in {folder, 1} /\ UNCHANGED log
        /\ result' = [Broken("OK", result.desc) EXCEPT !.data = "reason"]
  /\ Return
  /\ UNCHANGED <<mute, facts, failed, bmc>>

GetBmcVersion ==
  /\ Calling("version")
  /\ \/ bmc.up = 1 /\ seen' = bmc.version /\ UNCHANGED result
     \/ bmc.up = 1 /\ result' = Broken("OK", result.desc) /\ UNCHANGED seen
     \/ result' \in RequestFailures /\ UNCHANGED seen
  /\ Return
  /\ UNCHANGED <<named, sent, activation, files, failed, bmc>>

Transport == IF Eq258 THEN "/tmp/image.hpm" ELSE "/tmp/web"

UploadFails ==
  /\ \E r \in RequestFailures : result' = [r EXCEPT !.reboot = 1]
  /\ UNCHANGED bmc

UploadLocalFile ==
  /\ Calling("upload")
  /\ \/ /\ bmc.up = 1
        /\ bmc' = [bmc EXCEPT !.tmp = @ \cup {Transport}]
        /\ sent' = Transport
        /\ UNCHANGED <<result, failed>>
     \/ UploadFails /\ WriteFailedLogEntry /\ UNCHANGED sent
  /\ Return
  /\ UNCHANGED <<named, seen, activation, files>>

UploadTransitionFile ==
  /\ Calling("uploadT")
  /\ \/ /\ bmc.up = 1
        /\ bmc' = [bmc EXCEPT !.tmp = @ \cup {"transition"}]
        /\ UNCHANGED result
     \/ UploadFails
  /\ Return
  /\ UNCHANGED <<facts, files, failed>>

\* The BMC, as it is or with a command taken, flashes an image for a plane.  A
\* BMC image may make it restart.  It runs one upgrade at a time.
FlashedFor(side, image, taker) ==
  \E p \in {bmc.pending, 1} :
    /\ p # bmc.pending => opt.type = "BMC"
    /\ bmc' = [taker EXCEPT !.flashed = image, !.pending = p, !.due = {},
                            !.written = IF image = "target" THEN @ \cup {side} ELSE @]

Flashed(image) == FlashedFor(plane, image, bmc)

StartedTask == [result EXCEPT !.data = "task"]

\* The POST starts the whole update of a remote image, which goes on whatever
\* becomes of the wait.  Only a failed wait asks for a restart and is logged.
DownloadRemoteFile ==
  /\ Calling("download")
  /\ \/ bmc.up = 1 /\ result' = StartedTask /\ UNCHANGED <<failed, bmc>>
     \/ result' \in RequestFailures /\ UNCHANGED <<failed, bmc>>
     \/ /\ bmc.up = 1
        /\ result' \in {[r EXCEPT !.reboot = 1] : r \in WaitFailures}
        /\ UNCHANGED bmc \/ Flashed("target")
        /\ WriteFailedLogEntry
  /\ Return
  /\ UNCHANGED <<facts, files>>

\* Waiting for its task: the verdict is success only if it was flashed; it may
\* have been flashed although the polls were given up.
AwaitFlash(image, goodResult) ==
  \/ Flashed(image) /\ result' = goodResult /\ UNCHANGED failed
  \/ Flashed(image) /\ result' \in WaitFailures /\ WriteFailedLogEntry
  \/ UNCHANGED bmc /\ result' \in WaitFailures /\ WriteFailedLogEntry

\* A remote image: no request, the wait is on the task in result->data.
AwaitRemoteTask ==
  /\ opt.file = "remote"
  /\ \/ result.data = "task" /\ bmc.up = 1 /\ AwaitFlash("target", result)
     \/ result' \in RequestFailures \cup WaitFailures /\ UNCHANGED bmc /\ WriteFailedLogEntry

\* An image on the BMC: SimpleUpdate, which fails when the file is gone.
FlashUploaded(path, image, goodResult) ==
  \/ bmc.up = 1 /\ path \in bmc.tmp /\ AwaitFlash(image, goodResult)
  \/ result' \in WaitFailures /\ UNCHANGED bmc /\ WriteFailedLogEntry

UpgradeFirmwareByRedfish ==
  \/ AwaitRemoteTask
  \/ opt.file # "remote" /\ FlashUploaded("/tmp/web", "target", StartedTask)

\* The BMC takes the command that starts the upgrade of /tmp/image.hpm: it
\* flashes the image during the wait, begins after it, or never does.
UpgradeTaken ==
  LET taker == [bmc EXCEPT !.taken = @ \cup {plane}] IN
  /\ bmc.up = 1
  /\ \/ bmc' = [taker EXCEPT !.due = {}]
     \/ "/tmp/image.hpm" \in bmc.tmp /\ bmc' = [taker EXCEPT !.due = {plane}]
     \/ "/tmp/image.hpm" \in bmc.tmp /\ FlashedFor(plane, "target", taker)

\* WaitUtilIpmiUpgradeTaskFinish, which is module IpmiUpgrade, takes e4 for 100
\* and the zeros of a CPLD for its end: a success without an image flashed.
UpgradeFirmwareByIpmi ==
  \/ UpgradeTaken /\ UNCHANGED <<result, failed>>
  \/ (UpgradeTaken \/ UNCHANGED bmc) /\ result' \in WaitFailures /\ WriteFailedLogEntry

\* For a file that is on the BMC already UpgradeFirmwareByIpmi says "Wrong
\* method call" and returns unbroken.
UpgradeFirmware ==
  /\ Calling("upgrade")
  /\ \/ (~Eq258 \/ opt.file = "remote") /\ UpgradeFirmwareByRedfish
     \/ Eq258 /\ opt.file = "local" /\ UpgradeFirmwareByIpmi
     \/ Eq258 /\ opt.file = "bmc" /\ UNCHANGED <<result, failed, bmc>>
  /\ Return
  /\ UNCHANGED <<facts, files>>

UpgradeTransitionFirmware ==
  /\ Calling("upgradeT")
  /\ FlashUploaded("transition", "transition", StartedTask)
  /\ Return
  /\ UNCHANGED <<facts, files>>

StageFunction ==
  \/ CreateSession \/ GetProductSn \/ CreateLogFile \/ GetBmcVersion
  \/ UploadLocalFile \/ DownloadRemoteFile \/ UpgradeFirmware
  \/ UploadTransitionFile \/ UpgradeTransitionFirmware

-----------------------------------------------------------------------------
\* RebootBMC.  The answer to the reset request is not looked at; an activation
\* sends none, the BMC is expected to restart by itself.
Unmoved == UNCHANGED <<opt, stage, round, after, plane, facts, files>>

Reset ==
  /\ pc = "reset"
  /\ \/ bmc.up = 1 /\ bmc' = [bmc EXCEPT !.pending = 1]
     \/ UNCHANGED bmc
  /\ pc' = "shutdown"
  /\ polls' = Polls
  /\ UNCHANGED <<result, failed, lost>> /\ Unmoved

\* A poll that gets no answer is taken for the shutdown.
SeeShutdown ==
  /\ pc = "shutdown"
  /\ \/ bmc.up = 0 /\ UNCHANGED lost
     \/ bmc.up = 1 /\ lost' = lost \cup {after}
  /\ pc' = "poweron"
  /\ polls' = Polls
  /\ UNCHANGED <<result, failed, bmc>> /\ Unmoved

SeePowerOn ==
  /\ pc = "poweron"
  /\ bmc.up = 1
  /\ pc' = "rebooted"
  /\ UNCHANGED <<result, polls, failed, lost, bmc>> /\ Unmoved

\* Not yet: the BMC still answers, or does not answer yet (or not well).
PollAgain ==
  /\ \/ pc = "shutdown" /\ bmc.up = 1
     \/ pc = "poweron"
  /\ polls > 0
  /\ polls' = polls - 1
  /\ UNCHANGED <<pc, result, failed, lost, bmc>> /\ Unmoved

\* What if: a restart that did not happen is no failure.
TimeLimitExceedsIgnored ==
  /\ \/ pc = "shutdown" /\ bmc.up = 1
     \/ pc = "poweron"
  /\ polls = 0
  /\ pc' = "rebooted"
  /\ UNCHANGED <<result, polls, failed, lost, bmc>> /\ Unmoved

\* The time limit: a text, but no code.
TimeLimitExceeds ==
  /\ \/ pc = "shutdown" /\ bmc.up = 1
     \/ pc = "poweron"
  /\ polls = 0
  /\ result' = Broken(result.code, "failure")
  /\ failed' = IF mute = 0 THEN 1 ELSE failed
  /\ pc' = "rebooted"
  /\ UNCHANGED <<polls, lost, bmc>> /\ Unmoved

RebootBMC == Reset \/ SeeShutdown \/ SeePowerOn \/ PollAgain \/ TimeLimitExceeds

-----------------------------------------------------------------------------
\* UtoolCmdUpdateOutbandFirmware and the workflows: what follows a stage.
Over(S) == pc = "over" /\ stage \in S
GoesOn == result.broken = 0

FirstTargetStage ==
  CASE opt.file = "local"  -> "upload"
    [] opt.file = "remote" -> "download"
    [] opt.file = "bmc"    -> "upgrade"

\* Without a serial number the log folder has a shorter name, that is all.
ForgiveMissingSn ==
  /\ Over({"sn"}) /\ ~GoesOn /\ named = 1
  /\ result' = [result EXCEPT !.broken = 0, !.code = "OK"]
  /\ UNCHANGED <<opt, program, facts, files, failed, lost, bmc>>

\* The texts of these two stages are built by the caller; the data is freed.
StopWorkflow ==
  /\ \/ pc = "over" /\ ~(stage = "sn" /\ named = 1)
     \/ pc = "rebooted" /\ after \in {"transition", "dual"}
  /\ ~GoesOn
  /\ result' = [result EXCEPT !.data = "NULL",
                  !.desc = IF pc = "over" /\ stage \in {"logfile", "version"}
                           THEN "failure" ELSE @]
  /\ mute' = 0
  /\ Finish
  /\ UNCHANGED <<opt, stage, round, after, polls, plane, facts, folder, log, failed,
                 lost, bmc>>

Following(s) ==
  CASE s = "session" -> "sn"       [] s = "sn" -> "logfile"  [] s = "logfile" -> "version"
    [] s = "upload"  -> "upgrade"  [] s = "download" -> "upgrade"
    [] s = "uploadT" -> "upgradeT"

NextStage ==
  /\ Over({"session", "sn", "logfile", "upload", "download", "uploadT"}) /\ GoesOn
  /\ Enter(Following(stage))
  /\ result' = [result EXCEPT !.data = IF stage = "sn" THEN "NULL" ELSE @]
  /\ UNCHANGED <<opt, round, after, polls, plane, facts, files, failed, lost, bmc>>

\* What if: the backup plane is flashed from what was uploaded before.
VersionKnownNoUpload ==
  /\ Over({"version"}) /\ GoesOn
  /\ IF plane = 1 THEN pc' = "check" /\ UNCHANGED stage ELSE Enter("upgrade")
  /\ UNCHANGED <<opt, round, after, polls, plane, result, facts, files, failed, lost, bmc>>

\* What if: the rule of the versions is asked for neither plane.
VersionKnownUnchecked ==
  /\ Over({"version"}) /\ GoesOn
  /\ Enter(FirstTargetStage)
  /\ UNCHANGED <<opt, round, after, polls, plane, result, facts, files, failed, lost, bmc>>

\* ParseActiveBmcVersion is done: the first plane is checked, the second not.
VersionKnown ==
  /\ Over({"version"}) /\ GoesOn
  /\ IF plane = 1 THEN pc' = "check" /\ UNCHANGED stage ELSE Enter(FirstTargetStage)
  /\ UNCHANGED <<opt, round, after, polls, plane, result, facts, files, failed, lost, bmc>>

\* ValidateUpdateFirmwareOptionFor258 (for every version), then the transition.
Accepted == opt.type \in IPMI_SUPPORT_TYPES /\ ~UpgradeRefused(opt, seen)

Refuse ==
  /\ pc = "check"
  /\ ~Accepted
  /\ result' = Broken("OK", "failure")
  /\ Finish
  /\ UNCHANGED <<opt, stage, round, after, polls, plane, facts, files, failed, lost, bmc>>

StartTransition ==
  /\ pc = "check"
  /\ Accepted /\ TransitionRequired(opt, seen)
  /\ mute' = 1
  /\ Enter("uploadT")
  /\ UNCHANGED <<opt, round, after, polls, plane, result, facts, folder, log, failed,
                 lost, bmc>>

StartTarget ==
  /\ pc = "check"
  /\ Accepted /\ ~TransitionRequired(opt, seen)
  /\ Enter(FirstTargetStage)
  /\ UNCHANGED <<opt, round, after, polls, plane, result, facts, files, failed, lost, bmc>>

RebootInto(why) ==
  /\ result' = [result EXCEPT !.data = "NULL"]
  /\ after' = why
  /\ pc' = "reset"

ActivateTransition ==
  /\ Over({"upgradeT"}) /\ GoesOn
  /\ RebootInto("transition")
  /\ UNCHANGED <<opt, stage, round, polls, plane, facts, files, failed, lost, bmc>>

\* What if: logging stays off.
TransitionDoneMuted ==
  /\ pc = "rebooted" /\ after = "transition" /\ GoesOn
  /\ Enter(FirstTargetStage)
  /\ UNCHANGED <<opt, round, after, polls, plane, result, facts, files, failed, lost, bmc>>

TransitionDone ==
  /\ pc = "rebooted" /\ after = "transition" /\ GoesOn
  /\ mute' = 0
  /\ Enter(FirstTargetStage)
  /\ UNCHANGED <<opt, round, after, polls, plane, result, facts, folder, log, failed,
                 lost, bmc>>

DualNext == opt.dual = "Dual" /\ plane = 1

SwitchPlane ==
  /\ Over({"upgrade"}) /\ GoesOn /\ DualNext
  /\ RebootInto("dual")
  /\ UNCHANGED <<opt, stage, round, polls, plane, facts, files, failed, lost, bmc>>

PlaneSwitched ==
  /\ pc = "rebooted" /\ after = "dual" /\ GoesOn
  /\ plane' = 2
  /\ Enter("version")
  /\ UNCHANGED <<opt, round, after, polls, result, facts, files, failed, lost, bmc>>

\* What if: the backup plane of a dual update is forgotten.
AllUpgradedSingle == Over({"upgrade"}) /\ GoesOn

AllUpgraded == Over({"upgrade"}) /\ GoesOn /\ ~DualNext

-----------------------------------------------------------------------------
\* PrintFirmwareVersion and the end of the command: however the activation
\* went, the default success text is built; the code stays what it is.
Succeed(r) ==
  /\ result' = [r EXCEPT !.desc = "success", !.data = "NULL"]
  /\ Finish

Elsewhere == UNCHANGED <<opt, stage, round, after, plane, named, seen, sent, files, failed,
                         lost, bmc>>

\* The task names a firmware (2.58 takes it from the options), or it does not.
StartActivation ==
  /\ AllUpgraded
  /\ pc' = "activate"
  /\ UNCHANGED <<opt, stage, round, after, polls, plane, result, facts, files, failed,
                 lost, bmc>>

SkipActivation ==
  /\ AllUpgraded
  /\ ~Eq258
  /\ Succeed(result)
  /\ UNCHANGED <<polls, activation>> /\ Elsewhere

ActivationFails ==
  /\ \/ pc \in {"activate", "newversion"} /\ \E r \in RequestFailures : Succeed(r)
     \/ pc = "rebooted" /\ after = "activate" /\ ~GoesOn /\ Succeed(result)
  /\ activation' = IF pc = "newversion" THEN "no new version" ELSE "failed"
  /\ UNCHANGED polls /\ Elsewhere

\* A BMC image takes effect by a restart of the BMC, which is waited for.
AwaitActivation ==
  /\ pc = "activate" /\ bmc.up = 1
  /\ opt.type = "BMC"
  /\ pc' = "shutdown"
  /\ polls' = Polls
  /\ after' = "activate"
  /\ UNCHANGED <<opt, stage, round, plane, result, facts, files, failed, lost, bmc>>

ActivationRebooted ==
  /\ pc = "rebooted" /\ after = "activate" /\ GoesOn
  /\ pc' = "newversion"
  /\ UNCHANGED <<opt, stage, round, after, polls, plane, result, facts, files, failed,
                 lost, bmc>>

ActivationDone ==
  /\ \/ pc = "activate" /\ opt.type # "BMC"
     \/ pc = "newversion"
  /\ bmc.up = 1
  /\ Succeed(result)
  /\ activation' = "done"
  /\ UNCHANGED polls /\ Elsewhere

Activate ==
  \/ StartActivation \/ SkipActivation \/ AwaitActivation
  \/ ActivationRebooted \/ ActivationDone \/ ActivationFails

\* Where the program crashes.  A session that fails reads isOemMalloc and oem,
\* which UtoolGetRedfishServer2 has not initialised (redfish.c:990); the system
\* may have no Model or SerialNumber at all (lines 594, 608); a wait over IPMI is
\* given up with a text for a JSON, or has no output to split (lines 971, 1018,
\* 1112); and the task may name a firmware that firmwareMapping does not hold,
\* which is then searched beyond its end (lines 1910-1918).
Crash ==
  /\ \/ Calling("session") /\ UNCHANGED bmc
     \/ Calling("sn") /\ bmc.up = 1 /\ UNCHANGED bmc
     \/ Calling("upgrade") /\ Eq258 /\ opt.file = "local" /\ (UpgradeTaken \/ UNCHANGED bmc)
     \/ AllUpgraded /\ ~Eq258 /\ UNCHANGED bmc
  /\ pc' = "crashed"
  /\ UNCHANGED <<opt, stage, round, after, polls, plane, result, facts, files, failed, lost>>

Workflow ==
  \/ AcceptOptions \/ RejectOptions \/ ForgiveMissingSn \/ StopWorkflow \/ NextStage
  \/ VersionKnown \/ Refuse \/ StartTransition \/ StartTarget
  \/ ActivateTransition \/ TransitionDone \/ SwitchPlane \/ PlaneSwitched

Program == RetryFunc \/ StageFunction \/ Crash \/ RebootBMC \/ Workflow \/ Activate

-----------------------------------------------------------------------------
\* The BMC by itself.
StartedVersion ==
  IF bmc.flashed = "transition" THEN BMC_TRANSITION_FM_VERSION
  ELSE IF bmc.flashed = "target" /\ opt.type = "BMC" /\ opt.target # NoVersion THEN opt.target
  ELSE bmc.version

GoDown ==
  /\ bmc.up = 1 /\ bmc.pending = 1
  /\ \E kept \in {{}, bmc.tmp} :
       bmc' = [bmc EXCEPT !.up = 0, !.pending = 0, !.flashed = "none", !.tmp = kept,
                          !.due = {}, !.version = StartedVersion]
  /\ UNCHANGED <<opt, program, result, facts, files, failed, lost>>

ComeUp ==
  /\ bmc.up = 0
  /\ bmc' = [bmc EXCEPT !.up = 1]
  /\ UNCHANGED <<opt, program, result, facts, files, failed, lost>>

\* An upgrade over IPMI begins after the command has stopped waiting for it.
BeginLate ==
  /\ bmc.up = 1
  /\ \E side \in bmc.due : FlashedFor(side, "target", bmc)
  /\ UNCHANGED <<opt, program, result, facts, files, failed, lost>>

Terminated == pc \in {"done", "crashed"} /\ UNCHANGED vars

Next == Program \/ GoDown \/ ComeUp \/ BeginLate \/ Terminated

\* The command runs; nothing is assumed of the BMC.
Spec == Init /\ [][Next]_vars /\ WF_vars(Program)

-----------------------------------------------------------------------------
\* What utool prints: code # OK is always turned into a failure (utool_main).
Report == IF result.code # "OK" THEN "failure" ELSE result.desc

PlanesToUpgrade == IF opt.dual = "Dual" THEN {1, 2} ELSE {1}

\* WriteLogEntry prints to logFileFP without looking at it.  The stages before
\* CreateLogFile write none, but a restart does, so none may be asked for
\* until the file is there (update_outband_firmware.c:477, 2088, 2463).
EntryHasFile ==
  InReboot \/ (InStage /\ Logged(stage)) => log = "open"

\* Success is reported when the target image was flashed on every plane the
\* user asked for, or a 2.58 BMC has at least taken the command to flash it
\* there: what an upgrade over IPMI is told as a success is no more than that
\* (lines 1055 and 1132, module IpmiUpgrade).  Not even that holds of a file
\* that is on a 2.58 BMC already, which nobody flashes (line 872).
SuccessMeansUpgraded ==
  pc = "done" /\ Report = "success" /\ ~(Eq258 /\ opt.file = "bmc") =>
    /\ PlanesToUpgrade \subseteq bmc.written \cup bmc.taken
    /\ bmc.taken # {} => opt.file = "local"

\* A local image is flashed by the way it was uploaded for: 2.58 takes
\* /tmp/image.hpm over SFTP, every other version /tmp/web over HTTPS, and a
\* dual update may cross from the one to the other between the planes.
TransportMatches ==
  pc = "call" /\ stage = "upgrade" /\ opt.file = "local" => sent = Transport

\* After a restart that RebootBMC reports as done, nothing is left waiting for
\* a restart: whatever was flashed before is what the BMC runs now, and no
\* upgrade of before it begins any more.  It holds
\* of every restart that lost no poll, whatever was lost in those before.
RestartHasHappened ==
  pc = "rebooted" /\ GoesOn /\ after \notin lost =>
    bmc.pending = 0 /\ bmc.flashed = "none" /\ bmc.due = {}

\* Console and log are silenced for the transition upgrade only, whichever way
\* it ends (update_outband_firmware.c:1637-1669).
MutedOnlyForTransition ==
  mute = 1 => /\ stage \in Transit
              /\ pc \notin {"check", "activate", "newversion", "done"}

\* Until the command has been accepted the BMC is only read: no upload, no
\* update, no restart for options or versions that are refused.
RefusedIsUntouched ==
  [][bmc' # bmc /\ pc' # pc =>
       /\ opt.type \in IPMI_SUPPORT_TYPES
       /\ RestrictedTarget(opt) => Eligible(seen)]_vars

\* The requirement behind the transition image: no BMC older than 6.39 is
\* given an image of 6.39 or later, unless it runs 6.36 (or a poll was lost in
\* the restart into the transition image: no other loss matters).
TargetOnTransition ==
  [][bmc.flashed # "target" /\ bmc'.flashed = "target" =>
       ~RestrictedTarget(opt) \/ "transition" \in lost \/ Direct(bmc.version)]_vars

Reported == IF pc = "done" THEN Report ELSE IF pc = "crashed" THEN "crashed" ELSE "pending"

\* All of this in one: the command keeps what UpdatePromise promises of it.
Promise == INSTANCE UpdatePromise WITH
  version <- bmc.version, flashed <- bmc.flashed, written <- bmc.written, taken <- bmc.taken,
  found <- seen, missed <- ("transition" \in lost), report <- Reported

UpdateIsPromised == Promise!Spec

\* What is left to do: stages of the workflow, rounds of the stage, steps of
\* the round with the restart it may ask for, polls of that restart.
StagesLeft ==
  LET place == CASE stage = "session" -> 8  [] stage = "sn" -> 7       [] stage = "logfile" -> 6
                 [] stage = "version" -> 5  [] stage = "uploadT" -> 4  [] stage = "upgradeT" -> 3
                 [] stage \in {"upload", "download"} -> 2               [] stage = "upgrade" -> 1
  IN IF pc \in {"done", "crashed"} THEN 0 ELSE IF plane = 1 THEN place + 8 ELSE place

RoundsLeft == IF pc \in {"options", "start"} THEN Rounds ELSE Rounds - round

StepsLeft ==
  LET restart == CASE pc = "reset" -> 4 [] pc = "shutdown" -> 3 [] pc = "poweron" -> 2
                   [] pc = "rebooted" -> 1
  IN CASE pc = "options" -> 16   [] pc = "start" -> 15   [] pc = "call" -> 14
       [] pc = "returned" -> 13  [] pc = "over" -> 7 + result.broken
       [] pc \in {"check", "activate"} -> 6
       [] pc = "newversion" -> 1 [] pc \in {"done", "crashed"} -> 0
       [] OTHER -> IF after = "retry" THEN restart + 8 ELSE restart + 1

FewerLeft ==
  \/ StagesLeft' < StagesLeft
  \/ /\ StagesLeft' = StagesLeft
     /\ \/ RoundsLeft' < RoundsLeft
        \/ /\ RoundsLeft' = RoundsLeft
           /\ StepsLeft' < StepsLeft \/ (StepsLeft' = StepsLeft /\ polls' < polls)

\* Every step of the command, stage or poll, failure or repair, uses up
\* something of it, whatever the BMC does beside it: the command can only go
\* on for so long.  A repair starts no stage and no plane again.
StepsRunOut == [][Program => FewerLeft]_vars

\* The command ends, whatever the BMC does: rounds and polls are all bounded.
EventuallyDone == <>(pc \in {"done", "crashed"})

-----------------------------------------------------------------------------
\* What TypeOK and EntryHasFile need to be inductive.

\* A restart between two rounds is followed by another round.
RoundLeft ==
  (InReboot \/ pc = "rebooted") /\ after = "retry" => round < Rounds

\* The log file is there once its stage is behind, and nothing asks for a
\* restart before.
LogInv ==
  /\ stage \notin Early => log = "open"
  /\ stage \in Early => /\ result.reboot = 0
                        /\ pc \in {"options", "done", "crashed"} \/ InStage
  /\ stage = "logfile" /\ pc \in {"returned", "over"} /\ GoesOn => log = "open"

\* The workflow begins with the session.
OptionsFirst == pc = "options" => stage = "session"

FwInv == TypeOK /\ RoundLeft /\ OptionsFirst /\ LogInv

-----------------------------------------------------------------------------
\* What the other safety properties need to be inductive.

Restarting == InReboot \/ pc = "rebooted"
Done(s)    == stage = s /\ pc \in {"returned", "over"} /\ GoesOn

\* What is uploaded from where, where a broken result is left behind, and from
\* where planes are switched.
ControlInv ==
  /\ stage = "upload" => opt.file = "local"
  /\ stage = "download" => opt.file = "remote"
  /\ pc \in {"options", "start", "call", "check"} => GoesOn
  /\ pc = "check" => stage = "version" /\ plane = 1
  /\ Restarting /\ after = "dual" => stage = "upgrade"
  /\ pc # "done" => result.desc # "success"

\* While console and log are silent the only restarts are repairs and the one
\* that activates the transition image.
MuteInv ==
  mute = 1 =>
    /\ stage \in Transit
    /\ pc \notin {"options", "check", "activate", "newversion", "done"}
    /\ Restarting => after \in {"retry", "transition"}

\* A BMC that is down has taken up what was flashed.  In a wait that loses no
\* poll only such a BMC passes for one that restarts.
RestartInv ==
  /\ bmc.up = 0 => bmc.pending = 0 /\ bmc.flashed = "none" /\ bmc.due = {}
  /\ after \notin lost /\ (pc = "poweron" \/ (pc = "rebooted" /\ GoesOn)) =>
       bmc.pending = 0 /\ bmc.flashed = "none" /\ bmc.due = {}

\* The command has been accepted: the workflow is past the check.
Granted == plane = 2 \/ stage \in Target \cup Transit

\* Before it is accepted nothing is flashed and no restart is asked for, so the
\* version that was read is the version; after it, versions stay eligible.
GrantInv ==
  /\ ~Granted =>
       /\ result.reboot = 0 /\ bmc.flashed = "none"
       /\ ~Restarting /\ pc \notin {"activate", "newversion"}
       /\ Done("version") \/ pc = "check" => seen = bmc.version
  /\ Granted =>
       /\ opt.type \in IPMI_SUPPORT_TYPES
       /\ RestrictedTarget(opt) => Eligible(seen) /\ Eligible(bmc.version)

\* The transition image is flashed before the restart, and runs after it.
TransitInv ==
  "transition" \notin lost /\ RestrictedTarget(opt) =>
    /\ plane = 2 \/ stage \in Target => Direct(bmc.version)
    /\ Done("upgradeT") \/ (Restarting /\ after = "transition") =>
         bmc.flashed = "transition" \/ Direct(bmc.version)

\* An image that is on a 2.58 BMC is skipped, and the BMC stays a 2.58.
Skips   == Eq258 /\ opt.file = "bmc"
Skipped == Skips /\ bmc.version = BMC_USE_IPMI_VERSION /\ bmc.flashed = "none"

Concluding ==
  \/ pc \in {"activate", "newversion"}
  \/ Restarting /\ after = "activate"
  \/ pc = "done" /\ result.desc = "success"

\* Planes are written, or taken, one after the other, unless they are skipped.
Handled == bmc.written \cup bmc.taken

WrittenInv ==
  /\ stage \in Transit => plane = 1 /\ TransitionRequired(opt, seen)
  /\ plane = 1 /\ Skips => Skipped
  /\ plane = 2 \/ (Restarting /\ after = "dual") => 1 \in Handled \/ Skipped
  /\ Done("upgrade") => plane \in Handled \/ Skips
  /\ Concluding => PlanesToUpgrade \subseteq Handled \/ Skips

\* Only a 2.58 BMC takes upgrades, of images the rule of the versions is not
\* about, and what it is yet to begin is the last that it took.
TakenInv ==
  /\ bmc.due \subseteq bmc.taken
  /\ bmc.taken # {} => /\ opt.file = "local" /\ opt.type \in IPMI_SUPPORT_TYPES
                       /\ ~RestrictedTarget(opt)
  /\ 1 \in bmc.due => 2 \notin Handled

\* The target image is flashed by two stages only, to the plane of the day.
OrderInv ==
  /\ plane = 2 => opt.dual = "Dual"
  /\ Restarting /\ after = "dual" => plane = 1 /\ opt.dual = "Dual"
  /\ Restarting /\ after = "transition" => stage = "upgradeT"
  /\ plane = 1 => 2 \notin Handled
  /\ plane = 1 /\ stage \notin {"download", "upgrade"} => Handled = {}

\* What was uploaded last is what the upgrade will look for.
SentInv ==
  opt.file = "local" /\ (Done("upload") \/ stage = "upgrade") => sent = Transport

SafeInv ==
  /\ FwInv /\ ControlInv /\ MuteInv /\ RestartInv
  /\ GrantInv /\ TransitInv /\ WrittenInv /\ TakenInv /\ OrderInv
  /\ SentInv

-----------------------------------------------------------------------------
\* Statements of comments and notes that the code does not keep.

\* "a failed upgrade must be retryable, 3 times at most" (line 1353): a round
\* of UpgradeFirmware for a remote image needs the task that DownloadRemoteFile
\* started, which RetryFunc has freed before every round but the first.
RetryHasTask ==
  pc = "call" /\ stage = "upgrade" /\ opt.file = "remote" => result.data = "task"

\* "Force Reboot BMC to make sure that transition firmware has been actived"
\* (line 1652): one poll without an answer is taken for the shutdown.
TransitionIsActive ==
  pc = "rebooted" /\ after = "transition" /\ GoesOn =>
    bmc.version = BMC_TRANSITION_FM_VERSION
=============================================================================
