---------------------------- MODULE UpdatePromise ----------------------------
(***************************************************************************)
(* What fwupdate promises about the BMC it updates, whatever the stages,   *)
(* rounds and restarts look like.  Nothing is flashed for options, or for  *)
(* a version that was found, that the rules refuse.  An image of 6.39 or   *)
(* later only meets a BMC that takes it, unless the restart that was to    *)
(* prepare it was missed.  The transition image comes before the target,   *)
(* the first plane before the second, and success is reported, once, when  *)
(* each plane that was asked for is written, or its upgrade was taken by a *)
(* BMC of 2.58, which is all that is known of an upgrade over IPMI.        *)
(***************************************************************************)
EXTENDS TransitionCheck

CONSTANTS
  Options,   \* the command lines considered
  Versions   \* the versions a BMC may run at the start

VARIABLES
  opt,       \* the command line
  version,   \* what the BMC runs
  found,     \* what the command has found it to run
  flashed,   \* what the next restart starts
  written,   \* the planes the target image was flashed to
  taken,     \* the planes whose upgrade over IPMI the BMC has taken
  missed,    \* a poll was lost in the restart into the transition image
  report     \* pending, or how the command ended

promised == <<opt, version, found, flashed, written, taken, missed, report>>

Init ==
  /\ opt \in Options /\ version \in Versions
  /\ found = NoVersion /\ flashed = "none" /\ written = {} /\ taken = {}
  /\ missed = FALSE /\ report = "pending"

\* The planes that were asked for.
Asked == IF opt.dual = "Dual" THEN {1, 2} ELSE {1}

Granted ==
  /\ opt.type \in IPMI_SUPPORT_TYPES
  /\ RestrictedTarget(opt) => Eligible(found)

Look ==
  /\ found' = version
  /\ UNCHANGED <<opt, version, flashed, written, taken, missed, report>>

Miss ==
  /\ missed' = TRUE
  /\ UNCHANGED <<opt, version, found, flashed, written, taken, report>>

FlashTransition ==
  /\ Granted /\ TransitionRequired(opt, found)
  /\ Eligible(version)
  /\ written = {} /\ taken = {}
  /\ flashed' = "transition"
  /\ UNCHANGED <<opt, version, found, written, taken, missed, report>>

\* It is the plane's turn.
Turn(plane) ==
  /\ Granted
  /\ plane \in Asked
  /\ {p \in Asked : p < plane} \subseteq written \cup taken
  /\ {p \in Asked : p > plane} \cap (written \cup taken) = {}

\* Only of a local image, by a BMC of 2.58.
Takes(plane) ==
  /\ opt.file = "local" /\ found = BMC_USE_IPMI_VERSION
  /\ taken' = taken \cup {plane}

\* A command that waits for an upgrade over IPMI may crash on what it hears.
Told == UNCHANGED report \/ (report = "pending" /\ report' = "crashed")

Take(plane) ==
  /\ Turn(plane) /\ Takes(plane) /\ Told
  /\ UNCHANGED <<opt, version, found, flashed, written, missed>>

FlashTarget(plane) ==
  /\ Turn(plane)
  /\ RestrictedTarget(opt) => Eligible(version) /\ (Direct(version) \/ missed)
  /\ flashed' = "target"
  /\ written' = written \cup {plane}
  /\ (Takes(plane) /\ Told) \/ UNCHANGED <<taken, report>>
  /\ UNCHANGED <<opt, version, found, missed>>

\* The BMC starts what was flashed; an image without a version is not its own.
Restart ==
  /\ flashed # "none"
  /\ flashed' = "none"
  /\ version' = IF flashed = "transition" THEN BMC_TRANSITION_FM_VERSION
                ELSE IF opt.type = "BMC" /\ opt.target # NoVersion THEN opt.target ELSE version
  /\ UNCHANGED <<opt, found, written, taken, missed, report>>

\* A file that is on a BMC of 2.58 already is reported without being flashed.
Finish ==
  /\ report = "pending"
  /\ report' \in {"success", "failure", "NULL", "crashed"}
  /\ report' = "success" =>
       /\ Granted
       /\ Asked \subseteq written \cup taken \/ (opt.file = "bmc" /\ found = BMC_USE_IPMI_VERSION)
  /\ UNCHANGED <<opt, version, found, flashed, written, taken, missed>>

Next ==
  \/ Look \/ Miss \/ FlashTransition
  \/ \E plane \in {1, 2} : Take(plane) \/ FlashTarget(plane)
  \/ Restart \/ Finish

Spec == Init /\ [][Next]_promised
=============================================================================
