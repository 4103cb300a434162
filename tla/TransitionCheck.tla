--------------------------- MODULE TransitionCheck ---------------------------
(***************************************************************************)
(* Which firmware updates need the transition image first, which are       *)
(* refused, and which go ahead (update_outband_firmware.c,                 *)
(* isTransitionFirmwareUpgradeRequired).  The version rules of two servers *)
(* say: from a BMC older than 6.39 the image of 6.39 or later is reached   *)
(* through 6.36 only, and 6.36 may be installed from 6.32 and 6.38 only.   *)
(*                                                                         *)
(* A two-segment version "major.minor" is the number 100 * major + minor,  *)
(* which is also how an image file names its version ("V643").             *)
(***************************************************************************)
EXTENDS Integers

FourSegments == -1     \* a version of the new format, 3.03.10.15
NoVersion == 0         \* the file name shows no version: targetBmcVersion is NULL

BMC_USE_IPMI_VERSION == 258
BMC_TRANSITION_FM_VERSION == 636
BMC_TRANSITION_VERSION == 639
ALLOW_UPGRADE_TO_GE_639 == {632, 638}

IPMI_SUPPORT_TYPES == {"BMC", "BIOS", "CPLD"}

\* The options of one invocation: activateMode, where the image is (a local
\* file, a remote one, a file already on the BMC), firmwareType, dualImage,
\* whether the product is one of the two servers, and the image's version.
Option ==
  [mode : {"Auto", "Manual"}, file : {"local", "remote", "bmc"},
   type : {"NULL", "BMC", "BIOS", "CPLD", "PSUFW"}, dual : {"Single", "Dual"},
   product : {"2288H V5", "2298 V5", "other"}, target : Int]

\* The target image is one that an old BMC cannot take directly.
RestrictedTarget(opt) ==
  /\ opt.type = "BMC"
  /\ opt.product \in {"2288H V5", "2298 V5"}
  /\ opt.target \notin {NoVersion, FourSegments}
  /\ opt.target >= BMC_TRANSITION_VERSION

\* Versions that may take an image of 6.39 or later, and with those the ones
\* that are helped to it by the transition image.
Direct(v)   == v \in {636, FourSegments} \/ v >= 639
Eligible(v) == v \in {632, 638} \/ Direct(v)

\* The early returns before the active version is compared.
AsksDecision(opt, active) ==
  /\ RestrictedTarget(opt)
  /\ active # FourSegments
  /\ active # BMC_TRANSITION_FM_VERSION

TransitionRequired(opt, active) ==
  AsksDecision(opt, active) /\ active \in ALLOW_UPGRADE_TO_GE_639

\* What if: the comparison with the transition version is forgotten.
NeverRefused(opt, active) == FALSE

UpgradeRefused(opt, active) ==
  /\ AsksDecision(opt, active)
  /\ active \notin ALLOW_UPGRADE_TO_GE_639
  /\ active < BMC_TRANSITION_VERSION
=============================================================================
