------------------------------ MODULE MCFwUpdate ------------------------------
(***************************************************************************)
(* Small instances of FwUpdate.  The command lines are grouped by what     *)
(* they make the workflow do.                                              *)
(***************************************************************************)
EXTENDS FwUpdate

Cmd(where, kinds, duals, products, targets) ==
  [mode : {"Auto", "Manual"}, file : where, type : kinds, dual : duals,
   product : products, target : targets]

AnyFile == {"local", "remote", "bmc"}

\* The two servers going to 6.43: refused, by way of 6.36, or directly.
ToNewBmc == Cmd({"local"}, {"BMC"}, {"Single", "Dual"}, {"2288H V5"}, {643})

\* Other firmware and other servers, from every kind of file.
Ordinary == Cmd(AnyFile, {"BMC"}, {"Single", "Dual"}, {"other"}, {630})
              \cup Cmd(AnyFile, {"CPLD", "PSUFW"}, {"Single"}, {"other"}, {NoVersion})

AllCommands == ToNewBmc \cup Ordinary

TransitionVersions == {632, 636, 637}
OrdinaryVersions   == {258, 643}
AllVersions        == TransitionVersions \cup OrdinaryVersions

RemoteOnly == {o \in Ordinary : o.file = "remote" /\ o.dual = "Single"}
=============================================================================
