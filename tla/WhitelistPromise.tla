--------------------------- MODULE WhitelistPromise ---------------------------
(***************************************************************************)
(* What the commands that change the IPMI white list promise: each makes   *)
(* its calls in the order of its command line and file, every call at most *)
(* once, none after one that failed, and reports success when all of them  *)
(* were taken.  A call with a character of the shell is left out, which    *)
(* forbids success, and one whose sub function is no number fails.  A      *)
(* utool that cannot read its own path sends nothing and promises nothing. *)
(***************************************************************************)
EXTENDS WhitelistCalls

CONSTANT Clients

VARIABLES
  opt,      \* the command lines
  path,     \* utools can read their own path
  bmc,      \* the white list of the BMC
  taken,    \* the places of the calls the BMC has taken
  report    \* what has been reported: pending, success, failure, nothing, crashed

promised == <<opt, path, bmc, taken, report>>

PInit ==
  /\ taken = [c \in Clients |-> {}]
  /\ report = [c \in Clients |-> "pending"]

\* Whatever comes before is done or cannot be done.
Due(c, place) ==
  /\ place \in Places(opt[c]) \ taken[c]
  /\ \A q \in Places(opt[c]) : Before(q, place) => q \in taken[c] \/ InsecureAt(opt[c], q)

Reported(c, word) == report' = [report EXCEPT ![c] = word]

\* A call is taken.  Its answer may get lost, which ends the command.
Call(c) ==
  /\ report[c] = "pending"
  /\ \E place \in Places(opt[c]) :
       /\ Due(c, place) /\ LegibleAt(opt[c], place)
       /\ bmc' = Apply(bmc, opt[c], place)
       /\ taken' = [taken EXCEPT ![c] = @ \cup {place}]
  /\ \/ UNCHANGED report
     \/ \E word \in {"success", "failure", "crashed"} :
          Reported(c, word) /\ (word = "success" => taken'[c] = Places(opt[c]))
  /\ UNCHANGED <<opt, path>>

End(c) ==
  /\ report[c] = "pending"
  /\ \/ Reported(c, "success") /\ (path = 1 => taken[c] = Places(opt[c]))
     \/ Reported(c, "nothing") /\ taken[c] = {}
     \/ Reported(c, "failure") \/ Reported(c, "crashed")
  /\ UNCHANGED <<opt, path, bmc, taken>>

PNext == \E c \in Clients : Call(c) \/ End(c)

PSpec == PInit /\ [][PNext]_promised
=============================================================================
