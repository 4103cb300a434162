----------------------------- MODULE MCRequests -----------------------------
(* The request layer under every plan of every sub-command.                *)
EXTENDS Requests, CommandPlans
=============================================================================
