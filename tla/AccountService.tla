--------------------------- MODULE AccountService ---------------------------
(***************************************************************************)
(* What adduser, setpwd, setpriv and deluser promise to several users of   *)
(* utool who work on the accounts of one BMC: each command is one change,  *)
(* of the account it names, and reports success only with that change.     *)
(* deluser promises less: see Delete.                                      *)
(***************************************************************************)
EXTENDS Naturals

CONSTANTS
  Clients,   \* running instances of utool
  Slots,     \* places of the account service: /AccountService/Accounts/<slot>
  Users,     \* user names
  Values     \* new roles and passwords

NoUser == "no user"

Cmd == {"adduser", "setpwd", "setpriv", "deluser"}
Command == [cmd : Cmd, user : Users, value : Values]

VARIABLES command, account, report

avars == <<command, account, report>>

Holds(s, u) == account[s].name = u
Free(s) == Holds(s, NoUser)
Taken(u) == \E s \in Slots : Holds(s, u)

AInit ==
  /\ \A s, t \in Slots : account[s].name = account[t].name => s = t \/ Free(s)
  /\ report = [c \in Clients |-> "pending"]

\* The command reports; an answer that got lost makes it report a failure.
Reports(c, r) ==
  /\ report[c] = "pending"
  /\ report' = [report EXCEPT ![c] = r]

Add(c) ==
  /\ command[c].cmd = "adduser"
  /\ ~Taken(command[c].user)
  /\ \E s \in Slots :
       /\ Free(s)
       /\ account' = [account EXCEPT ![s] = [name |-> command[c].user,
                        role |-> command[c].value, password |-> command[c].value]]

SetPassword(c) ==
  /\ command[c].cmd = "setpwd"
  /\ \E s \in Slots :
       /\ Holds(s, command[c].user)
       /\ account' = [account EXCEPT ![s].password = command[c].value]

SetRole(c) ==
  /\ command[c].cmd = "setpriv"
  /\ \E s \in Slots :
       /\ Holds(s, command[c].user)
       /\ account' = [account EXCEPT ![s].role = command[c].value]

\* Somebody is deleted, not always the user that was named.
Delete(c) ==
  /\ command[c].cmd = "deluser"
  /\ \E s \in Slots :
       /\ ~Free(s)
       /\ account' = [account EXCEPT ![s].name = NoUser]

Change(c) == Add(c) \/ SetPassword(c) \/ SetRole(c) \/ Delete(c)

Work(c) ==
  /\ UNCHANGED command
  /\ \/ Change(c) /\ \E r \in {"success", "failure"} : Reports(c, r)
     \/ UNCHANGED account /\ Reports(c, "failure")

ANext == \E c \in Clients : Work(c)

ASpec == AInit /\ [][ANext]_avars
=============================================================================
