------------------------------- MODULE Accounts -------------------------------
(***************************************************************************)
(* The account commands (add_user.c, set_pwd.c, set_priv.c, del_user.c),   *)
(* run by several utools on one BMC.  A command looks for its user by      *)
(* reading the accounts one by one, and changes the account it found with  *)
(* a request of its own: whatever happens in between must be noticed by    *)
(* the ETag that setpwd and setpriv send along, and deluser does not.      *)
(*                                                                         *)
(* An answer is abstracted to success, refusal (HTTP status above 400) or  *)
(* no usable answer (a code); the text of a failure is left out.           *)
(***************************************************************************)
EXTENDS Naturals

CONSTANTS Clients, Slots, Users, Values,
  Commands,   \* the commands considered
  Initial     \* the role and the password that accounts have before

VARIABLES
  command,  \* what each client has been called for
  account,  \* the accounts on the BMC
  stamp,    \* the last ETag the BMC gave out
  pc,       \* where each client is
  todo,     \* members of the list that have not been read
  url,      \* userAccountUrl, the slot that was read last
  userJson, \* what was read there, its ETag included
  desc,     \* the text handed to utool_main
  code      \* and the code

program == <<pc, todo, url, userJson>>
output  == <<desc, code>>
bmc     == <<account, stamp>>
vars    == <<command, bmc, program, output>>

\* What utool prints: a code is always turned into a failure (utool_main).
Report(c) ==
  CASE pc[c] = "crashed" -> "failure"
    [] pc[c] = "done"    -> IF code[c] = "OK" /\ desc[c] = "success" THEN "success" ELSE "failure"
    [] OTHER             -> "pending"

\* The accounts without their ETags.
Content == [s \in Slots |-> [name |-> account[s].name, role |-> account[s].role,
                             password |-> account[s].password]]

\* A command is one change, reported when it was made: module AccountService.
Promise == INSTANCE AccountService
             WITH account <- Content, report <- [c \in Clients |-> Report(c)]

ASSUME CommandsAssumption == Commands \subseteq Promise!Command
ASSUME AccountsAssumption ==
  Slots \subseteq Nat \ {0} /\ Promise!NoUser \notin Users /\ Initial \in Values

NoUser == Promise!NoUser
Account == [name : Users \cup {NoUser}, role : Values, password : Values, etag : Nat]
Blank == [name |-> NoUser, role |-> Initial, password |-> Initial, etag |-> 0]

Named(c) == command[c].user
Sets(c) == command[c].cmd \in {"setpwd", "setpriv"}

TypeOK ==
  /\ command \in [Clients -> Commands]
  /\ account \in [Slots -> Account]
  /\ stamp \in Nat
  /\ pc \in [Clients -> {"connect", "list", "find", "modify", "done",
                         "crashed"}]
  /\ todo \in [Clients -> SUBSET Slots]
  /\ url \in [Clients -> Slots \cup {0}]
  /\ userJson \in [Clients -> Account]
  /\ desc \in [Clients -> {"NULL", "failure", "success"}]
  /\ code \in [Clients -> {"OK", "ERR"}]
  /\ \A c \in Clients : pc[c] = "modify" /\ command[c].cmd # "adduser" => url[c] \in Slots

Init ==
  /\ command \in [Clients -> Commands]
  /\ account \in [Slots -> {[Blank EXCEPT !.name = u] : u \in Users \cup {NoUser}}]
  /\ \A s, t \in Slots : account[s].name = account[t].name => s = t \/ account[s].name = NoUser
  /\ stamp = 0
  /\ pc = [c \in Clients |-> "connect"]
  /\ todo = [c \in Clients |-> {}] /\ url = [c \in Clients |-> 0]
  /\ userJson = [c \in Clients |-> Blank]
  /\ desc = [c \in Clients |-> "NULL"] /\ code = [c \in Clients |-> "OK"]

-----------------------------------------------------------------------------
\* How a command ends: what it has read is freed.
Goto(c, where) == pc' = [pc EXCEPT ![c] = where]

Finish(c, text, ret) ==
  /\ Goto(c, "done")
  /\ desc' = [desc EXCEPT ![c] = text]
  /\ code' = [code EXCEPT ![c] = ret]
  /\ todo' = [todo EXCEPT ![c] = {}]
  /\ url' = [url EXCEPT ![c] = 0]
  /\ userJson' = [userJson EXCEPT ![c] = Blank]
  /\ UNCHANGED command

Refused(c)    == Finish(c, "failure", "OK")
Unanswered(c) == Finish(c, desc[c], "ERR")

RejectOptions(c) ==
  /\ pc[c] = "connect"
  /\ Refused(c)
  /\ UNCHANGED bmc

\* With good options UtoolGetRedfishServer asks for the system id, then for the OEM name.  When
\* the second is refused its text stays behind and the command goes on, since
\* the caller sees the code and the system id only.
Connect(c) ==
  /\ pc[c] = "connect"
  /\ Goto(c, IF command[c].cmd = "adduser" THEN "modify" ELSE "list")
  /\ \E text \in {"NULL", "failure"} : desc' = [desc EXCEPT ![c] = text]
  /\ UNCHANGED <<command, bmc, todo, url, userJson, code>>

ConnectFails(c) ==
  /\ pc[c] = "connect"
  /\ Refused(c) \/ Unanswered(c)
  /\ UNCHANGED bmc

\* When either is refused or not answered, UtoolGetRedfishServer2 jumps over
\* the initialisation of isOemMalloc and oem and then reads them: it may free a
\* pointer it never had.
Crash(c) ==
  /\ pc[c] = "connect"
  /\ Goto(c, "crashed")
  /\ UNCHANGED <<command, bmc, todo, url, userJson, output>>

ListMembers(c) ==
  /\ pc[c] = "list"
  /\ Goto(c, "find")
  /\ todo' = [todo EXCEPT ![c] = {s \in Slots : account[s].name # NoUser}]
  /\ UNCHANGED <<command, bmc, url, userJson, output>>

ListFails(c) ==
  /\ pc[c] = "list"
  /\ Refused(c) \/ Unanswered(c)
  /\ UNCHANGED bmc

\* The members are read in order until the user is found.
NextMember(c, s) == s \in todo[c] /\ \A t \in todo[c] : s <= t

\* What if: the first account is taken for the one looked for.
ReadMemberNoMatch(c) ==
  /\ pc[c] = "find"
  /\ \E s \in Slots :
       /\ NextMember(c, s)
       /\ account[s].name # NoUser
       /\ url' = [url EXCEPT ![c] = s]
       /\ userJson' = [userJson EXCEPT ![c] = account[s]]
       /\ todo' = [todo EXCEPT ![c] = @ \ {s}]
       /\ Goto(c, "modify")
  /\ UNCHANGED <<command, bmc, output>>

ReadMember(c) ==
  /\ pc[c] = "find"
  /\ \E s \in Slots :
       /\ NextMember(c, s)
       /\ account[s].name # NoUser
       /\ url' = [url EXCEPT ![c] = s]
       /\ userJson' = [userJson EXCEPT ![c] = account[s]]
       /\ todo' = [todo EXCEPT ![c] = @ \ {s}]
       /\ Goto(c, IF account[s].name = Named(c) THEN "modify" ELSE "find")
  /\ UNCHANGED <<command, bmc, output>>

\* A member may have been deleted since the list was read.  setpriv writes the
\* refusal to outputStr, which it overwrites with result->desc when it ends.
ReadFails(c) ==
  /\ pc[c] = "find" /\ todo[c] # {}
  /\ \/ command[c].cmd = "setpriv" /\ Finish(c, desc[c], "OK")
     \/ command[c].cmd # "setpriv" /\ Refused(c)
     \/ Unanswered(c)
  /\ UNCHANGED bmc

\* What if: the change is sent although no account was found.
NotFoundUnnoticed(c) ==
  /\ pc[c] = "find" /\ todo[c] = {}
  /\ Goto(c, "modify")
  /\ UNCHANGED <<command, bmc, todo, url, userJson, output>>

NotFound(c) ==
  /\ pc[c] = "find" /\ todo[c] = {}
  /\ Refused(c)
  /\ UNCHANGED bmc

-----------------------------------------------------------------------------
\* The change.  The BMC makes it and says so, or the answer is lost, or the
\* request is, or it is refused.
Answered(c) == Finish(c, "success", "OK") \/ Unanswered(c)

Write(s, a) ==
  /\ account' = [account EXCEPT ![s] = [a EXCEPT !.etag = stamp + 1]]
  /\ stamp' = stamp + 1

NotChanged(c) ==
  /\ pc[c] = "modify"
  /\ Refused(c) \/ Unanswered(c)
  /\ UNCHANGED bmc

AddUser(c) ==
  /\ pc[c] = "modify" /\ command[c].cmd = "adduser"
  /\ \A s \in Slots : account[s].name # Named(c)
  /\ \E s \in Slots :
       /\ account[s].name = NoUser
       /\ Write(s, [account[s] EXCEPT !.name = Named(c), !.role = command[c].value,
                                      !.password = command[c].value])
  /\ Answered(c)

\* What if: no If-Match is sent.
IfMatchAny(c) == account[url[c]].name # NoUser

\* The BMC makes a PATCH when the ETag sent with it is the one of the account.
IfMatch(c) == account[url[c]].name # NoUser /\ account[url[c]].etag = userJson[c].etag

SetPassword(c) ==
  /\ pc[c] = "modify" /\ command[c].cmd = "setpwd"
  /\ IfMatch(c)
  /\ Write(url[c], [account[url[c]] EXCEPT !.password = command[c].value])
  /\ Answered(c)

SetUserPriv(c) ==
  /\ pc[c] = "modify" /\ command[c].cmd = "setpriv"
  /\ IfMatch(c)
  /\ Write(url[c], [account[url[c]] EXCEPT !.role = command[c].value])
  /\ Answered(c)

\* What if: the status of the answer is not looked at.
DeleteUserUnchecked(c) ==
  /\ pc[c] = "modify" /\ command[c].cmd = "deluser"
  /\ IF account[url[c]].name # NoUser
     THEN Write(url[c], [account[url[c]] EXCEPT !.name = NoUser])
     ELSE UNCHANGED bmc
  /\ Answered(c)

\* ifMatchHeader is built, but the DELETE is sent without it.
DeleteUser(c) ==
  /\ pc[c] = "modify" /\ command[c].cmd = "deluser"
  /\ account[url[c]].name # NoUser
  /\ Write(url[c], [account[url[c]] EXCEPT !.name = NoUser])
  /\ Answered(c)

Client(c) ==
  \/ RejectOptions(c) \/ Connect(c) \/ ConnectFails(c)
  \/ Crash(c) \/ ListMembers(c) \/ ListFails(c) \/ ReadMember(c) \/ ReadFails(c) \/ NotFound(c)
  \/ AddUser(c) \/ SetPassword(c) \/ SetUserPriv(c) \/ DeleteUser(c) \/ NotChanged(c)

AllDone == (\A c \in Clients : pc[c] \in {"done", "crashed"}) /\ UNCHANGED vars

Next == (\E c \in Clients : Client(c)) \/ AllDone

Spec == Init /\ [][Next]_vars

-----------------------------------------------------------------------------
\* setpwd and setpriv change the account they have found, as they have read
\* it: not another user who got the slot meanwhile, and not over a change that
\* somebody else made meanwhile.
SetsWhatWasRead ==
  [][\A c \in Clients : Sets(c) /\ pc'[c] # pc[c] /\ account' # account =>
       account[url[c]] = userJson[c] /\ userJson[c].name = Named(c)]_vars

\* Each command is one atomic change of the account it names, and success is
\* reported with that change and not without it.
CommandsAreAtomic == Promise!ASpec

\* An ETag names one content of one slot: what was read with the ETag the
\* account has now is what the account is now.
EtagInv ==
  /\ \A s \in Slots : account[s].etag <= stamp
  /\ \A c \in Clients : userJson[c].etag <= stamp
  /\ \A c \in Clients : pc[c] = "modify" /\ command[c].cmd # "adduser" =>
       /\ userJson[c].name = Named(c)
       /\ account[url[c]].etag = userJson[c].etag => account[url[c]] = userJson[c]

\* Nothing is called a success before the command is done.
NotYet == \A c \in Clients : pc[c] # "done" => desc[c] # "success"

-----------------------------------------------------------------------------
\* Statements of the repository that the code does not keep.

\* "specifies the user to delete" (del_user.c:55): the account deleted is the
\* one with that name.
DeletesTheNamedUser ==
  [][\A c \in Clients, s \in Slots :
       /\ command[c].cmd = "deluser" /\ pc'[c] # pc[c]
       /\ account'[s].name # account[s].name
       => account[s].name = Named(c)]_vars
=============================================================================
