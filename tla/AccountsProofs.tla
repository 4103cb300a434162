---------------------------- MODULE AccountsProofs ----------------------------
(***************************************************************************)
(* For any number of utools and accounts: setpwd and setpriv change what   *)
(* they have read, and every command is the atomic change that module      *)
(* AccountService states.                                                  *)
(***************************************************************************)
EXTENDS Accounts, TLAPS

AccInv == TypeOK /\ EtagInv /\ NotYet

Modifies(c) == pc[c] = "modify" /\ command[c].cmd # "adduser"

-----------------------------------------------------------------------------
\* What Finish does to the output, and what it leaves alone.
LEMMA FinishEffect ==
  ASSUME TypeOK, NEW c \in Clients, NEW text \in {"NULL", "failure", "success"},
         NEW ret \in {"OK", "ERR"}, Finish(c, text, ret)
  PROVE  /\ pc' \in [Clients -> {"connect", "list", "find", "modify", "done", "crashed"}]
         /\ pc'[c] = "done" /\ \A d \in Clients : d # c => pc'[d] = pc[d]
         /\ desc' \in [Clients -> {"NULL", "failure", "success"}]
         /\ desc'[c] = text /\ \A d \in Clients : d # c => desc'[d] = desc[d]
         /\ code' \in [Clients -> {"OK", "ERR"}]
         /\ code'[c] = ret /\ \A d \in Clients : d # c => code'[d] = code[d]
         /\ todo' \in [Clients -> SUBSET Slots] /\ url' \in [Clients -> Slots \cup {0}]
         /\ userJson' \in [Clients -> Account] /\ userJson'[c].etag = 0
         /\ \A d \in Clients : d # c => url'[d] = url[d] /\ userJson'[d] = userJson[d]
         /\ UNCHANGED command
  <1>1. Blank \in Account /\ Blank.etag = 0
    BY AccountsAssumption DEF Account, Blank, NoUser
  <1> QED
    BY <1>1 DEF TypeOK, Finish, Goto

\* The same for every way a command ends: some text, some code.
LEMMA EndEffect ==
  ASSUME TypeOK, NEW c \in Clients,
         Refused(c) \/ Unanswered(c) \/ Answered(c) \/ Finish(c, desc[c], "OK")
  PROVE  \E text \in {"NULL", "failure", "success"}, ret \in {"OK", "ERR"} :
           Finish(c, text, ret)
  <1>1. desc[c] \in {"NULL", "failure", "success"}
    BY DEF TypeOK
  <1> QED
    BY <1>1 DEF Refused, Unanswered, Answered

\* Write changes one slot and gives it an ETag that was never seen.
LEMMA WriteEffect ==
  ASSUME TypeOK, NEW s \in Slots, NEW a \in Account, Write(s, a)
  PROVE  /\ account' \in [Slots -> Account]
         /\ stamp' \in Nat /\ stamp' = stamp + 1
         /\ account'[s] = [a EXCEPT !.etag = stamp + 1]
         /\ account'[s].etag = stamp + 1
         /\ \A t \in Slots : t # s => account'[t] = account[t]
  <1>1. stamp \in Nat /\ account \in [Slots -> Account]
    BY DEF TypeOK
  <1>2. [a EXCEPT !.etag = stamp + 1] \in Account
    BY <1>1 DEF Account
  <1> QED
    BY <1>1, <1>2 DEF Write, Account

\* Whoever changes an account, the change is a Write of an account.
LEMMA ChangeIsWrite ==
  ASSUME TypeOK, NEW c \in Clients,
         AddUser(c) \/ SetPassword(c) \/ SetUserPriv(c) \/ DeleteUser(c)
  PROVE  \E s \in Slots, a \in Account : Write(s, a)
  <1>0. command[c] \in Promise!Command /\ account \in [Slots -> Account]
    BY CommandsAssumption DEF TypeOK
  <1>1. CASE AddUser(c)
    <2>1. PICK s \in Slots :
            Write(s, [account[s] EXCEPT !.name = Named(c), !.role = command[c].value,
                                        !.password = command[c].value])
      BY <1>1 DEF AddUser
    <2>2. [account[s] EXCEPT !.name = Named(c), !.role = command[c].value,
                             !.password = command[c].value] \in Account
      BY <1>0 DEF Account, Named, Promise!Command
    <2> QED
      BY <2>1, <2>2
  <1>2. CASE SetPassword(c)
    <2>1. url[c] \in Slots
      BY <1>2 DEF SetPassword, TypeOK
    <2>2. [account[url[c]] EXCEPT !.password = command[c].value] \in Account
      BY <1>0, <2>1 DEF Account, Promise!Command
    <2> QED
      BY <1>2, <2>1, <2>2 DEF SetPassword
  <1>3. CASE SetUserPriv(c)
    <2>1. url[c] \in Slots
      BY <1>3 DEF SetUserPriv, TypeOK
    <2>2. [account[url[c]] EXCEPT !.role = command[c].value] \in Account
      BY <1>0, <2>1 DEF Account, Promise!Command
    <2> QED
      BY <1>3, <2>1, <2>2 DEF SetUserPriv
  <1>4. CASE DeleteUser(c)
    <2>1. url[c] \in Slots
      BY <1>4 DEF DeleteUser, TypeOK
    <2>2. [account[url[c]] EXCEPT !.name = NoUser] \in Account
      BY <1>0, <2>1 DEF Account
    <2> QED
      BY <1>4, <2>1, <2>2 DEF DeleteUser
  <1> QED
    BY <1>1, <1>2, <1>3, <1>4

Ending(c) ==
  \/ RejectOptions(c) \/ ConnectFails(c) \/ ListFails(c) \/ ReadFails(c) \/ NotFound(c)
  \/ NotChanged(c)

\* A command that ends without a change leaves the BMC alone.
LEMMA EndingEffect ==
  ASSUME TypeOK, NEW c \in Clients, Ending(c)
  PROVE  /\ UNCHANGED bmc
         /\ \E text \in {"NULL", "failure", "success"}, ret \in {"OK", "ERR"} :
              Finish(c, text, ret)
  <1>1. UNCHANGED bmc
    BY DEF Ending, RejectOptions, ConnectFails, ListFails, ReadFails, NotFound, NotChanged
  <1>2. Refused(c) \/ Unanswered(c) \/ Finish(c, desc[c], "OK")
    BY DEF Ending, RejectOptions, ConnectFails, ListFails, ReadFails, NotFound, NotChanged
  <1> QED
    BY <1>1, <1>2, EndEffect

Changing(c) == AddUser(c) \/ SetPassword(c) \/ SetUserPriv(c) \/ DeleteUser(c)

\* A command that changes something ends by it.
LEMMA ChangingEffect ==
  ASSUME TypeOK, NEW c \in Clients, Changing(c)
  PROVE  /\ pc[c] = "modify" /\ Answered(c)
         /\ \E s \in Slots, a \in Account : Write(s, a)
         /\ \E text \in {"NULL", "failure", "success"}, ret \in {"OK", "ERR"} :
              Finish(c, text, ret)
  <1>1. pc[c] = "modify" /\ Answered(c)
    BY DEF Changing, AddUser, SetPassword, SetUserPriv, DeleteUser
  <1> QED
    BY <1>1, EndEffect, ChangeIsWrite DEF Changing

\* The steps of a client by what they do.
LEMMA ClientSteps ==
  ASSUME NEW c \in Clients, Client(c)
  PROVE  \/ Ending(c) \/ Changing(c) \/ Crash(c)
         \/ Connect(c) \/ ListMembers(c) \/ ReadMember(c)
  BY DEF Client, Ending, Changing

-----------------------------------------------------------------------------
\* Types are kept.
LEMMA AccountsTyped ==
  ASSUME TypeOK, [Next]_vars
  PROVE  TypeOK'
  <1>t. /\ command \in [Clients -> Commands] /\ account \in [Slots -> Account] /\ stamp \in Nat
        /\ pc \in [Clients -> {"connect", "list", "find", "modify", "done", "crashed"}]
        /\ todo \in [Clients -> SUBSET Slots] /\ url \in [Clients -> Slots \cup {0}]
        /\ userJson \in [Clients -> Account]
        /\ desc \in [Clients -> {"NULL", "failure", "success"}]
        /\ code \in [Clients -> {"OK", "ERR"}]
    BY DEF TypeOK
  <1>m. \A c \in Clients : Modifies(c) => url[c] \in Slots
    BY DEF TypeOK, Modifies
  <1>1. ASSUME NEW c \in Clients, Ending(c) \/ Changing(c)
        PROVE  TypeOK'
    <2>1. PICK text \in {"NULL", "failure", "success"}, ret \in {"OK", "ERR"} :
            Finish(c, text, ret)
      BY <1>1, EndingEffect, ChangingEffect
    <2>2. account' \in [Slots -> Account] /\ stamp' \in Nat
      <3>1. CASE Ending(c)
        BY <3>1, <1>t, EndingEffect DEF bmc
      <3>2. CASE Changing(c)
        <4>1. PICK s \in Slots, a \in Account : Write(s, a)
          BY <3>2, ChangingEffect
        <4> QED
          BY <4>1, WriteEffect
      <3> QED
        BY <1>1, <3>1, <3>2
    <2>3. /\ pc' \in [Clients -> {"connect", "list", "find", "modify", "done", "crashed"}]
          /\ pc'[c] = "done" /\ \A d \in Clients : d # c => pc'[d] = pc[d]
          /\ desc' \in [Clients -> {"NULL", "failure", "success"}]
          /\ code' \in [Clients -> {"OK", "ERR"}]
          /\ todo' \in [Clients -> SUBSET Slots] /\ url' \in [Clients -> Slots \cup {0}]
          /\ userJson' \in [Clients -> Account]
          /\ \A d \in Clients : d # c => url'[d] = url[d]
          /\ UNCHANGED command
      BY <2>1, FinishEffect
    <2>4. \A d \in Clients : Modifies(d)' => url'[d] \in Slots
      BY <2>3, <1>m DEF Modifies
    <2> QED
      BY <2>2, <2>3, <2>4, <1>t DEF TypeOK, Modifies
  <1>2. ASSUME NEW c \in Clients, Connect(c) \/ Crash(c)
        PROVE  TypeOK'
    <2>1. /\ UNCHANGED <<command, bmc, todo, url, userJson, code>>
          /\ desc' \in [Clients -> {"NULL", "failure", "success"}]
          /\ \/ Goto(c, "list") \/ Goto(c, "crashed")
             \/ Goto(c, "modify") /\ command[c].cmd = "adduser"
      BY <1>2, <1>t DEF Connect, Crash, output
    <2>2. /\ pc' \in [Clients -> {"connect", "list", "find", "modify", "done", "crashed"}]
          /\ \A d \in Clients : d # c => pc'[d] = pc[d]
          /\ pc'[c] = "modify" => command[c].cmd = "adduser"
      BY <2>1, <1>t DEF Goto
    <2>3. \A d \in Clients : Modifies(d)' => url'[d] \in Slots
      BY <2>1, <2>2, <1>m DEF Modifies
    <2> QED
      BY <2>1, <2>2, <2>3, <1>t DEF TypeOK, Modifies, bmc
  <1>3. ASSUME NEW c \in Clients, ListMembers(c)
        PROVE  TypeOK'
    <2>1. /\ UNCHANGED <<command, bmc, url, userJson, output>>
          /\ todo' \in [Clients -> SUBSET Slots]
      BY <1>3, <1>t DEF ListMembers
    <2>2. /\ pc' \in [Clients -> {"connect", "list", "find", "modify", "done", "crashed"}]
          /\ \A d \in Clients : d # c => pc'[d] = pc[d]
          /\ pc'[c] = "find"
      BY <1>3, <1>t DEF ListMembers, Goto
    <2>3. \A d \in Clients : Modifies(d)' => url'[d] \in Slots
      BY <2>1, <2>2, <1>m DEF Modifies
    <2> QED
      BY <2>1, <2>2, <2>3, <1>t DEF TypeOK, Modifies, bmc, output
  <1>4. ASSUME NEW c \in Clients, ReadMember(c)
        PROVE  TypeOK'
    <2>1. PICK s \in Slots :
            /\ url' = [url EXCEPT ![c] = s]
            /\ userJson' = [userJson EXCEPT ![c] = account[s]]
            /\ todo' = [todo EXCEPT ![c] = @ \ {s}]
            /\ Goto(c, IF account[s].name = Named(c) THEN "modify" ELSE "find")
      BY <1>4 DEF ReadMember
    <2>2. UNCHANGED <<command, bmc, output>>
      BY <1>4 DEF ReadMember
    <2>3. /\ url' \in [Clients -> Slots \cup {0}] /\ url'[c] = s
          /\ \A d \in Clients : d # c => url'[d] = url[d] /\ pc'[d] = pc[d]
      BY <2>1, <1>t DEF Goto
    <2>4. userJson' \in [Clients -> Account] /\ todo' \in [Clients -> SUBSET Slots]
      BY <2>1, <1>t
    <2>5. pc' \in [Clients -> {"connect", "list", "find", "modify", "done", "crashed"}]
      BY <2>1, <1>t DEF Goto
    <2>6. \A d \in Clients : Modifies(d)' => url'[d] \in Slots
      BY <2>2, <2>3, <1>m DEF Modifies
    <2> QED
      BY <2>2, <2>3, <2>4, <2>5, <2>6, <1>t DEF TypeOK, Modifies, bmc, output
  <1>5. CASE UNCHANGED vars
    BY <1>5 DEF TypeOK, vars, bmc, program, output
  <1> QED
    BY <1>1, <1>2, <1>3, <1>4, <1>5, ClientSteps DEF Next, AllDone

\* What was read under the ETag of an account is that account.
LEMMA EtagsAreKept ==
  ASSUME TypeOK, EtagInv, [Next]_vars
  PROVE  EtagInv'
  <1>t. /\ account \in [Slots -> Account] /\ userJson \in [Clients -> Account] /\ stamp \in Nat
        /\ pc \in [Clients -> {"connect", "list", "find", "modify", "done", "crashed"}]
        /\ url \in [Clients -> Slots \cup {0}]
        /\ \A a \in Account : a.etag \in Nat
    BY DEF TypeOK, Account
  <1>m. \A c \in Clients : Modifies(c) => url[c] \in Slots
    BY DEF TypeOK, Modifies
  <1>i. /\ \A s \in Slots : account[s].etag <= stamp
        /\ \A c \in Clients : userJson[c].etag <= stamp
        /\ \A c \in Clients : Modifies(c) =>
             /\ userJson[c].name = Named(c)
             /\ account[url[c]].etag = userJson[c].etag => account[url[c]] = userJson[c]
    BY DEF EtagInv, Modifies
  <1>1. ASSUME NEW c \in Clients, Ending(c)
        PROVE  EtagInv'
    <2>1. PICK text \in {"NULL", "failure", "success"}, ret \in {"OK", "ERR"} :
            Finish(c, text, ret)
      BY <1>1, EndingEffect
    <2>2. /\ pc'[c] = "done" /\ UNCHANGED command /\ userJson'[c].etag = 0
          /\ \A d \in Clients : d # c =>
               pc'[d] = pc[d] /\ url'[d] = url[d] /\ userJson'[d] = userJson[d]
      BY <2>1, FinishEffect
    <2>3. \A d \in Clients : Modifies(d)' => Modifies(d)
      BY <2>2 DEF Modifies
    <2>4. UNCHANGED bmc
      BY <1>1, EndingEffect
    <2>5. \A d \in Clients : userJson'[d].etag <= stamp'
      BY <1>i, <1>t, <2>2, <2>4 DEF bmc
    <2>6. \A d \in Clients : Modifies(d)' => d # c
      BY <2>2 DEF Modifies
    <2> QED
      BY <1>i, <2>2, <2>3, <2>4, <2>5, <2>6 DEF EtagInv, Modifies, Named, bmc
  <1>2. ASSUME NEW c \in Clients, Changing(c)
        PROVE  EtagInv'
    <2>1. PICK text \in {"NULL", "failure", "success"}, ret \in {"OK", "ERR"} :
            Finish(c, text, ret)
      BY <1>2, ChangingEffect
    <2>2. /\ pc'[c] = "done" /\ UNCHANGED command /\ userJson'[c].etag = 0
          /\ \A d \in Clients : d # c =>
               pc'[d] = pc[d] /\ url'[d] = url[d] /\ userJson'[d] = userJson[d]
      BY <2>1, FinishEffect
    <2>3. PICK s \in Slots, a \in Account : Write(s, a)
      BY <1>2, ChangingEffect
    <2>4. /\ stamp' = stamp + 1 /\ account'[s].etag = stamp + 1
          /\ \A t \in Slots : t # s => account'[t] = account[t]
      BY <2>3, WriteEffect
    <2>5. \A t \in Slots : account'[t].etag <= stamp'
      BY <1>i, <1>t, <2>4
    <2>6. \A d \in Clients : userJson'[d].etag <= stamp'
      BY <1>i, <1>t, <2>2, <2>4
    <2>7. ASSUME NEW d \in Clients, Modifies(d)'
          PROVE  /\ userJson'[d].name = Named(d)'
                 /\ account'[url'[d]].etag = userJson'[d].etag => account'[url'[d]] = userJson'[d]
      <3>1. Modifies(d) /\ url'[d] = url[d] /\ userJson'[d] = userJson[d] /\ url[d] \in Slots
        BY <2>2, <2>7, <1>m DEF Modifies
      <3>2. userJson[d].etag # stamp + 1
        BY <1>i, <1>t
      <3> QED
        BY <3>1, <3>2, <1>i, <2>2, <2>4 DEF Named
    <2> QED
      BY <2>5, <2>6, <2>7 DEF EtagInv, Modifies
  <1>3. ASSUME NEW c \in Clients, Connect(c) \/ ListMembers(c) \/ Crash(c)
        PROVE  EtagInv'
    <2>1. /\ UNCHANGED <<command, bmc, url, userJson>>
          /\ \/ Goto(c, "list") \/ Goto(c, "find") \/ Goto(c, "crashed")
             \/ Goto(c, "modify") /\ command[c].cmd = "adduser"
      BY <1>3 DEF Connect, ListMembers, Crash
    <2>2. \A d \in Clients : Modifies(d)' => Modifies(d)
      BY <2>1, <1>t DEF Goto, Modifies
    <2> QED
      BY <1>i, <2>1, <2>2 DEF EtagInv, Modifies, Named, bmc
  <1>4. ASSUME NEW c \in Clients, ReadMember(c)
        PROVE  EtagInv'
    <2>1. PICK s \in Slots :
            /\ url' = [url EXCEPT ![c] = s]
            /\ userJson' = [userJson EXCEPT ![c] = account[s]]
            /\ Goto(c, IF account[s].name = Named(c) THEN "modify" ELSE "find")
      BY <1>4 DEF ReadMember
    <2>2. UNCHANGED <<command, bmc>>
      BY <1>4 DEF ReadMember
    <2>3. /\ url'[c] = s /\ userJson'[c] = account[s]
          /\ pc'[c] = "modify" => account[s].name = Named(c)
          /\ \A d \in Clients : d # c =>
               url'[d] = url[d] /\ pc'[d] = pc[d] /\ userJson'[d] = userJson[d]
      BY <2>1, <1>t DEF Goto
    <2>4. \A d \in Clients : userJson'[d].etag <= stamp'
      BY <2>2, <2>3, <1>i DEF bmc
    <2>5. ASSUME NEW d \in Clients, Modifies(d)'
          PROVE  /\ userJson'[d].name = Named(d)'
                 /\ account'[url'[d]].etag = userJson'[d].etag => account'[url'[d]] = userJson'[d]
      BY <2>2, <2>3, <2>5, <1>i DEF Modifies, Named, bmc
    <2> QED
      BY <2>2, <2>4, <2>5, <1>i DEF EtagInv, Modifies, bmc
  <1>5. CASE UNCHANGED vars
    BY <1>5 DEF EtagInv, vars, bmc, program, Named
  <1> QED
    BY <1>1, <1>2, <1>3, <1>4, <1>5, ClientSteps DEF Next, AllDone

\* A client that works has no success to report yet.
LEMMA NoEarlySuccess ==
  ASSUME TypeOK, NotYet, [Next]_vars
  PROVE  NotYet'
  <1>1. ASSUME NEW c \in Clients, Ending(c) \/ Changing(c)
        PROVE  NotYet'
    <2>1. PICK text \in {"NULL", "failure", "success"}, ret \in {"OK", "ERR"} :
            Finish(c, text, ret)
      BY <1>1, EndingEffect, ChangingEffect
    <2> QED
      BY <2>1, FinishEffect DEF NotYet
  <1>2. ASSUME NEW c \in Clients,
               Connect(c) \/ Crash(c) \/ ListMembers(c) \/ ReadMember(c)
        PROVE  NotYet'
    <2>1. /\ \A d \in Clients : d # c => pc'[d] = pc[d] /\ desc'[d] = desc[d]
          /\ pc[c] # "done" /\ desc'[c] \in {desc[c], "NULL", "failure"}
      BY <1>2 DEF Connect, Crash, ListMembers, ReadMember, Goto, output, TypeOK
    <2> QED
      BY <2>1 DEF NotYet
  <1>3. CASE UNCHANGED vars
    BY <1>3 DEF NotYet, vars, program, output
  <1> QED
    BY <1>1, <1>2, <1>3, ClientSteps DEF Next, AllDone

-----------------------------------------------------------------------------
LEMMA InitHolds ==
  ASSUME Init
  PROVE  AccInv
  <1>1. Blank \in Account
    BY AccountsAssumption DEF Account, Blank, NoUser
  <1>2. \A u \in Users \cup {NoUser} : [Blank EXCEPT !.name = u] \in Account
    BY <1>1 DEF Account
  <1>3. account \in [Slots -> Account] /\ \A s \in Slots : account[s].etag = 0
    BY <1>2 DEF Init, Blank
  <1>4. userJson \in [Clients -> Account] /\ \A c \in Clients : userJson[c].etag = 0
    BY <1>1 DEF Init, Blank
  <1>5. TypeOK
    BY <1>3, <1>4 DEF Init, TypeOK
  <1>6. EtagInv
    BY <1>3, <1>4 DEF Init, EtagInv
  <1>7. NotYet
    BY DEF Init, NotYet
  <1> QED
    BY <1>5, <1>6, <1>7 DEF AccInv

\* The inductive invariant: the types, and what an ETag means.
THEOREM EtagsTellVersions == Spec => []AccInv
  <1>1. Init => AccInv
    BY InitHolds
  <1>2. AccInv /\ [Next]_vars => AccInv'
    BY AccountsTyped, EtagsAreKept, NoEarlySuccess DEF AccInv
  <1> QED
    BY <1>1, <1>2, PTL DEF Spec

\* Of all steps only those of the two set commands change an account in the
\* name of a set command, and they do it under an ETag.
LEMMA SetIsConditional ==
  ASSUME TypeOK, NEW c \in Clients, Sets(c), pc'[c] # pc[c], account' # account, [Next]_vars
  PROVE  Modifies(c) /\ account[url[c]].etag = userJson[c].etag /\ url[c] \in Slots
  <1>1. PICK d \in Clients : Client(d)
    BY DEF Next, AllDone, vars, bmc
  <1>2. Changing(d)
    <2>1. CASE Ending(d)
      BY <2>1, EndingEffect DEF bmc
    <2>2. CASE Connect(d) \/ Crash(d) \/ ListMembers(d) \/ ReadMember(d)
      BY <2>2 DEF Connect, Crash, ListMembers, ReadMember, bmc
    <2> QED
      BY <1>1, <2>1, <2>2, ClientSteps
  <1>3. c = d
    <2>1. PICK text \in {"NULL", "failure", "success"}, ret \in {"OK", "ERR"} :
            Finish(d, text, ret)
      BY <1>2, ChangingEffect
    <2> QED
      BY <2>1, FinishEffect
  <1>4. SetPassword(c) \/ SetUserPriv(c)
    BY <1>2, <1>3 DEF Changing, AddUser, DeleteUser, Sets
  <1> QED
    BY <1>4 DEF SetPassword, SetUserPriv, IfMatch, Modifies, TypeOK

\* setpwd and setpriv change the account they found, as they read it.
THEOREM SetsAreConditional == Spec => SetsWhatWasRead
  <1>1. AccInv /\ [Next]_vars =>
          [\A c \in Clients : Sets(c) /\ pc'[c] # pc[c] /\ account' # account =>
             account[url[c]] = userJson[c] /\ userJson[c].name = Named(c)]_vars
    <2> SUFFICES ASSUME AccInv, [Next]_vars, NEW c \in Clients, Sets(c), pc'[c] # pc[c],
                        account' # account
                 PROVE  account[url[c]] = userJson[c] /\ userJson[c].name = Named(c)
      OBVIOUS
    <2>1. Modifies(c) /\ account[url[c]].etag = userJson[c].etag
      BY SetIsConditional DEF AccInv
    <2> QED
      BY <2>1 DEF AccInv, EtagInv, Modifies
  <1> QED
    BY <1>1, EtagsTellVersions, PTL DEF Spec, SetsWhatWasRead

-----------------------------------------------------------------------------
\* Accounts implements AccountService.
Reported == [c \in Clients |-> Report(c)]

\* While a client works its report is pending, and stays so.
LEMMA StillPending ==
  ASSUME TypeOK, NEW c \in Clients, pc[c] \notin {"done", "crashed"},
         pc'[c] \notin {"done", "crashed"},
         \A d \in Clients : d # c => pc'[d] = pc[d],
         \A d \in Clients : d # c => desc'[d] = desc[d] /\ code'[d] = code[d]
  PROVE  Reported' = Reported
  <1>1. \A d \in Clients : Report(d)' = Report(d)
    BY DEF Report
  <1> QED
    BY <1>1 DEF Reported

\* A client that ends reports, and only once.
LEMMA EndReports ==
  ASSUME TypeOK, NEW c \in Clients, pc[c] \notin {"done", "crashed"},
         NEW text \in {"NULL", "failure", "success"}, NEW ret \in {"OK", "ERR"},
         Finish(c, text, ret)
  PROVE  Promise!Reports(c, IF ret = "OK" /\ text = "success" THEN "success" ELSE "failure")
  <1>1. /\ pc'[c] = "done" /\ desc'[c] = text /\ code'[c] = ret
        /\ \A d \in Clients : d # c => pc'[d] = pc[d] /\ desc'[d] = desc[d] /\ code'[d] = code[d]
    BY FinishEffect
  <1>2. Report(c) = "pending"
    BY DEF Report
  <1>3. Report(c)' = IF ret = "OK" /\ text = "success" THEN "success" ELSE "failure"
    BY <1>1 DEF Report
  <1>4. \A d \in Clients : d # c => Report(d)' = Report(d)
    BY <1>1 DEF Report
  <1> QED
    BY <1>2, <1>3, <1>4 DEF Promise!Reports

\* A Write of one slot is a change of that slot's content.
LEMMA WriteContent ==
  ASSUME TypeOK, NEW s \in Slots, NEW a \in Account, Write(s, a)
  PROVE  Content' = [Content EXCEPT ![s] = [name |-> a.name, role |-> a.role,
                                            password |-> a.password]]
  <1>1. /\ account'[s] = [a EXCEPT !.etag = stamp + 1]
        /\ \A t \in Slots : t # s => account'[t] = account[t]
    BY WriteEffect
  <1>2. /\ account'[s].name = a.name /\ account'[s].role = a.role
        /\ account'[s].password = a.password
    BY <1>1 DEF Account
  <1> QED
    BY <1>1, <1>2 DEF Content

\* The change of each command is the change it promises.
LEMMA ChangeIsPromised ==
  ASSUME AccInv, NEW c \in Clients, Changing(c)
  PROVE  Promise!Change(c)
  <1>0. /\ TypeOK /\ account \in [Slots -> Account]
        /\ command[c] \in Promise!Command
    BY CommandsAssumption DEF AccInv, TypeOK
  <1>c. /\ Content = [s \in Slots |-> Content[s]]
        /\ \A s \in Slots : /\ Content[s] = [name |-> account[s].name, role |-> account[s].role,
                                            password |-> account[s].password]
                            /\ Content[s].name = account[s].name
    BY DEF Content
  <1>1. CASE AddUser(c)
    <2>1. PICK s \in Slots :
            /\ account[s].name = NoUser
            /\ Write(s, [account[s] EXCEPT !.name = Named(c), !.role = command[c].value,
                                           !.password = command[c].value])
      BY <1>1 DEF AddUser
    <2> DEFINE a == [account[s] EXCEPT !.name = Named(c), !.role = command[c].value,
                                       !.password = command[c].value]
    <2>2. /\ a \in Account /\ a.name = command[c].user /\ a.role = command[c].value
          /\ a.password = command[c].value
      BY <1>0 DEF Account, Named, Promise!Command
    <2>3. Content' = [Content EXCEPT ![s] = [name |-> command[c].user,
                        role |-> command[c].value, password |-> command[c].value]]
      BY <2>1, <2>2, <1>0, WriteContent
    <2>4. command[c].cmd = "adduser" /\ \A t \in Slots : Content[t].name # command[c].user
      BY <1>1, <1>c DEF AddUser, Named
    <2>5. Content[s].name = NoUser
      BY <2>1, <1>c
    <2>6. Promise!Add(c)
      BY <2>3, <2>4, <2>5 DEF Promise!Add, Promise!Taken, Promise!Holds, Promise!Free, NoUser
    <2> QED
      BY <2>6 DEF Promise!Change
  <1>2. CASE SetPassword(c)
    <2>1. /\ Modifies(c) /\ url[c] \in Slots /\ command[c].cmd = "setpwd"
          /\ account[url[c]].etag = userJson[c].etag
          /\ Write(url[c], [account[url[c]] EXCEPT !.password = command[c].value])
      BY <1>2, <1>0 DEF SetPassword, IfMatch, Modifies, TypeOK
    <2> DEFINE s == url[c]
               a == [account[s] EXCEPT !.password = command[c].value]
    <2>2. /\ a \in Account /\ a.name = account[s].name /\ a.role = account[s].role
          /\ a.password = command[c].value
      BY <1>0, <2>1 DEF Account, Promise!Command
    <2>3. Content' = [Content EXCEPT ![s] = [name |-> account[s].name, role |-> account[s].role,
                                             password |-> command[c].value]]
      <3>1. Content' = [Content EXCEPT ![s] = [name |-> a.name, role |-> a.role,
                                               password |-> a.password]]
        BY <2>1, <2>2, <1>0, WriteContent
      <3> QED
        BY <3>1, <2>2
    <2>e. [Content[s] EXCEPT !.password = command[c].value] =
            [name |-> account[s].name, role |-> account[s].role, password |-> command[c].value]
      BY <2>1, <1>c
    <2>4. Content' = [Content EXCEPT ![s].password = command[c].value]
      BY <2>1, <2>3, <2>e, <1>c
    <2>5. Content[s].name = command[c].user
      BY <2>1, <1>c DEF AccInv, EtagInv, Modifies, Named
    <2>6. Promise!SetPassword(c)
      BY <2>1, <2>4, <2>5 DEF Promise!SetPassword, Promise!Holds
    <2> QED
      BY <2>6 DEF Promise!Change
  <1>3. CASE SetUserPriv(c)
    <2>1. /\ Modifies(c) /\ url[c] \in Slots /\ command[c].cmd = "setpriv"
          /\ account[url[c]].etag = userJson[c].etag
          /\ Write(url[c], [account[url[c]] EXCEPT !.role = command[c].value])
      BY <1>3, <1>0 DEF SetUserPriv, IfMatch, Modifies, TypeOK
    <2> DEFINE s == url[c]
               a == [account[s] EXCEPT !.role = command[c].value]
    <2>2. /\ a \in Account /\ a.name = account[s].name /\ a.password = account[s].password
          /\ a.role = command[c].value
      BY <1>0, <2>1 DEF Account, Promise!Command
    <2>3. Content' = [Content EXCEPT ![s] = [name |-> account[s].name,
                        role |-> command[c].value, password |-> account[s].password]]
      BY <2>1, <2>2, <1>0, WriteContent
    <2>e. [Content[s] EXCEPT !.role = command[c].value] =
            [name |-> account[s].name, role |-> command[c].value, password |-> account[s].password]
      BY <2>1, <1>c
    <2>4. Content' = [Content EXCEPT ![s].role = command[c].value]
      BY <2>1, <2>3, <2>e, <1>c
    <2>5. Content[s].name = command[c].user
      BY <2>1, <1>c DEF AccInv, EtagInv, Modifies, Named
    <2>6. Promise!SetRole(c)
      BY <2>1, <2>4, <2>5 DEF Promise!SetRole, Promise!Holds
    <2> QED
      BY <2>6 DEF Promise!Change
  <1>4. CASE DeleteUser(c)
    <2>1. /\ url[c] \in Slots /\ command[c].cmd = "deluser"
          /\ account[url[c]].name # NoUser
          /\ Write(url[c], [account[url[c]] EXCEPT !.name = NoUser])
      BY <1>4, <1>0 DEF DeleteUser, TypeOK
    <2> DEFINE s == url[c]
               a == [account[s] EXCEPT !.name = NoUser]
    <2>2. /\ a \in Account /\ a.name = NoUser /\ a.password = account[s].password
          /\ a.role = account[s].role
      BY <1>0, <2>1 DEF Account
    <2>3. Content' = [Content EXCEPT ![s] = [name |-> NoUser, role |-> account[s].role,
                                             password |-> account[s].password]]
      BY <2>1, <2>2, <1>0, WriteContent
    <2>e. [Content[s] EXCEPT !.name = NoUser] =
            [name |-> NoUser, role |-> account[s].role, password |-> account[s].password]
      BY <2>1, <1>c
    <2>4. Content' = [Content EXCEPT ![s].name = NoUser]
      BY <2>1, <2>3, <2>e, <1>c
    <2>5. Content[s].name # NoUser
      BY <2>1, <1>c
    <2>6. Promise!Delete(c)
      BY <2>1, <2>4, <2>5 DEF Promise!Delete, Promise!Free, Promise!Holds, NoUser
    <2> QED
      BY <2>6 DEF Promise!Change
  <1> QED
    BY <1>1, <1>2, <1>3, <1>4 DEF Changing

LEMMA InitIsPromised ==
  ASSUME Init
  PROVE  Promise!AInit
  <1>1. Reported = [c \in Clients |-> "pending"]
    BY DEF Init, Reported, Report
  <1>2. \A s \in Slots : Content[s].name = account[s].name
    BY DEF Content
  <1> QED
    BY <1>1, <1>2 DEF Init, Promise!AInit, Promise!Free, Promise!Holds, Reported, NoUser

LEMMA StepIsPromised ==
  ASSUME AccInv, [Next]_vars
  PROVE  [Promise!ANext]_(Promise!avars)
  <1>0. TypeOK
    BY DEF AccInv
  <1>1. ASSUME NEW c \in Clients, Ending(c)
        PROVE  Promise!ANext
    <2>1. /\ pc[c] \notin {"done", "crashed"} /\ UNCHANGED bmc
          /\ Refused(c) \/ Unanswered(c) \/ Finish(c, desc[c], "OK")
      BY <1>1 DEF Ending, RejectOptions, ConnectFails, ListFails, ReadFails, NotFound, NotChanged
    <2>2. UNCHANGED command
      BY <2>1 DEF Refused, Unanswered, Finish
    <2>3. Content' = Content
      BY <2>1 DEF Content, bmc
    <2>4. desc[c] \in {"NULL", "failure"}
      BY <2>1 DEF AccInv, TypeOK, NotYet
    <2>5. Promise!Reports(c, "failure")
      BY <2>1, <2>4, <1>0, EndReports DEF Refused, Unanswered
    <2> QED
      BY <2>2, <2>3, <2>5 DEF Promise!ANext, Promise!Work
  <1>2. ASSUME NEW c \in Clients, Changing(c)
        PROVE  Promise!ANext
    <2>1. pc[c] = "modify" /\ Answered(c)
      BY <1>0, <1>2, ChangingEffect
    <2>2. UNCHANGED command
      BY <2>1 DEF Answered, Unanswered, Finish
    <2>3. desc[c] \in {"NULL", "failure"}
      BY <2>1 DEF AccInv, TypeOK, NotYet
    <2>4. Promise!Reports(c, "success") \/ Promise!Reports(c, "failure")
      BY <2>1, <2>3, <1>0, EndReports DEF Answered, Unanswered
    <2> QED
      BY <1>2, <2>2, <2>4, ChangeIsPromised DEF Promise!ANext, Promise!Work
  <1>3. ASSUME NEW c \in Clients,
               Connect(c) \/ ListMembers(c) \/ ReadMember(c)
        PROVE  UNCHANGED Promise!avars
    <2>1. /\ UNCHANGED <<command, bmc>>
          /\ pc[c] \notin {"done", "crashed"}
          /\ \E where \in {"list", "find", "modify"} : Goto(c, where)
          /\ code' = code
          /\ desc' = desc \/ \E text \in {"NULL", "failure"} : desc' = [desc EXCEPT ![c] = text]
      BY <1>3 DEF Connect, ListMembers, ReadMember, output
    <2>2. /\ pc'[c] \notin {"done", "crashed"} /\ \A d \in Clients : d # c => pc'[d] = pc[d]
          /\ \A d \in Clients : d # c => desc'[d] = desc[d] /\ code'[d] = code[d]
      BY <2>1, <1>0 DEF Goto, TypeOK
    <2>3. Content' = Content /\ Reported' = Reported
      BY <2>1, <2>2, <1>0, StillPending DEF Content, bmc
    <2> QED
      BY <2>1, <2>3 DEF Promise!avars, Reported
  <1>5. ASSUME NEW c \in Clients, Crash(c)
        PROVE  Promise!ANext
    <2>1. /\ UNCHANGED <<command, bmc>> /\ pc[c] = "connect"
          /\ pc'[c] = "crashed" /\ \A d \in Clients : d # c => pc'[d] = pc[d]
          /\ UNCHANGED <<desc, code>>
      BY <1>5, <1>0 DEF Crash, Goto, output, TypeOK
    <2>2. /\ Report(c) = "pending" /\ Report(c)' = "failure"
          /\ \A d \in Clients : d # c => Report(d)' = Report(d)
      BY <2>1 DEF Report
    <2>3. Promise!Reports(c, "failure")
      BY <2>2 DEF Promise!Reports
    <2>4. Content' = Content
      BY <2>1 DEF Content, bmc
    <2> QED
      BY <2>1, <2>3, <2>4 DEF Promise!ANext, Promise!Work
  <1>4. CASE UNCHANGED vars
    <2>1. Content' = Content /\ \A c \in Clients : Report(c)' = Report(c)
      BY <1>4 DEF Content, Report, vars, bmc, program, output
    <2> QED
      BY <1>4, <2>1 DEF Promise!avars, vars
  <1> QED
    BY <1>1, <1>2, <1>3, <1>4, <1>5, ClientSteps DEF Next, AllDone

\* Every command is one atomic change of the account it names.
THEOREM CommandsImplementPromise == Spec => CommandsAreAtomic
  BY InitIsPromised, StepIsPromised, EtagsTellVersions, PTL
     DEF Spec, CommandsAreAtomic, Promise!ASpec

\* Accounts, ETags, texts and codes keep their types whatever the utools do.
THEOREM AccountsTypeCorrect == Spec => []TypeOK
  <1>1. AccInv => TypeOK
    BY DEF AccInv
  <1> QED
    BY <1>1, EtagsTellVersions, PTL

\* What was read of a slot under the ETag the slot has now is what it holds.
THEOREM EtagsAlwaysTell == Spec => []EtagInv
  <1>1. AccInv => EtagInv
    BY DEF AccInv
  <1> QED
    BY <1>1, EtagsTellVersions, PTL
=============================================================================
