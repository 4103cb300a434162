------------------------------- MODULE Whitelist -------------------------------
(***************************************************************************)
(* The commands that work over raw IPMI: setipmiwhitelist changes the      *)
(* white list of the BMC call by call, getipmiwhitelist reads it entry by  *)
(* entry, sendipmirawcmd sends one call that the user has spelt out.       *)
(* Several utools run at once on the white list of one BMC.                *)
(*                                                                         *)
(* Every call is an ipmitool run by UtoolIPMIExecRawCommand; it is         *)
(* abstracted to its effect and to what becomes of the UtoolResult.        *)
(***************************************************************************)
EXTENDS WhitelistCalls

CONSTANTS
  Setters, SetLines,     \* utools that run setipmiwhitelist, their command lines
  Senders, SendLines,    \* the same for sendipmirawcmd
  Getters, GetLines,     \* the same for getipmiwhitelist
  Lists,                 \* what the white list may hold at first
  Paths                  \* contains 0: a utool that cannot read its own path

Procs == Setters \cup Senders \cup Getters

ProperLine(o) ==
  /\ o \in Line
  /\ o.file.state # "read" => o.file.elements = <<>>

ASSUME ProcsAssumption ==
  /\ Setters \cap Getters = {} /\ Senders \cap (Setters \cup Getters) = {}
ASSUME LinesAssumption ==
  /\ \A o \in SetLines \cup SendLines \cup GetLines : ProperLine(o)
  /\ \A o \in SendLines : o.enabled = "none" /\ o.file.state = "none"
ASSUME ListsAssumption == Lists \subseteq Seq(Entry) /\ Paths \subseteq {0, 1}

VARIABLES
  opt,       \* the command line of each utool
  path,      \* readlink of /proc/self/exe works
  pc,        \* where each utool is
  at,        \* the place of its next call
  result,    \* its UtoolResult
  reading,   \* a getter's answers: see Reading
  bmc,       \* the white list of the BMC
  taken,     \* the places of the calls the BMC has taken from each utool
  cut        \* getters during whose reading an entry was removed

utool == <<pc, at, result>>
vars  == <<opt, path, utool, reading, bmc, taken, cut>>

-----------------------------------------------------------------------------
UtoolResult == [broken : {0, 1}, code : {"OK", "ERR"}, desc : {"NULL", "failure", "success"}]

\* whitelists, and the white list when its first entry was asked for.
Reading == [total : Nat, shown : Seq(Entry), base : Seq(Entry)]

Ended == {"done", "crashed"}

TypeOK ==
  /\ opt \in [Procs -> Line] /\ path \in {0, 1}
  /\ pc \in [Procs -> {"vendor", "connect", "options", "toggle", "single", "file", "element",
                       "call", "send", "conf", "first", "next"} \cup Ended]
  /\ at \in [Procs -> Nat \X Nat]
  /\ result \in [Procs -> UtoolResult]
  /\ reading \in [Getters -> Reading]
  /\ bmc \in Bmc
  /\ taken \in [Procs -> SUBSET (Nat \X Nat)]
  /\ cut \subseteq Getters

Init ==
  /\ \E s \in [Setters -> SetLines], x \in [Senders -> SendLines], g \in [Getters -> GetLines] :
       opt = [p \in Procs |-> IF p \in Setters THEN s[p] ELSE IF p \in Senders THEN x[p] ELSE g[p]]
  /\ path \in Paths
  /\ pc = [p \in Procs |-> IF p \in Senders THEN "connect" ELSE "vendor"]
  /\ at = [p \in Procs |-> IF p \in Senders THEN Only ELSE Switch]
  /\ result = [p \in Procs |-> [broken |-> 0, code |-> "OK", desc |-> "NULL"]]
  /\ reading = [g \in Getters |-> [total |-> 0, shown |-> <<>>, base |-> <<>>]]
  /\ bmc \in {[enabled |-> e, list |-> l, vendor |-> v] : e \in {0, 1}, l \in Lists, v \in Vendor}
  /\ taken = [p \in Procs |-> {}]
  /\ cut = {}

-----------------------------------------------------------------------------
\* Moves of a utool, and what they leave alone.
Unsent == UNCHANGED <<bmc, taken, cut>>
Quiet  == UNCHANGED <<opt, path, reading>>

Goto(p, where, place) ==
  /\ pc' = [pc EXCEPT ![p] = where]
  /\ at' = [at EXCEPT ![p] = place]

Leave(p, where) == pc' = [pc EXCEPT ![p] = where] /\ UNCHANGED at
Finish(p) == Leave(p, "done")

Fail(p, code, desc) ==
  result' = [result EXCEPT ![p] = [broken |-> 1, code |-> code, desc |-> desc]]

Refuse(p) == Fail(p, "OK", "failure") /\ Finish(p)

\* The default success text; the code stays what it is.
Succeed(p) == result' = [result EXCEPT ![p].desc = "success"] /\ Finish(p)

\* UtoolIPMIExecRawCommand fails: ipmitool does and its output is the reason,
\* or the output cannot be kept.
ExecFails(p) == Fail(p, "OK", "failure") \/ Fail(p, "ERR", result[p].desc)

-----------------------------------------------------------------------------
\* A call that changes the white list.
Take(p) ==
  /\ bmc' = Apply(bmc, opt[p], at[p])
  /\ taken' = [taken EXCEPT ![p] = @ \cup {at[p]}]
  /\ cut' = IF Len(bmc'.list) < Len(bmc.list)
            THEN cut \cup {g \in Getters : pc[g] = "next"} ELSE cut

\* ipmitool is run, and it sends the call if it can read the sub function.
Run(p)  == path = 1 /\ ~InsecureAt(opt[p], at[p])
Sent(p) == Run(p) /\ LegibleAt(opt[p], at[p]) /\ Take(p)

\* Taken and answered.
Accepted(p) == Sent(p) /\ UNCHANGED result

\* No answer, or a refusal: the BMC may have taken it all the same.
Failed(p) == Run(p) /\ ExecFails(p) /\ (Sent(p) \/ Unsent)

\* Nothing is sent without a path, and nobody is told.
Pathless == path = 0 /\ Unsent /\ UNCHANGED result

\* Nothing is sent for insecure characters; the code says so, broken does not.
Suspect(p) ==
  /\ path = 1 /\ InsecureAt(opt[p], at[p])
  /\ result' = [result EXCEPT ![p].code = "ERR"]
  /\ Unsent

\* What if: the next call is made although this one has failed.
ExecUnchecked(p, where, place) ==
  (Accepted(p) \/ Pathless \/ Suspect(p) \/ Failed(p)) /\ Goto(p, where, place)

\* The setter goes on unless the call is broken.
Exec(p, where, place) ==
  \/ (Accepted(p) \/ Pathless \/ Suspect(p)) /\ Goto(p, where, place)
  \/ Failed(p) /\ Finish(p)

-----------------------------------------------------------------------------
\* UtoolIPMIGetVendorId comes first and has a result of its own: a command that
\* ends here says nothing.  Without the connect options it cannot succeed.
AskVendor(p) ==
  /\ pc[p] = "vendor"
  /\ \/ (path = 0 \/ opt[p].host = 1) /\ Leave(p, "connect")
     \/ path = 1 /\ Finish(p)
  /\ UNCHANGED result /\ Unsent /\ Quiet

FirstStep(p) ==
  IF p \in Setters THEN "options" ELSE IF p \in Senders THEN "send" ELSE "conf"

Connect(p) ==
  /\ pc[p] = "connect"
  /\ \/ /\ opt[p].host = 0
        /\ result' = [result EXCEPT ![p].desc = "failure"] /\ Finish(p)
     \/ opt[p].host = 1 /\ UNCHANGED result /\ Leave(p, FirstStep(p))
  /\ Unsent /\ Quiet

-----------------------------------------------------------------------------
\* setipmiwhitelist.
ValidateSubcommandOptions(p) ==
  /\ pc[p] = "options"
  /\ \/ OptionsClash(opt[p]) /\ Refuse(p)
     \/ /\ ~OptionsClash(opt[p]) /\ opt[p].file.state = "unreadable"
        /\ Fail(p, "ERR", "NULL") /\ Finish(p)
     \/ /\ ~OptionsClash(opt[p]) /\ opt[p].file.state # "unreadable"
        /\ OperationMissing(opt[p]) /\ Refuse(p)
     \/ /\ ~OptionsClash(opt[p]) /\ opt[p].file.state # "unreadable"
        /\ ~OperationMissing(opt[p])
        /\ UNCHANGED result /\ Goto(p, "toggle", Switch)
  /\ Unsent /\ Quiet

ToggleIpmiWhitelist(p) ==
  /\ pc[p] = "toggle"
  /\ \/ opt[p].enabled = "none" /\ Goto(p, "single", Only) /\ UNCHANGED result /\ Unsent
     \/ opt[p].enabled # "none" /\ Exec(p, "single", Only)
  /\ Quiet

HandleWhitelistAction(p) ==
  /\ pc[p] = "single"
  /\ \/ opt[p].netfun = 0 /\ Goto(p, "file", <<1, 1>>) /\ UNCHANGED result /\ Unsent
     \/ opt[p].netfun = 1 /\ Exec(p, "file", <<1, 1>>)
  /\ Quiet

\* The whole file is read and parsed before its first element.
ParseFile(p) ==
  /\ pc[p] = "file"
  /\ LET file == opt[p].file
     IN \/ file.state = "none" /\ Succeed(p)
        \/ file.state # "none" /\ Fail(p, "ERR", result[p].desc) /\ Finish(p)
        \/ (file.state = "not JSON" \/ file.elements = <<>>) /\ file.state # "none" /\ Refuse(p)
        \/ file.state = "read" /\ file.elements # <<>> /\ UNCHANGED result
             /\ Goto(p, "element", <<1, 1>>)
  /\ Unsent /\ Quiet

Elements(p) == opt[p].file.elements

\* An element is looked at when the calls of those before have been made.
CheckElement(p) ==
  /\ pc[p] = "element"
  /\ LET e == at[p][1]
     IN \/ e > Len(Elements(p)) /\ Succeed(p)
        \/ e <= Len(Elements(p)) /\ Illegal(Elements(p)[e]) /\ Refuse(p)
        \/ /\ e <= Len(Elements(p)) /\ ~Illegal(Elements(p)[e])
           /\ UNCHANGED result /\ Goto(p, "call", <<e, 1>>)
  /\ Unsent /\ Quiet

\* What if: the loop over the elements does not move on.
CallElementAgain(p) ==
  /\ pc[p] = "call"
  /\ LET e == at[p][1]
         k == at[p][2]
         last == Count(Elements(p)[e])
     IN \/ k > last /\ Goto(p, "element", <<e, 1>>) /\ UNCHANGED result /\ Unsent
        \/ k <= last /\ Exec(p, "call", <<e, k + 1>>)
  /\ Quiet

CallElement(p) ==
  /\ pc[p] = "call"
  /\ LET e == at[p][1]
         k == at[p][2]
         last == Count(Elements(p)[e])
     IN \/ k > last /\ Goto(p, "element", <<e + 1, 1>>) /\ UNCHANGED result /\ Unsent
        \/ k <= last /\ Exec(p, "call", <<e, k + 1>>)
  /\ Quiet

Setter(p) ==
  \/ AskVendor(p) \/ Connect(p) \/ ValidateSubcommandOptions(p) \/ ToggleIpmiWhitelist(p)
  \/ HandleWhitelistAction(p) \/ ParseFile(p) \/ CheckElement(p) \/ CallElement(p)

-----------------------------------------------------------------------------
\* sendipmirawcmd.  After a failure it frees data: its own copy of a payload, a
\* string of the command line when validation or an empty payload made none.
Free(p, owned) ==
  Finish(p) \/ (~owned /\ opt[p].data # "none" /\ Leave(p, "crashed"))

RefuseRaw(p) ==
  /\ pc[p] = "send"
  /\ opt[p].netfun = 0 \/ opt[p].command = 0
  /\ Fail(p, "OK", "failure")
  /\ Free(p, FALSE)
  /\ Unsent /\ Quiet

\* Without output it fails, whether the result is broken or not.
SendRaw(p) ==
  /\ pc[p] = "send"
  /\ opt[p].netfun = 1 /\ opt[p].command = 1
  /\ \/ /\ Sent(p)
        /\ result' = [result EXCEPT ![p].desc = "success"] /\ Finish(p)
     \/ (Failed(p) \/ Pathless \/ Suspect(p)) /\ Free(p, opt[p].data = "some")
  /\ Quiet

Sender(p) == Connect(p) \/ RefuseRaw(p) \/ SendRaw(p)

-----------------------------------------------------------------------------
\* getipmiwhitelist.  A query changes nothing; it may fail at any time.
Untouched == Unsent /\ UNCHANGED <<opt, path>>

QueryFails(p) == path = 1 /\ ExecFails(p)

\* Without a path the answer is NULL, which does not end with "01 01".
GetConf(p) ==
  /\ pc[p] = "conf"
  /\ \/ (path = 0 \/ bmc.enabled = 0) /\ Succeed(p)
     \/ path = 1 /\ bmc.enabled = 1 /\ Leave(p, "first") /\ UNCHANGED result
     \/ QueryFails(p) /\ Finish(p)
  /\ UNCHANGED reading /\ Untouched

\* What if: what is left to read is kept, without asking whether it is none.
GetFirstUnasked(p) ==
  /\ pc[p] = "first"
  /\ Leave(p, "next") /\ UNCHANGED result
  /\ reading' = [reading EXCEPT ![p].total = Len(bmc.list) - 1]
  /\ cut' = cut \ {p}
  /\ UNCHANGED <<opt, path, bmc, taken>>

\* The first entry comes with the number of entries.
GetFirst(p) ==
  /\ pc[p] = "first"
  /\ \/ bmc.list = <<>> /\ Succeed(p) /\ UNCHANGED <<reading, cut>>
     \/ /\ bmc.list # <<>> /\ Leave(p, "next") /\ UNCHANGED result
        /\ reading' = [reading EXCEPT ![p] = [total |-> Len(bmc.list),
                                              shown |-> <<bmc.list[1]>>, base |-> bmc.list]]
        /\ cut' = cut \ {p}
     \/ QueryFails(p) /\ Finish(p) /\ UNCHANGED <<reading, cut>>
  /\ UNCHANGED <<opt, path, bmc, taken>>

\* What if: the list is taken for shorter by one.
GetNextShort(p) ==
  /\ pc[p] = "next"
  /\ LET index == Len(reading[p].shown) + 1
         total == reading[p].total
     IN \/ index >= total /\ Succeed(p) /\ UNCHANGED reading
        \/ /\ index < total /\ index <= Len(bmc.list)
           /\ reading' = [reading EXCEPT ![p].shown = Append(@, bmc.list[index])]
           /\ UNCHANGED <<pc, at, result>>
        \/ /\ index <= total /\ QueryFails(p) /\ UNCHANGED reading
           /\ Finish(p) \/ (index < total /\ Leave(p, "crashed"))
  /\ Untouched

\* What if: the walk went on as long as the BMC has entries.
GetNextWhileListed(p) ==
  /\ pc[p] = "next"
  /\ LET index == Len(reading[p].shown) + 1
         total == reading[p].total
     IN \/ index > Len(bmc.list) /\ Succeed(p) /\ UNCHANGED reading
        \/ /\ index <= Len(bmc.list)
           /\ reading' = [reading EXCEPT ![p].shown = Append(@, bmc.list[index])]
           /\ UNCHANGED <<pc, at, result>>
        \/ /\ index <= total /\ QueryFails(p) /\ UNCHANGED reading
           /\ Finish(p) \/ (index < total /\ Leave(p, "crashed"))
  /\ Untouched

\* The others are asked for by their index, as many as there were at first.
\* A failure frees the array, of which the rest has not been initialised.
GetNext(p) ==
  /\ pc[p] = "next"
  /\ LET index == Len(reading[p].shown) + 1
         total == reading[p].total
     IN \/ index > total /\ Succeed(p) /\ UNCHANGED reading
        \/ /\ index <= total /\ index <= Len(bmc.list)
           /\ reading' = [reading EXCEPT ![p].shown = Append(@, bmc.list[index])]
           /\ UNCHANGED <<pc, at, result>>
        \/ /\ index <= total /\ QueryFails(p) /\ UNCHANGED reading
           /\ Finish(p) \/ (index < total /\ Leave(p, "crashed"))
  /\ Untouched

Getter(p) == AskVendor(p) \/ Connect(p) \/ GetConf(p) \/ GetFirst(p) \/ GetNext(p)

-----------------------------------------------------------------------------
Step(p) ==
  \/ p \in Setters /\ Setter(p)
  \/ p \in Senders /\ Sender(p)
  \/ p \in Getters /\ Getter(p)

AllEnded == (\A p \in Procs : pc[p] \in Ended) /\ UNCHANGED vars

Next == (\E p \in Procs : Step(p)) \/ AllEnded

Fairness == \A p \in Procs : WF_vars(Step(p))

\* The commands run; every ipmitool ends, with an answer or without.
Spec == Init /\ [][Next]_vars /\ Fairness

-----------------------------------------------------------------------------
\* What utool prints.
Report(p) ==
  IF pc[p] = "crashed" THEN "crashed"
  ELSE IF pc[p] # "done" THEN "pending"
  ELSE IF result[p].code # "OK" THEN "failure"
  ELSE IF result[p].desc = "NULL" THEN "nothing"
  ELSE result[p].desc

Writers == Setters \cup Senders

Promise == INSTANCE WhitelistPromise
  WITH Clients <- Writers,
       taken   <- [p \in Writers |-> taken[p]],
       report  <- [p \in Writers |-> Report(p)]

\* Whatever runs beside it, a command makes its calls in the order of its
\* command line and file, each once, none after a failure; success means that
\* the BMC took them all, and silence that it took none.
CallsAreInOrder == Promise!PSpec

\* A getter that succeeds shows as many entries as there were when it began to
\* read, and, unless one was removed meanwhile, exactly those, in their order,
\* whatever was added.
ListIsSnapshot ==
  \A g \in Getters : Report(g) = "success" =>
    /\ Len(reading[g].shown) = Len(reading[g].base)
    /\ g \notin cut => reading[g].shown = reading[g].base

\* Written as set writes them, without or with one byte of sub function.
WrittenBySet(entry) ==
  \/ entry.data = NoSubFunction
  \/ \E byte \in Byte : entry.data = Coded(entry.cmd, byte, bmc.vendor)

\* A sub function of net function 0x30 that get does not give back: behind the
\* prefix of the other vendor, or ff.
Muddled(entry) ==
  /\ entry.cmd \in Oem /\ entry.data # NoSubFunction
  /\ bmc.vendor = "xfusion" \/ entry.data = Coded(entry.cmd, 255, bmc.vendor)

\* What getipmiwhitelist shows of an entry of setipmiwhitelist can be put in a
\* file, is accepted there, and names the same entry: of all but the muddled
\* ones, and of none of those (get_ipmi_whitelist.c:330 takes the prefix of one
\* vendor off, and what is left of "db 07 00 ff" for no sub function).
ShownCanBeImported ==
  \A g \in Getters : Report(g) = "success" =>
    \A i \in DOMAIN reading[g].shown :
      LET entry == reading[g].shown[i]
          text  == Shown(entry)
          again == /\ ~TooLong(text) /\ Legible(text)
                   /\ Stored(entry.cmd, text, bmc.vendor) = entry.data
      IN WrittenBySet(entry) => (again <=> ~Muddled(entry))

\* Every command ends, whatever the others do to the list it walks along.
AllReturn == \A p \in Procs : <>(pc[p] \in Ended)

\* What a utool has left to do: parts of its program, then elements of the file
\* or entries of the list, then calls of the element.
PartsLeft(p) ==
  CASE pc[p] = "vendor" -> 7
    [] pc[p] = "connect" -> 6
    [] pc[p] = "options" -> 5
    [] pc[p] = "toggle" -> 4
    [] pc[p] \in {"single", "conf"} -> 3
    [] pc[p] \in {"file", "first"} -> 2
    [] pc[p] \in {"element", "call", "next", "send"} -> 1
    [] OTHER -> 0

ItemsLeft(p) ==
  CASE pc[p] \in {"element", "call"} -> Len(Elements(p)) + 1 - at[p][1]
    [] pc[p] = "next" -> reading[p].total - Len(reading[p].shown)
    [] OTHER -> 0

CallsLeft(p) ==
  IF at[p][1] \notin DOMAIN Elements(p) THEN 0
  ELSE CASE pc[p] = "element" -> Count(Elements(p)[at[p][1]]) + 1
         [] pc[p] = "call" -> Count(Elements(p)[at[p][1]]) + 1 - at[p][2]
         [] OTHER -> 0

Fewer(now, then) == then \in 0..(now - 1)

FewerLeft(p) ==
  \/ Fewer(PartsLeft(p), PartsLeft(p)')
  \/ /\ PartsLeft(p)' = PartsLeft(p)
     /\ \/ Fewer(ItemsLeft(p), ItemsLeft(p)')
        \/ ItemsLeft(p)' = ItemsLeft(p) /\ Fewer(CallsLeft(p), CallsLeft(p)')

\* Every step of a utool leaves it less to do, however the list grows or shrinks
\* under its walk: no loop goes on for as long as others add entries.
StepsRunOut == [][\A p \in Procs : Step(p) => FewerLeft(p)]_vars

-----------------------------------------------------------------------------
\* What the code does not keep.  A sub function "must be hex string, for example:
\* 0x01, 01" (set_ipmi_whitelist.c:66): an entry of a setter that has succeeded
\* holds the number that its text is in hexadecimal, whether or not 0x is in front
\* of it.  The code adds none (line 445), and 10 is stored as 0a.
SubFunctionIsHex ==
  \A p \in Setters : Report(p) = "success" =>
    \A place \in taken[p] \ {Switch} :
      LET named == NamedAt(opt[p], place)
      IN named[2] # NoText =>
           EntryAt(opt[p], place, bmc.vendor).data =
             Coded(named[1], NumberOf(named[2].digits, 16), bmc.vendor)
=============================================================================
