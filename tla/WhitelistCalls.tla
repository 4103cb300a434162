---------------------------- MODULE WhitelistCalls ----------------------------
(***************************************************************************)
(* The data of the white list commands: the options and the file of        *)
(* setipmiwhitelist, the calls they stand for and their order, what the    *)
(* BMC makes of a call, and how an entry is written and read back          *)
(* (set_ipmi_whitelist.c, get_ipmi_whitelist.c).                           *)
(*                                                                         *)
(* A command is a net function with a command number, to which the code    *)
(* adds 0x when it is missing.  To a sub function it does not, so that a   *)
(* sub function is the text that was written, and ipmitool decides what    *)
(* byte it is.  A call has a place, a pair: <<0, 1>> for the switch of the *)
(* white list, <<0, 2>> for the command of the options, <<e, k>> for the   *)
(* k-th call of element e of the file, in lexicographic order.             *)
(***************************************************************************)
EXTENDS Integers, Sequences

CONSTANTS
  Cmds,       \* the commands considered
  Oem,        \* those of net function 0x30
  Insecure    \* those whose text holds a character of the shell

ASSUME CmdsAssumption == Oem \subseteq Cmds /\ Insecure \subseteq Cmds

Byte  == 0..255
Digit == 0..16           \* 16: a character that is no digit

\* A sub function as it is written: hex tells whether it begins with 0x.
Text   == [hex : BOOLEAN, digits : Seq(Digit)]
NoText == [hex |-> FALSE, digits |-> <<>>]

Entry == [cmd : Cmds, data : Seq(Byte)]
Vendor == {"huawei", "xfusion"}

\* typed: strings and arrays are where they belong.  array: SubFunction is one.
Element == [typed : BOOLEAN, cmds : Seq(Cmds), array : BOOLEAN, subs : Seq(Text)]

File == [state : {"none", "unreadable", "not JSON", "read"}, elements : Seq(Element)]

\* The options; netfun and command tell whether they are given.  data is the
\* payload of sendipmirawcmd, whose command is a call on the white list here.
Line == [host : {0, 1}, enabled : {"none", "Enabled", "Disabled", "other"},
         operation : {"none", "Add", "Remove", "other"}, netfun : {0, 1}, command : {0, 1},
         cmd : Cmds, sub : Text, file : File, data : {"none", "empty", "some"}]

Bmc == [enabled : {0, 1}, list : Seq(Entry), vendor : Vendor]

-----------------------------------------------------------------------------
\* ipmitool reads a number by the rules of C: hexadecimal behind 0x, octal
\* behind a 0, else decimal.  What it cannot read it refuses.
Base(text) ==
  IF text.hex THEN 16 ELSE IF Len(text.digits) = 2 /\ text.digits[1] = 0 THEN 8 ELSE 10

Legible(text) ==
  \/ text = NoText
  \/ Len(text.digits) \in {1, 2} /\ \A i \in DOMAIN text.digits : text.digits[i] < Base(text)

NumberOf(digits, base) == IF Len(digits) = 1 THEN digits[1] ELSE base * digits[1] + digits[2]

Value(text) == NumberOf(text.digits, Base(text))

\* 0x01 and 01 are accepted, 0x001 and 001 are not.
TooLong(text) == Len(text.digits) > 2

-----------------------------------------------------------------------------
\* How an entry is written and shown.
HuaweiPrefix  == <<219, 7, 0>>       \* db 07 00
XfusionPrefix == <<20, 227, 0>>      \* 14 e3 00
NoSubFunction == <<255>>             \* ff

Prefix(vendor) == IF vendor = "xfusion" THEN XfusionPrefix ELSE HuaweiPrefix

Coded(cmd, byte, vendor) == IF cmd \in Oem THEN Prefix(vendor) \o <<byte>> ELSE <<byte>>

Stored(cmd, text, vendor) ==
  IF text = NoText THEN NoSubFunction ELSE Coded(cmd, Value(text), vendor)

\* 0x and two digits for each byte.
InHex(data) ==
  [hex |-> TRUE, digits |-> [i \in 1..(2 * Len(data)) |->
     LET byte == data[(i + 1) \div 2] IN IF i % 2 = 1 THEN byte \div 16 ELSE byte % 16]]

\* What if: the prefix is shown like the rest.
ShownWithPrefix(entry) ==
  IF entry.data = NoSubFunction THEN NoText ELSE InHex(entry.data)

HasPrefix(data) == Len(data) >= 3 /\ SubSeq(data, 1, 3) = HuaweiPrefix

\* Only the prefix of the one vendor is taken off again, and then ff is taken
\* for no sub function, also when it was one.
Shown(entry) ==
  LET data == IF entry.cmd \in Oem /\ HasPrefix(entry.data)
              THEN SubSeq(entry.data, 4, Len(entry.data)) ELSE entry.data
  IN IF data = NoSubFunction THEN NoText ELSE InHex(data)

-----------------------------------------------------------------------------
\* The file: an element with several commands has no sub functions.
Illegal(element) ==
  \/ ~element.typed
  \/ element.cmds = <<>>
  \/ Len(element.cmds) > 1 /\ element.subs # <<>>
  \/ \E i \in DOMAIN element.subs : TooLong(element.subs[i])

\* One call per command, or one per sub function of the only command.  An
\* empty array of sub functions stands for no call at all.
Count(element) == IF element.array THEN Len(element.subs) ELSE Len(element.cmds)

CallOf(element, k) ==
  IF element.array THEN <<element.cmds[1], element.subs[k]>> ELSE <<element.cmds[k], NoText>>

-----------------------------------------------------------------------------
\* The options of setipmiwhitelist.
Asks(o) == o.netfun = 1 \/ o.file.state # "none"

\* What is refused before the file is opened, and after.
OptionsClash(o) ==
  \/ o.enabled = "other" \/ o.operation = "other"
  \/ o.enabled = "Disabled" /\ (o.operation # "none" \/ Asks(o) \/ o.command = 1 \/ o.sub # NoText)
  \/ o.netfun # o.command
  \/ o.command = 0 /\ o.sub # NoText
  \/ TooLong(o.sub)
  \/ o.file.state # "none" /\ (o.netfun = 1 \/ o.sub # NoText)

OperationMissing(o) == Asks(o) # (o.operation # "none")

-----------------------------------------------------------------------------
\* The calls of a command line, and their effect.
Switch == <<0, 1>>
Only   == <<0, 2>>

FilePlaces(file) ==
  UNION {{<<e, k>> : k \in 1..Count(file.elements[e])} : e \in DOMAIN file.elements}

Places(o) ==
  (IF o.enabled # "none" THEN {Switch} ELSE {})
    \cup (IF o.netfun = 1 THEN {Only} ELSE {})
    \cup FilePlaces(o.file)

Before(p, q) == p[1] < q[1] \/ (p[1] = q[1] /\ p[2] < q[2])

\* The command and the sub function of a place other than Switch.
NamedAt(o, place) ==
  IF place = Only THEN <<o.cmd, o.sub>> ELSE CallOf(o.file.elements[place[1]], place[2])

InsecureAt(o, place) == place # Switch /\ NamedAt(o, place)[1] \in Insecure

LegibleAt(o, place) == place # Switch => Legible(NamedAt(o, place)[2])

EntryAt(o, place, vendor) ==
  LET named == NamedAt(o, place)
  IN [cmd |-> named[1], data |-> Stored(named[1], named[2], vendor)]

Listed(list, entry) == \E i \in DOMAIN list : list[i] = entry

Without(list, entry) ==
  LET at == CHOOSE i \in DOMAIN list : list[i] = entry
  IN [j \in 1..(Len(list) - 1) |-> IF j < at THEN list[j] ELSE list[j + 1]]

\* The BMC keeps an entry once, in the order in which entries came.
Apply(bmc, o, place) ==
  IF place = Switch THEN [bmc EXCEPT !.enabled = IF o.enabled = "Enabled" THEN 1 ELSE 0]
  ELSE LET entry == EntryAt(o, place, bmc.vendor)
       IN CASE o.operation = "Add" /\ ~Listed(bmc.list, entry) ->
                 [bmc EXCEPT !.list = Append(@, entry)]
            [] o.operation # "Add" /\ Listed(bmc.list, entry) ->
                 [bmc EXCEPT !.list = Without(@, entry)]
            [] OTHER -> bmc
=============================================================================
