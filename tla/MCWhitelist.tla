----------------------------- MODULE MCWhitelist -----------------------------
(***************************************************************************)
(* Two commands, one of net function 0x30, and one that holds a character  *)
(* of the shell; one utool of each kind.                                   *)
(***************************************************************************)
EXTENDS Whitelist

CONSTANTS get, oem, bad      \* Get Device ID, a command of 0x30, an unsafe one

NoFile == [state |-> "none", elements |-> <<>>]
Broken(how) == [state |-> how, elements |-> <<>>]
Import(elements) == [state |-> "read", elements |-> elements]

Plain(cmds) == [typed |-> TRUE, cmds |-> cmds, array |-> FALSE, subs |-> <<>>]
With(cmd, subs) == [typed |-> TRUE, cmds |-> <<cmd>>, array |-> TRUE, subs |-> subs]

\* Every line starts from the one without options.
Bare == [host |-> 1, enabled |-> "none", operation |-> "none", netfun |-> 0, command |-> 0,
         cmd |-> get, sub |-> NoText, file |-> NoFile, data |-> "none"]

Single(operation, cmd, sub) ==
  [Bare EXCEPT !.operation = operation, !.netfun = 1, !.command = 1, !.cmd = cmd, !.sub = sub]

FromFile(operation, file) == [Bare EXCEPT !.operation = operation, !.file = file]

\* Sub functions as they are written: 0x01, 01, 0xff, 0x102, 10 and 0a.
Hex(digits) == [hex |-> TRUE, digits |-> digits]
Without0x(digits) == [hex |-> FALSE, digits |-> digits]
x01  == Hex(<<0, 1>>)
xff  == Hex(<<15, 15>>)
x102 == Hex(<<1, 0, 2>>)
d01  == Without0x(<<0, 1>>)
d10  == Without0x(<<1, 0>>)
d0a  == Without0x(<<0, 10>>)

MCSetLines ==
  {Single("Add", oem, x01), Single("Remove", get, NoText),
   [Bare EXCEPT !.host = 0], [Bare EXCEPT !.enabled = "Disabled"],
   Single("Add", get, x102),
   FromFile("none", Import(<<Plain(<<get>>)>>)), FromFile("Add", Broken("unreadable")),
   FromFile("Add", Broken("not JSON")),
   [FromFile("Add", Import(<<Plain(<<get, oem>>), With(oem, <<d10>>)>>))
      EXCEPT !.enabled = "Enabled"],
   FromFile("Add", Import(<<With(oem, <<xff>>), With(get, <<d10, d0a>>)>>)),
   FromFile("Remove", Import(<<Plain(<<get, bad>>), With(oem, <<>>), With(oem, <<x01>>)>>)),
   FromFile("Add", Import(<<With(get, <<x01, xff>>), With(oem, <<x102>>)>>))}

MCSendLines ==
  {[Single("Remove", oem, d01) EXCEPT !.data = "some"],
   [Single("Add", get, d0a) EXCEPT !.data = "some"],
   [Single("Add", get, NoText) EXCEPT !.data = "empty"],
   [Single("Add", get, NoText) EXCEPT !.data = "some", !.netfun = 0]}

MCGetLines == {Bare}

EntryOf(cmd, text) == [cmd |-> cmd, data |-> Stored(cmd, text, "huawei")]

MCLists == {<<>>, <<EntryOf(get, NoText), EntryOf(oem, x01), EntryOf(oem, xff)>>}
=============================================================================
