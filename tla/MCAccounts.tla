------------------------------ MODULE MCAccounts ------------------------------
(***************************************************************************)
(* Small instances of Accounts.                                            *)
(***************************************************************************)
EXTENDS Accounts, TLC

CONSTANTS new, old

\* Every command, for every user.
AllCommands == [cmd : {"adduser", "setpwd", "setpriv", "deluser"}, user : Users, value : {new}]

AddAndDelete == {m \in AllCommands : m.cmd \in {"adduser", "deluser"}}

SetPrivOnly == [cmd : {"setpriv"}, user : Users, value : {new}]

Interchangeable == Permutations(Clients) \cup Permutations(Users)
=============================================================================
