----------------------------- MODULE MCCommands -----------------------------
(* Connections from localhost, from an address of config.allowed and from   *)
(* any other; arguments that read like commands among them.                 *)
EXTENDS Commands
CONSTANTS local, wallet, stranger
=============================================================================
