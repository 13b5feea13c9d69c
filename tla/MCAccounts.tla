----------------------------- MODULE MCAccounts -----------------------------
(***************************************************************************)
(* A small instance of Accounts for TLC.                                   *)
(***************************************************************************)
EXTENDS Accounts

\* Two spellings of one address.
Lowered == [s \in Spellings |-> "ann"]
TypedEither == [r \in Requests |-> IF r \in {"reg1", "cmd1"} THEN "Ann" ELSE "ann"]

\* Everybody chooses a password of their own.
OwnPassword == [r \in Requests |-> r]
=============================================================================
