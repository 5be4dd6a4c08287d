----------------------------- MODULE MCRestCaches -----------------------------
(* RestCaches for TLC: a coinbase, and a payment. *)
EXTENDS RestCaches

CONSTANTS a, b

Coinbase == [to |-> a, from |-> NoOne, amount |-> 2, slot |-> "openfield"]
Bodies ==
    {Coinbase,
     [to |-> b, from |-> a, amount |-> 1, slot |-> "public_key"]}

=============================================================================
