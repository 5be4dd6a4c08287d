----------------------------- MODULE MCSidecar -----------------------------
(* The three parts that keep something beside the ledger, each on its own: *)
(* they share no state, so in a behaviour one moves and the others rest.   *)
(*                                                                         *)
(* The index sees a token of supply 2 that A issues, sends twice in one    *)
(* block to B, who sends to itself, a copycat of the name, and a token of  *)
(* supply -1 that its issuer tries to send; one alias, claimed by A, given *)
(* to B, freed, and claimed in the legacy form.                            *)
EXTENDS ForkSchedule, DiffHeal, TokenIndex

VARIABLE part      \* what moves: "fork", "heal" or "index"

O(k, n, f, t, m) == [kind |-> k, name |-> n, from |-> f, to |-> t, amount |-> m]

MCTx == {"issue", "copycat", "iron", "owe", "send", "again", "self", "claim", "give", "free", "legacy"}
MCOp == [x \in MCTx |->
    CASE x = "issue" -> O("token:issue", "Gold", "A", "A", 2)
      [] x = "copycat" -> O("token:issue", "gold", "B", "B", 1)
      [] x = "iron" -> O("token:issue", "iron", "B", "B", -1)
      [] x = "owe" -> O("token:transfer", "iron", "B", "A", 1)
      [] x = "send" -> O("token:transfer", "gold", "A", "B", 2)
      [] x = "again" -> O("token:transfer", "gold", "A", "B", 1)
      [] x = "self" -> O("token:transfer", "gold", "B", "B", 1)
      [] x = "claim" -> O("alias:register", "gold", "A", "A", 0)
      [] x = "give" -> O("alias:transfer", "gold", "A", "B", 0)
      [] x = "free" -> O("alias:free", "gold", "B", "B", 0)
      [] x = "legacy" -> O("alias=", "gold", "B", "B", 0)]
MCName == {"Gold", "gold", "iron"}
MCLower == [n \in MCName |-> IF n = "Gold" THEN "gold" ELSE n]
First == <<"issue", "claim">>
Second == <<"copycat", "send", "again", "give", "free">>
Third == <<"iron", "owe", "self", "legacy">>
MCBodies == {First, Second, Third}
MCDownloaded == {<<>>, <<First, Second, Third>>}

MCInit ==
    /\ part \in {"fork", "heal", "index"}
    /\ ForkInit /\ Init /\ IndexInit
    /\ part # "index" => ledger = <<>>

Forking == part = "fork" /\ ForkNext /\ UNCHANGED <<part, vars, indexVars>>
Healing == part = "heal" /\ Next /\ UNCHANGED <<part, forkVars, indexVars>>
Indexing == part = "index" /\ IndexNext /\ UNCHANGED <<part, forkVars, vars>>

MCSpec ==
    MCInit /\ [][Forking \/ Healing \/ Indexing]_<<part, forkVars, vars, indexVars>>

(* The fairness of DiffHeal. *)
MCFairSpec == MCSpec /\ WF_vars(Process)
=============================================================================
