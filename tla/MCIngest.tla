------------------------------ MODULE MCIngest ------------------------------
(* Blocks g <- A <- B, and two bad siblings of B: O spends the funds that  *)
(* A already spent, S has a post-fork-only sender.                         *)
EXTENDS Ingest, TLC

MCBlock == {"g", "A", "B", "O", "S"}
MCParent == [b \in MCBlock |-> IF b \in {"g", "A"} THEN "g" ELSE "A"]
MCTs == [b \in MCBlock |-> CASE b = "g" -> 0 [] b = "A" -> 1 [] OTHER -> 2]
MCTxsOf == [b \in MCBlock |-> CASE b = "A" -> <<"t">> [] b = "O" -> <<"v", "u">>
                                [] b = "B" -> <<"v">> [] OTHER -> <<>>]
MCFault == [b \in MCBlock |-> IF b = "S" THEN "sender" ELSE "none"]

MCTx == {"t", "u", "v"}                  \* u double-spends t
MCRivals == [t \in MCTx |-> CASE t = "t" -> {"u"} [] t = "u" -> {"t"} [] OTHER -> {}]

Honest == <<"g", "A", "B">>
Overspender == <<"g", "A", "O">>
Early == <<"g", "A", "S">>

MCOffers == {<<"t", "u">>}                \* any of them may be refused
Mixed == ("p1" :> {Honest}) @@ ("p2" :> {Overspender, Early})
=============================================================================
