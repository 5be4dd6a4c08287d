------------------------------ MODULE MCReorg ------------------------------
(* Two branches from genesis, A <- B and X <- Y <- Z, and W, a bad child   *)
(* of A that spends the funds A already spent.                             *)
(* Beside it, the search for the common ancestor on its own, on a longer   *)
(* chain: each behaviour is one of the two.                                *)
EXTENDS Reorg, AncestorSearch, TLC

VARIABLE part      \* what moves: "resolve" or "search"

MCBlock == {"g", "A", "B", "W", "X", "Y", "Z"}
MCParent == ("g" :> "g") @@ ("A" :> "g") @@ ("B" :> "A") @@ ("W" :> "A")
            @@ ("X" :> "g") @@ ("Y" :> "X") @@ ("Z" :> "Y")
MCTs == ("g" :> 0) @@ [b \in {"A", "X"} |-> 1] @@ [b \in {"B", "W", "Y"} |-> 2] @@ ("Z" :> 3)
MCTxsOf == [b \in MCBlock |-> IF b = "A" THEN <<"t">> ELSE IF b = "W" THEN <<"u">> ELSE <<>>]
MCFault == [b \in MCBlock |-> "none"]
MCRank == ("g" :> 0) @@ ("X" :> 1) @@ ("A" :> 2) @@ ("Y" :> 3) @@ ("B" :> 4)
          @@ ("Z" :> 5) @@ ("W" :> 6)

MCTx == {"t", "u"}                       \* u double-spends t
MCRivals == ("t" :> {"u"}) @@ ("u" :> {"t"})

Loyal == "p1"
Best == <<"g", "X", "Y", "Z">>

(* p1 serves the best chain; p2 serves a rival of it and an invalid one,   *)
(* and may itself change over to a part of the best chain.                 *)
Mixed == ("p1" :> {Best})
         @@ ("p2" :> {<<"g", "A", "B">>, <<"g", "A", "W">>, <<"g", "X", "Y">>})

MCConfigs == {[resolution |-> "measured", depth |-> 1, deep |-> TRUE],
              [resolution |-> "measured", depth |-> 3, deep |-> FALSE],
              [resolution |-> "legacy", depth |-> 1, deep |-> TRUE]}

(* The component that rests is left in one of its initial states. *)
MCInit ==
    /\ Init /\ SearchInit
    /\ \/ part = "resolve" /\ floor = Tip /\ shared = Tip
       \/ part = "search" /\ config.resolution = "legacy"

Moving == part = "resolve" /\ Next /\ UNCHANGED <<part, searchVars>>
Searching == part = "search" /\ SearchNext /\ UNCHANGED <<part, vars>>

MCSpec == MCInit /\ [][Moving \/ Searching]_<<part, vars, searchVars>>
FairSpec == MCSpec /\ Fairness(Loyal, Len(Best))

(* Recovery is claimed for measured resolution above the checkpoint: below *)
(* it a majority is asked, which may not be had, and a legacy node rolls   *)
(* back one block for every peer that says blocknf.                        *)
Shallow == config.resolution = "measured" /\ config.depth = 3

(* A node on a losing branch above the checkpoint ends up on one as long   *)
(* as the best chain a loyal peer serves, again and again, whatever the    *)
(* other peers do to it: cached verdicts, failed fetches, refusals and     *)
(* resolutions of others in between do not keep it there (blocknf,         *)
(* fork_resolution.should_measure).                                        *)
Recovers == Shallow => []<>(stopping \/ Len(chain) >= Len(Best))
=============================================================================
