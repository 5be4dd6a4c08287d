------------------------------- MODULE Ledger -------------------------------
(***************************************************************************)
(* What the node promises of its ledger, whatever its threads and peers do *)
(* (digest.py, chain_ops.py): it is always one chain that validation       *)
(* accepts block by block, and it changes only by a block appended, by one *)
(* change to a branch that is valid as a whole and not shorter, or, where  *)
(* the operator chose the old resolution, by its last block being dropped  *)
(* where the rollback policy allows.  The one exception has a name,        *)
(* Overtaken: the chain had grown since the branch was compared with it.   *)
(***************************************************************************)
EXTENDS ChainRules

VARIABLES
    ledger,
    measured,    \* the height the resolution under way compares branches with
    checkpoint,  \* node.checkpoint
    legacy,      \* fork_resolution = "legacy"
    proven,      \* rollback_consensus, and a peer that has delivered valid blocks
    stopping     \* node.IS_STOPPING

ValidChain(c) ==
    /\ c # <<>> /\ c[1] = Genesis
    /\ \A h \in 2..Len(c) : Valid(SubSeq(c, 1, h - 1), c[h])

Extend ==
    /\ Len(ledger') = Len(ledger) + 1 /\ IsPrefix(ledger, ledger')
    /\ Valid(ledger, Last(ledger'))

(* c is longer than a chain of height n, or of that height and not the     *)
(* ledger itself: a tie is won by another branch.                          *)
Beats(c, n) == Len(c) > n \/ (Len(c) = n /\ ~IsPrefix(c, ledger))

(* "a shorter chain never displaces ours" *)
Switch ==
    /\ ~legacy
    /\ ValidChain(ledger')
    /\ Beats(ledger', Len(ledger))

(* Blocks appended since the measurement may be lost to a branch that      *)
(* beats only the chain that was measured.                                 *)
Overtaken ==
    /\ ~legacy
    /\ measured < Len(ledger)
    /\ ValidChain(ledger')
    /\ Beats(ledger', measured)

Drop ==
    /\ legacy
    /\ Len(ledger) >= checkpoint \/ proven
    /\ Len(ledger) > 1
    /\ ledger' = SubSeq(ledger, 1, Len(ledger) - 1)

Lose ==
    /\ stopping /\ ~legacy
    /\ ledger' # <<>> /\ IsPrefix(ledger', ledger)

Init == ledger = <<Genesis>>
Next == (Extend \/ Switch \/ Overtaken \/ Drop \/ Lose) /\ UNCHANGED legacy
Spec == Init /\ [][Next]_ledger
=============================================================================
