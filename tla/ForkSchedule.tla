----------------------------- MODULE ForkSchedule -----------------------------
(***************************************************************************)
(* The signal-activated hard fork (fork.py) and how the node keeps its     *)
(* activation height: derived from the chain before each block is judged   *)
(* (digest.py), cached in node.fork_height, written once to a sidecar file *)
(* and read back at startup (node_init.py).  The ledger only matters by    *)
(* which coinbases carry the signal and under which rules each block was   *)
(* judged.                                                                 *)
(***************************************************************************)
EXTENDS Integers, Sequences, FiniteSets, FiniteSetsExt

CONSTANTS
    Window,     \* signalled blocks in a row that lock the fork in
    Boundary,   \* it activates at a multiple of this
    Bury,       \* and at least this far above the lock-in
    MaxReorg,   \* blocks below the highest tip that may be rolled back
    MaxHeight

ASSUME ForkScheduleAssumption ==
    /\ {Window, Boundary, MaxReorg, MaxHeight} \subseteq Nat \ {0}
    /\ Bury \in Nat

VARIABLES
    chain,        \* per height: [sig, post], the signal and the rules it was judged by
    fork_height,  \* node.fork_height
    caught_up,    \* node._fork_caught_up
    sidecar,      \* fork_lockin-<ledger>.json
    pc,           \* where process_block_data is
    top,          \* history: the highest tip so far
    undone,       \* history: blocks that locked the fork in were rolled back
    blind         \* history: a look at the chain failed

forkVars == <<chain, fork_height, caught_up, sidecar, pc, top, undone, blind>>

None == 0
Genesis == [sig |-> FALSE, post |-> FALSE]
Tip == Len(chain)

-----------------------------------------------------------------------------
(* fork.py *)
next_fork_boundary(h) == ((h \div Boundary) + 1) * Boundary

(* The signalled run that ends at each height. *)
Runs(c) ==
    LET run[h \in 0..Len(c)] ==
          IF h = 0 THEN 0 ELSE IF c[h].sig THEN run[h - 1] + 1 ELSE 0
    IN  run

LatestRun(c) ==    \* with the slip: the run that touches the tip, not the first
    LET closing == {h \in 1..Len(c) : Runs(c)[h] >= Window}
    IN  IF closing = {} THEN None ELSE next_fork_boundary(Max(closing) + Bury)
dynamic_fork_height(c) ==
    LET closing == {h \in 1..Len(c) : Runs(c)[h] >= Window}
    IN  IF closing = {} THEN None ELSE next_fork_boundary(Min(closing) + Bury)

lockin_at_tip(c) ==
    IF Len(c) >= Window /\ \A h \in (Len(c) - Window + 1)..Len(c) : c[h].sig
      THEN next_fork_boundary(Len(c) + Bury)
      ELSE None

(* The first writer wins. *)
save_locked_height(h) == IF sidecar = None THEN h ELSE sidecar

-----------------------------------------------------------------------------
(* process_block_data: the height is looked for below the block that is    *)
(* judged next, once in the whole history, then only at the tip.           *)
DetectAtTip(c) == lockin_at_tip(c)   \* with the slip: no scan after a restart
Detect(c) == IF caught_up THEN lockin_at_tip(c) ELSE dynamic_fork_height(c)

Look ==
    /\ pc = "idle" /\ Tip < MaxHeight
    /\ caught_up' = TRUE
    /\ IF fork_height = None
         THEN /\ fork_height' = Detect(chain)
              /\ pc' = IF Detect(chain) = None THEN "judge" ELSE "save"
         ELSE UNCHANGED fork_height /\ pc' = "judge"
    /\ UNCHANGED <<chain, sidecar, top, undone, blind>>

(* The read fails: logged, and the block is judged all the same. *)
LookFails ==
    /\ pc = "idle" /\ Tip < MaxHeight /\ fork_height = None
    /\ pc' = "judge" /\ blind' = TRUE
    /\ UNCHANGED <<chain, fork_height, caught_up, sidecar, top, undone>>

(* Best effort: the file may not be written. *)
Save ==
    /\ pc = "save"
    /\ sidecar' \in {sidecar, save_locked_height(fork_height)}
    /\ pc' = "judge"
    /\ UNCHANGED <<chain, fork_height, caught_up, top, undone, blind>>

PostFork == fork_height # None /\ Tip + 1 >= fork_height

Judge ==
    /\ pc = "judge"
    /\ \/ \E s \in BOOLEAN : chain' = Append(chain, [sig |-> s, post |-> PostFork])
       \/ UNCHANGED chain    \* the block is invalid
    /\ pc' = "idle"
    /\ top' = Max({top, Len(chain')})
    /\ UNCHANGED <<fork_height, caught_up, sidecar, undone, blind>>

(* A reorg or a rollback_to: nothing touches the height that is locked in. *)
Rollback ==
    /\ pc = "idle"
    /\ \E h \in 1..(Tip - 1) :
         /\ h >= top - MaxReorg
         /\ chain' = SubSeq(chain, 1, h)
         /\ undone' = (undone \/ ({fork_height, sidecar} # {None}
                                    /\ dynamic_fork_height(chain') = None))
    /\ UNCHANGED <<fork_height, caught_up, sidecar, pc, top, blind>>

-----------------------------------------------------------------------------
(* The process ends, at any point, and starts again (setup_net_type).  The *)
(* operator may pin the height the network agrees on.                      *)
Restart ==
    /\ fork_height' = sidecar
    /\ caught_up' = FALSE
    /\ pc' = "idle"
    /\ UNCHANGED <<chain, sidecar, top, undone, blind>>

RestartPinned ==
    LET pin == dynamic_fork_height(chain)
    IN  /\ pin # None
        /\ IF sidecar \in {None, pin}
             THEN fork_height' = pin /\ sidecar' = pin /\ pc' = "idle"
             ELSE pc' = "halted" /\ UNCHANGED <<fork_height, sidecar>>
        /\ caught_up' = FALSE
        /\ UNCHANGED <<chain, top, undone, blind>>

(* Missing or corrupt: "not locked yet". *)
LoseSidecar ==
    /\ sidecar # None
    /\ sidecar' = None
    /\ UNCHANGED <<chain, fork_height, caught_up, pc, top, undone, blind>>

Fresh ==
    /\ fork_height' = None /\ sidecar' = None /\ caught_up' = FALSE /\ pc' = "idle"
    /\ top' = Len(chain') /\ undone' = FALSE /\ blind' = FALSE

(* regnet starts a new chain at every boot, and its sidecar goes with it.  *)
regnet_init ==
    /\ chain' = <<Genesis>>
    /\ Fresh

(* The rules each block of an honest chain was judged by. *)
Honest(sigs) ==
    LET bare == [h \in DOMAIN sigs |-> [sig |-> sigs[h], post |-> FALSE]]
        f(h) == dynamic_fork_height(SubSeq(bare, 1, h - 1))
    IN  [h \in DOMAIN sigs |-> [sig |-> sigs[h], post |-> f(h) # None /\ h >= f(h)]]

(* A new node installs the ledger of a peer; no sidecar comes with it. *)
Bootstrap ==
    /\ Tip = 1
    /\ \E n \in Window..MaxHeight : \E sigs \in [1..n -> BOOLEAN] :
         ~sigs[1] /\ chain' = Honest(sigs)
    /\ Fresh

-----------------------------------------------------------------------------
ForkInit ==
    /\ chain = <<Genesis>> /\ fork_height = None /\ caught_up = FALSE /\ sidecar = None
    /\ pc = "idle" /\ top = 1 /\ undone = FALSE /\ blind = FALSE

ForkNext ==
    \/ Look \/ LookFails \/ Save \/ Judge \/ Rollback
    \/ Restart \/ RestartPinned \/ LoseSidecar \/ regnet_init \/ Bootstrap

ForkSpec == ForkInit /\ [][ForkNext]_forkVars

-----------------------------------------------------------------------------
(* The reference: the first height that ends Window signalled blocks.      *)
Closes(c, h) == h >= Window /\ \A k \in (h - Window + 1)..h : c[k].sig
Expected(c) ==
    IF \E h \in DOMAIN c : Closes(c, h)
      THEN LET first == CHOOSE h \in DOMAIN c :
                          Closes(c, h) /\ \A k \in 1..(h - 1) : ~Closes(c, k)
           IN  CHOOSE a \in (first + Bury + 1)..(first + Bury + Boundary) : a % Boundary = 0
      ELSE None

(* Every block on the ledger was judged by the rules its own ancestors ask *)
(* for, across restarts, a lost or unwritten sidecar, a crash between the  *)
(* cache and the file, snapshots and reorganisations above the lock-in     *)
(* (digest.py 480-520).  Excused: a reorganisation that removed the        *)
(* lock-in itself, and a look at the chain that failed.                    *)
JudgedRight ==
    \/ undone \/ blind
    \/ \A h \in 2..Tip :
         LET f == Expected(SubSeq(chain, 1, h - 1))
         IN  chain[h].post = (f # None /\ h >= f)

(* What the scan finds does not depend on the tip it is made at: once it   *)
(* finds a height, a longer chain gives the same (fork.py 50-81).          *)
TipIndependent ==
    [][(Tip < Len(chain') /\ SubSeq(chain', 1, Tip) = chain
          /\ dynamic_fork_height(chain) # None)
         => dynamic_fork_height(chain') = dynamic_fork_height(chain)]_forkVars
=============================================================================
