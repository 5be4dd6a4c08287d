--------------------------- MODULE AncestorSearch ---------------------------
(***************************************************************************)
(* fork_resolution.find_common_ancestor, probe by probe: the highest       *)
(* height at which the peer holds our block, found by walking back from    *)
(* the tip and then by bisection.  Every probe is a network exchange that  *)
(* is answered "yes", "no" or not at all, and between two probes the peer  *)
(* may itself sync or reorganise.  Our own chain does not change below the *)
(* tip meanwhile: the caller owns node.fork_lock.                          *)
(***************************************************************************)
EXTENDS Integers

CONSTANTS
    Tip,       \* our height when the search starts
    Linear     \* LINEAR_PROBES

ASSUME SearchAssumption ==
    /\ Tip \in Nat \ {0}
    /\ Linear \in Nat

VARIABLES
    floor,     \* max(1, Tip - MAX_PROBE_DEPTH)
    probing,   \* the probe that comes next
    hi, lo,    \* the search interval
    left,      \* linear probes left
    probes,    \* probes sent
    result,    \* the ancestor returned
    shared,    \* the peer holds our blocks up to this height
    heard,     \* height -> the last answer about it
    moved      \* whether the peer's chain changed during the search

searchVars == <<floor, probing, hi, lo, left, probes, result, shared, heard, moved>>

Heights == 1..Tip
None == -1                               \* no usable answer: UNKNOWN

(* PeerLink.knows: block hashes chain, so a peer that holds our block at a *)
(* height holds all of ours below it; a lost link gives no answer.         *)
SilenceIsNo(h) == {IF h <= shared THEN "yes" ELSE "no", "no"}
Answers(h) == {IF h <= shared THEN "yes" ELSE "no", "none"}

Hear(h, a) == heard' = [heard EXCEPT ![h] = a] /\ probes' = probes + 1
Return(r) == probing' = "done" /\ result' = r

Top ==
    /\ probing = "top"
    /\ \E a \in Answers(Tip) :
          /\ Hear(Tip, a)
          /\ \/ a = "none" /\ Return(None) /\ UNCHANGED <<hi, left>>
             \/ a = "yes" /\ Return(Tip) /\ UNCHANGED <<hi, left>>
             \/ a = "no" /\ hi' = Tip /\ left' = Linear /\ probing' = "linear" /\ UNCHANGED result
    /\ UNCHANGED <<floor, lo, shared, moved>>

BelowFloor(h) == h < floor

(* One turn of the linear walk, or its end. *)
Walk ==
    /\ probing = "linear"
    /\ \/ /\ left = 0
          /\ IF hi <= floor THEN Return(floor - 1) ELSE probing' = "bottom" /\ UNCHANGED result
          /\ UNCHANGED <<hi, left, probes, heard>>
       \/ /\ left > 0 /\ BelowFloor(hi - 1)
          /\ Return(floor - 1)
          /\ UNCHANGED <<hi, left, probes, heard>>
       \/ /\ left > 0 /\ ~BelowFloor(hi - 1)
          /\ \E a \in Answers(hi - 1) :
                /\ Hear(hi - 1, a)
                /\ \/ a = "none" /\ Return(None) /\ UNCHANGED <<hi, left>>
                   \/ a = "yes" /\ Return(hi - 1) /\ UNCHANGED <<hi, left>>
                   \/ a = "no" /\ hi' = hi - 1 /\ left' = left - 1 /\ UNCHANGED <<probing, result>>
    /\ UNCHANGED <<floor, lo, shared, moved>>

Bottom ==
    /\ probing = "bottom"
    /\ \E a \in Answers(floor) :
          /\ Hear(floor, a)
          /\ \/ a = "none" /\ Return(None) /\ UNCHANGED lo
             \/ a = "no" /\ Return(floor - 1) /\ UNCHANGED lo
             \/ a = "yes" /\ lo' = floor /\ probing' = "binary" /\ UNCHANGED result
    /\ UNCHANGED <<floor, hi, left, shared, moved>>

SettledEarly == hi - lo <= 2
Settled == hi - lo <= 1
MidNext == lo + 1
Mid == (lo + hi) \div 2

Bisect ==
    /\ probing = "binary"
    /\ \/ Settled /\ Return(lo) /\ UNCHANGED <<hi, lo, probes, heard>>
       \/ /\ ~Settled
          /\ \E a \in Answers(Mid) :
                /\ Hear(Mid, a)
                /\ \/ a = "none" /\ Return(None) /\ UNCHANGED <<hi, lo>>
                   \/ a = "yes" /\ lo' = Mid /\ UNCHANGED <<probing, hi, result>>
                   \/ a = "no" /\ hi' = Mid /\ UNCHANGED <<probing, lo, result>>
    /\ UNCHANGED <<floor, left, shared, moved>>

(* The peer syncs, or leaves the branch it was on. *)
PeerMoves ==
    /\ probing # "done"
    /\ shared' \in 0..Tip /\ shared' # shared
    /\ moved' = TRUE
    /\ UNCHANGED <<floor, probing, hi, lo, left, probes, result, heard>>

SearchInit ==
    /\ floor \in 1..Tip
    /\ probing = "top" /\ hi = Tip /\ lo = floor /\ left = Linear
    /\ result = None /\ probes = 0
    /\ shared \in 0..Tip
    /\ heard = [h \in Heights |-> "none"]
    /\ moved = FALSE

Search == Top \/ Walk \/ Bottom \/ Bisect
SearchNext == Search \/ PeerMoves
SearchSpec == SearchInit /\ [][SearchNext]_searchVars

-----------------------------------------------------------------------------
(* Type correctness: probes stay inside the searched range. *)
SearchTypeOK ==
    /\ probing \in {"top", "linear", "bottom", "binary", "done"}
    /\ floor \in Heights
    /\ hi \in floor..Tip /\ lo \in floor..Tip
    /\ left \in 0..Linear /\ probes \in Nat
    /\ result \in {None} \cup (floor - 1)..Tip
    /\ shared \in 0..Tip
    /\ heard \in [Heights -> {"none", "yes", "no"}]
    /\ moved \in BOOLEAN

(* What may justify a rollback: the ancestor that find_common_ancestor     *)
(* returns was confirmed by the peer, the block above it was denied by the *)
(* peer, and an answer "below the floor" rests on a denial at the floor.   *)
(* True also when the peer's chain changed between the probes.             *)
Witnessed ==
    probing = "done" =>
        /\ result \in floor..Tip => heard[result] = "yes"
        /\ result \in floor..(Tip - 1) => heard[result + 1] = "no"
        /\ result = floor - 1 /\ result # None => heard[floor] = "no"

(* With a peer whose chain stood still the search is exact: it finds the   *)
(* common ancestor itself, never a lower one that would roll back blocks   *)
(* both chains share.                                                      *)
Exact ==
    probing = "done" /\ result # None /\ ~moved =>
        result = IF shared >= floor THEN shared ELSE floor - 1

CeilLog2(n) == CHOOSE k \in 0..n : 2^k >= n /\ \A j \in 0..n : 2^j >= n => k <= j

(* The search ends, and cheaply, whatever the peer answers and however it  *)
(* moves: the tip, the linear walk, the floor, and a bisection of the rest *)
(* ("O(log depth)").                                                       *)
ProbesBounded == probes <= Linear + 2 + CeilLog2(Tip - floor)
=============================================================================
