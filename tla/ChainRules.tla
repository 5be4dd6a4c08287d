----------------------------- MODULE ChainRules -----------------------------
(***************************************************************************)
(* Blocks as the consensus rules of digest.py see them.  A block commits   *)
(* to its parent through the proof of work, which hashes the previous      *)
(* block hash; it carries a timestamp and an ordered list of transactions. *)
(* Amounts are abstracted to rivalry: two transactions are rivals when     *)
(* their sender can afford one of them and not both.                       *)
(***************************************************************************)
EXTENDS Integers, Sequences, FiniteSets

CONSTANTS
    Block,       \* every block some peer may hold
    Genesis,     \* the block all chains start with
    Parent,      \* Block -> Block: what the proof of work was computed over
    Ts,          \* Block -> timestamp
    TxsOf,       \* Block -> sequence of transactions, without the coinbase
    Fault,       \* Block -> what validation will find wrong with it
    Tx,          \* transactions
    Rivals       \* Tx -> transactions that spend the same funds

Faults == {"none",    \* a valid block, if it extends the tip
           "form",    \* malformed, a bad signature or bad proof of work
           "sender"}  \* a post-fork-only sender before the fork, found last

ASSUME BlocksAssumption ==
    /\ Genesis \in Block
    /\ Parent \in [Block -> Block]
    /\ Ts \in [Block -> Nat]
    /\ TxsOf \in [Block -> Seq(Tx)] /\ TxsOf[Genesis] = <<>>
    /\ Fault \in [Block -> Faults]
    /\ Rivals \in [Tx -> SUBSET Tx]
    /\ \A t \in Tx : t \notin Rivals[t] /\ \A u \in Rivals[t] : t \in Rivals[u]

TxsIn(b) == {TxsOf[b][i] : i \in DOMAIN TxsOf[b]}
BlocksIn(c) == {c[h] : h \in DOMAIN c}
TxsOn(c) == UNION {TxsIn(c[h]) : h \in DOMAIN c}
Last(c) == c[Len(c)]
IsPrefix(s, t) == Len(s) <= Len(t) /\ SubSeq(t, 1, Len(s)) = s

(* verify_proof_of_work and block_hash_at hash over the tip's block hash. *)
ProvenOver(b, c) == Parent[b] = Last(c)

InBlockDuplicate(b) ==
    \E i, j \in DOMAIN TxsOf[b] : i # j /\ TxsOf[b][i] = TxsOf[b][j]

(***************************************************************************)
(* process_block_data up to the balances, in the code's order: what it     *)
(* raises for block b when the chain is c, or "" when b passes.  A block   *)
(* that is not the child of the tip fails the timestamp check or the       *)
(* replay check when it is already on the chain, and otherwise the proof   *)
(* of work, which is computed over the tip's hash.                         *)
(***************************************************************************)
Raised(c, b) ==
    CASE Fault[b] = "form" -> "invalid"
      [] Ts[b] <= Ts[Last(c)] -> "older"
      [] TxsIn(b) \cap TxsOn(c) # {} -> "already in"
      [] InBlockDuplicate(b) -> "duplicate in block"
      [] ~ProvenOver(b, c) -> "proof of work"
      [] OTHER -> ""

(* _validate_balance for the i-th transaction: the confirmed balance must  *)
(* cover everything its sender spends in the whole block.                  *)
Affordable(c, b, i) == Rivals[TxsOf[b][i]] \cap (TxsOn(c) \cup TxsIn(b)) = {}

(* A whole block, for callers that need only the outcome. *)
Valid(c, b) ==
    /\ Raised(c, b) = ""
    /\ \A i \in DOMAIN TxsOf[b] : Affordable(c, b, i)
    /\ Fault[b] # "sender"

(* One chain of proofs of work, on which no transaction is confirmed twice *)
(* and no two confirmed transactions spend the same funds.                 *)
Sound(c) ==
    /\ \A h \in 2..Len(c) : Parent[c[h]] = c[h - 1]
    /\ \A h, k \in DOMAIN c : h # k => TxsIn(c[h]) \cap TxsIn(c[k]) = {}
    /\ \A t \in TxsOn(c) : Rivals[t] \cap TxsOn(c) = {}
=============================================================================
