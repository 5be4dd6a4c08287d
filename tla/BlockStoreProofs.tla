-------------------------- MODULE BlockStoreProofs --------------------------
(***************************************************************************)
(* Proofs about the ledger store, for every set of blocks, every fork      *)
(* height and every chain length.                                          *)
(***************************************************************************)
EXTENDS BlockStore, TLAPS

(* Who has the store open, and what that process may be in the middle of. *)
Control ==
    /\ loop.op = "rollback" => /\ run = "node" /\ loop.to >= 1
                               /\ loop.to <= loop.at /\ loop.at <= Tip
                               /\ loop.fork \in {ForkHeight, NoFork}
    /\ loop.op \in {"reindex", "schema"} => run = "tool"
    /\ loop.op = "reindex" => /\ loop.at <= Tip /\ loop.fork \in {ForkHeight, NoFork}
                              /\ "rows" \in gap /\ "fork" \in gap
    /\ loop.op = "schema" => "rows" \notin gap
    /\ run \in {"opening", "node"} => schema
    /\ run \in {"node", "tool"} => Tip >= 1

(* The chain itself: genesis first, later blocks from peers, times grow. *)
Chain ==
    /\ Tip >= 1 => blocks[1] = GenesisBody
    /\ \A h \in 2..Tip : blocks[h] \in Body
    /\ \A h, k \in 1..Tip : h < k => blocks[h].ts < blocks[k].ts

(* An older schema means that no node of this release has opened it yet. *)
Legacy ==
    /\ ~schema => Tip < ForkHeight
    /\ Tip = 0 => /\ pos = {} /\ bal = Zero /\ txcount = 0
                  /\ txid = [t \in Txid |-> 0] /\ pkref = [a \in Address |-> 0]
                  /\ alloc = [a \in Address |-> 0]

(* How many blocks the derived indexes cover, when they cover anything: a  *)
(* reindex under way covers what it has scanned, and what it says of txids *)
(* and keys is right if it was given the fork height, or needs none.       *)
Covered == IF loop.op = "reindex" THEN loop.at ELSE Tip
ForkKnown == loop.fork = ForkHeight \/ Tip < ForkHeight
RowsCover == (schema /\ "rows" \notin gap) \/ loop.op \in {"reindex", "schema"}
ForkCovers ==
    \/ schema /\ "fork" \notin gap
    \/ loop.op = "schema" /\ "fork" \notin gap
    \/ loop.op = "reindex" /\ ForkKnown

Positioned == RowsCover => pos = PosUpTo(Covered)
TxidsCovered == ForkCovers /\ "fork" \notin blind => TxidsUpTo(Covered)
KeysCovered == ForkCovers => KeysUpTo(Covered)

(* No two blocks hold one post-fork txid, unless one was digested while    *)
(* the txid index was incomplete.                                          *)
TxidsUnique ==
    "fork" \notin blind =>
        \A t \in Txid, h, k \in 1..Tip : InTxids(t, h) /\ InTxids(t, k) => h = k

(* The totals a node serves: a replay of the chain, plus the allocations. *)
Totals == bal = Plus(ReplayBal(Tip), Rewards(alloc)) /\ txcount = ReplayRows(Tip)

Balances ==
    /\ (schema /\ "rows" \notin gap) \/ loop.op = "schema" => Totals
    /\ loop.op = "reindex" => /\ bal = Zero /\ loop.acc = ReplayBal(loop.at)
                              /\ loop.n = ReplayRows(loop.at)
    /\ loop.op = "rollback" => /\ loop.acc = Minus(ReplayBal(loop.at), ReplayBal(Tip))
                               /\ loop.n = ReplayRows(Tip) - ReplayRows(loop.at)

(* Recorded difficulties end at the tip without a gap, except in a store   *)
(* of an older schema that its own release has extended since, or that was *)
(* upgraded without them: then the gaps are above the first anchor.        *)
MayLack == (~schema /\ run # "tool") \/ "diff" \in gap
Difficulties ==
    /\ diff \subseteq 1..Tip
    /\ \A h \in diff : \A k \in h..Tip : k \in diff \/ (k >= Anchor /\ MayLack)
    /\ ~schema => \A h \in diff : h >= Anchor

IInv ==
    /\ TypeOK /\ Control /\ Chain /\ HashesExact /\ Legacy
    /\ Positioned /\ TxidsCovered /\ KeysCovered /\ TxidsUnique
    /\ ReplayIsFold /\ Balances /\ Difficulties /\ NoReplay

-----------------------------------------------------------------------------
(* Account arithmetic. *)

(* The operators on balances stay within Accounts. *)
LEMMA AccountsClosed ==
    ASSUME NEW x \in Accounts, NEW y \in Accounts
    PROVE  Plus(x, y) \in Accounts /\ Minus(x, y) \in Accounts /\ Zero \in Accounts
BY DEF Plus, Minus, Zero, Accounts

(* An allocation is a vector of reward parts. *)
LEMMA RewardsType ==
    ASSUME NEW al \in [Address -> Nat]
    PROVE  Rewards(al) \in Accounts
BY DEF Rewards, Accounts

(* A rollback takes out what the removed blocks had put in. *)
LEMMA PlusMinus ==
    ASSUME NEW x \in Accounts, NEW y \in Accounts, NEW z \in Accounts
    PROVE  /\ Plus(Plus(x, y), z) = Plus(Plus(x, z), y)
           /\ Plus(Plus(x, y), Minus(z, x)) = Plus(z, y)
           /\ Plus(Plus(x, y), Minus(z, y)) = Plus(x, z)
           /\ Minus(x, x) = Zero
           /\ Minus(Minus(Plus(x, y), z), y) = Minus(x, z)
           /\ Plus(Zero, x) = x
           /\ Plus(x, Zero) = x
BY DEF Plus, Minus, Zero, Accounts

-----------------------------------------------------------------------------
(* Type correctness. *)

(* Facts about the blocks that peers deliver, from the assumptions. *)
LEMMA BodyFacts ==
    ASSUME NEW b \in Bodies
    PROVE  /\ b.hash \in Hash /\ b.ts \in Nat /\ b.rows \in Seq(RowType)
           /\ Len(b.rows) \in Nat
           /\ DOMAIN b.rows = 1..Len(b.rows)
           /\ Delta(b) \in Accounts
           /\ \A i \in DOMAIN b.rows : b.rows[i] \in RowType
<1>1. b \in BodyType /\ Delta(b) \in Accounts
  BY BodyAssumption
<1>2. b.hash \in Hash /\ b.ts \in Nat /\ b.rows \in Seq(RowType)
  BY <1>1 DEF BodyType
<1> QED BY <1>1, <1>2

(* The type of the entries of the position index. *)
PosType == {"sig", "from", "to"} \X (Sig \cup Address) \X Nat \X Nat

(* What _index_rows adds for a block has the type of the position index. *)
LEMMA PosEntriesType ==
    ASSUME NEW b \in Bodies, NEW h \in Nat
    PROVE  PosEntries(b, h) \subseteq PosType
<1>1. \A i \in DOMAIN b.rows : b.rows[i] \in RowType /\ i \in Nat
  BY BodyFacts
<1> QED BY <1>1 DEF PosEntries, PosType, RowType

(* History values at a height of the chain. *)
LEMMA ReplayType ==
    ASSUME TypeOK, NEW h \in 0..Tip
    PROVE  ReplayBal(h) \in Accounts /\ ReplayRows(h) \in Nat
<1>1. Zero \in Accounts
  BY DEF Zero, Accounts
<1>2. CASE h = 0
  BY <1>1, <1>2 DEF ReplayBal, ReplayRows
<1>3. CASE h # 0
  <2>0. replay \in Seq(SumType) /\ h \in 1..Len(replay)
    BY <1>3 DEF TypeOK, Tip
  <2>1. replay[h] \in SumType
    BY <2>0
  <2> QED BY <2>1, <1>3 DEF ReplayBal, ReplayRows, SumType
<1> QED BY <1>2, <1>3

(* The empty index and the empty account table are well typed. *)
LEMMA InitType == Init => TypeOK
<1>1. Zero \in Accounts
  BY DEF Zero, Accounts
<1>2. NoLoop \in LoopType
  BY <1>1 DEF NoLoop, LoopType
<1>3. ASSUME Init
      PROVE  Tip = 0
  BY <1>3 DEF Init, Tip
<1> QED BY <1>1, <1>2, <1>3, ConstantsAssumption DEF Init, TypeOK

(* commit_block, whatever the block: the shared part of Digest and         *)
(* seed_genesis keeps the types.                                           *)
LEMMA CommitType ==
    ASSUME TypeOK, NEW b \in Bodies, commit_block(b),
           UNCHANGED <<run, schema, alloc, loop, gap>>, blind' \subseteq Derived
    PROVE  TypeOK'
<1>1. b.hash \in Hash /\ Len(b.rows) \in Nat /\ Delta(b) \in Accounts
  BY BodyFacts
<1>2. Tip \in Nat /\ Tip + 1 \in Nat
  BY DEF TypeOK, Tip
<1>3. blocks' \in Seq(Bodies) /\ Len(blocks') = Tip + 1 /\ Tip' = Tip + 1 /\ Tip' <= MaxHeight
  BY ConstantsAssumption DEF TypeOK, Tip, commit_block, PutBody
<1>4. replay' \in Seq(SumType) /\ Len(replay') = Tip + 1
  <2>1. ReplayBal(Tip) \in Accounts /\ ReplayRows(Tip) \in Nat
    BY <1>2, ReplayType
  <2>2. Plus(ReplayBal(Tip), Delta(b)) \in Accounts
    BY <2>1, <1>1, AccountsClosed
  <2>3. [bal |-> Plus(ReplayBal(Tip), Delta(b)), n |-> ReplayRows(Tip) + Len(b.rows)] \in SumType
    BY <2>1, <2>2, <1>1 DEF SumType
  <2> QED BY <2>3 DEF TypeOK, commit_block, PutBody
<1>5. hashes' \in [Hash -> Nat]
  BY <1>1, <1>2 DEF TypeOK, commit_block, PutBody
<1>6. diff' \subseteq Nat
  BY <1>2 DEF TypeOK, commit_block
<1>7. pos' \subseteq PosType
  BY <1>2, PosEntriesType DEF TypeOK, commit_block, PosType
<1>8. txid' \in [Txid -> Nat] /\ pkref' \in [Address -> Nat]
  BY <1>2 DEF TypeOK, commit_block, PutTxids, PutKeys
<1>9. bal' \in Accounts /\ txcount' \in Nat
  BY <1>1, AccountsClosed DEF TypeOK, commit_block
<1> QED BY <1>3, <1>4, <1>5, <1>6, <1>7, <1>8, <1>9 DEF TypeOK, PosType

(* A block on the chain, by its height. *)
LEMMA BlockAt ==
    ASSUME TypeOK, NEW h \in 1..Tip
    PROVE  blocks[h] \in Bodies
BY DEF TypeOK, Tip

(* The stored heights of the chain are natural numbers. *)
LEMMA TipType ==
    ASSUME TypeOK
    PROVE  Tip \in Nat /\ Tip + 1 \in Nat /\ Len(blocks) = Tip
BY DEF TypeOK, Tip

(* A loop over blocks that moves to the next block keeps its type. *)
LEMMA LoopStep ==
    ASSUME NEW l \in LoopType, NEW at \in Nat, NEW acc \in Accounts, NEW n \in Nat
    PROVE  [l EXCEPT !.at = at, !.acc = acc, !.n = n] \in LoopType
BY DEF LoopType

(* One step keeps the types, given where a rollback may stand. *)
LEMMA TypeStep == TypeOK /\ Control /\ [Next]_vars => TypeOK'
<1> SUFFICES ASSUME TypeOK, Control, [Next]_vars
             PROVE  TypeOK'
  OBVIOUS
<1>z. Zero \in Accounts /\ NoLoop \in LoopType
  <2>1. Zero \in Accounts
    BY DEF Zero, Accounts
  <2> QED BY <2>1 DEF NoLoop, LoopType
<1>t. Tip \in Nat /\ Tip + 1 \in Nat
  BY TipType
<1>1. ASSUME NEW b \in Body, Digest(b)
      PROVE  TypeOK'
  <2>1. blind' \subseteq Derived
    BY <1>1 DEF Digest, TypeOK
  <2> QED BY <1>1, <2>1, CommitType DEF Digest, Bodies
<1>2. ASSUME NEW to \in 1..(MaxHeight - 1), NEW fork \in {ForkHeight, NoFork}, RollbackBegin(to, fork)
      PROVE  TypeOK'
  <2>1. NoFork \in Nat /\ ForkHeight \in Nat /\ to \in Nat
    BY ConstantsAssumption DEF NoFork
  <2>2. loop' \in LoopType
    BY <1>2, <2>1, <1>z, <1>t DEF RollbackBegin, LoopType
  <2> QED BY <1>2, <2>2 DEF RollbackBegin, TypeOK, index, Tip
<1>3. CASE RollbackBlock
  <2>1. loop.at \in 1..Tip /\ loop.at - 1 \in Nat /\ loop.n \in Nat /\ loop.acc \in Accounts
    BY <1>3, <1>t DEF RollbackBlock, Control, TypeOK, LoopType
  <2>2. Delta(blocks[loop.at]) \in Accounts /\ Len(blocks[loop.at].rows) \in Nat
    BY <2>1, BlockAt, BodyFacts
  <2>3. Minus(loop.acc, Delta(blocks[loop.at])) \in Accounts
    BY <2>1, <2>2, AccountsClosed
  <2>4. loop' \in LoopType
    <3>1. loop' = [loop EXCEPT !.at = loop.at - 1, !.acc = Minus(loop.acc, Delta(blocks[loop.at])),
                               !.n = loop.n + Len(blocks[loop.at].rows)]
      BY <1>3 DEF RollbackBlock
    <3>2. loop \in LoopType /\ loop.n + Len(blocks[loop.at].rows) \in Nat
      BY <2>1, <2>2 DEF TypeOK
    <3> QED BY <3>1, <3>2, <2>1, <2>3, LoopStep
  <2> QED BY <1>3, <2>4 DEF RollbackBlock, TypeOK, index, Tip
<1>4. CASE RollbackCommit
  <2>1. loop.to \in Nat /\ loop.to <= Tip /\ loop.n \in Nat /\ loop.acc \in Accounts
    BY <1>4, <1>t DEF RollbackCommit, Control, TypeOK, LoopType
  <2>2. blocks' \in Seq(Bodies) /\ Len(blocks') = loop.to
    BY <1>4, <2>1, <1>t DEF RollbackCommit, TypeOK, Tip
  <2>3. replay' \in Seq(SumType) /\ Len(replay') = loop.to
    BY <1>4, <2>1, <1>t DEF RollbackCommit, TypeOK, Tip
  <2>4. Tip' = loop.to /\ Tip' <= MaxHeight
    BY <2>1, <2>2, <1>t, ConstantsAssumption DEF Tip, TypeOK
  <2>5. bal' \in Accounts
    BY <1>4, <2>1, AccountsClosed DEF RollbackCommit, TypeOK
  <2>6. hashes' \in [Hash -> Nat] /\ diff' \subseteq Nat
    BY <1>4 DEF RollbackCommit, TypeOK, DiffAfter
  <2>7. pos' \subseteq PosType
    BY <1>4 DEF RollbackCommit, TypeOK, PosType
  <2>8. txid' \in [Txid -> Nat] /\ pkref' \in [Address -> Nat]
    BY <1>4 DEF RollbackCommit, TypeOK, TxidAfter
  <2>9. txcount' \in Nat
    BY <1>4, <2>1 DEF RollbackCommit, TypeOK
  <2> QED
    BY <1>4, <1>z, <2>2, <2>3, <2>4, <2>5, <2>6, <2>7, <2>8, <2>9
    DEF RollbackCommit, TypeOK, PosType
<1>5. CASE open_ledger
  BY <1>5 DEF open_ledger, TypeOK, index, Tip
<1>6. CASE seed_genesis
  BY <1>6, CommitType DEF seed_genesis, Bodies, TypeOK
<1>7. CASE set_allocations
  <2>1. Rewards(Allocation) \in Accounts /\ Rewards(alloc) \in Accounts
    BY RewardsType, ConstantsAssumption DEF TypeOK
  <2>2. AllocationDifference \in Accounts
    BY <2>1, AccountsClosed DEF AllocationDifference
  <2>3. bal' \in Accounts
    BY <1>7, <2>2, AccountsClosed DEF set_allocations, TypeOK
  <2> QED BY <1>7, <2>3, ConstantsAssumption DEF set_allocations, TypeOK, index, Tip
<1>8. CASE rebuild_difficulty
  <2>1. diff' \subseteq Nat
    BY <1>8, <1>t, ConstantsAssumption DEF rebuild_difficulty, TypeOK
  <2> QED BY <1>8, <2>1 DEF rebuild_difficulty, TypeOK, index, Tip
<1>16. CASE SkipDifficulty
  BY <1>16 DEF SkipDifficulty, TypeOK, index, Tip, Derived
<1>9. ASSUME NEW fork \in {ForkHeight, NoFork}, ReindexDrop(fork)
      PROVE  TypeOK'
  <2>1. NoFork \in Nat /\ ForkHeight \in Nat
    BY ConstantsAssumption DEF NoFork
  <2>2. loop' \in LoopType
    BY <1>9, <1>z, <2>1 DEF ReindexDrop, LoopType
  <2>3. gap' \subseteq Derived
    BY <1>9 DEF ReindexDrop, TypeOK, Derived
  <2> QED BY <1>9, <2>2, <2>3, <1>z DEF ReindexDrop, TypeOK, Tip
<1>10. CASE ReindexBatch
  <2> DEFINE h == loop.at + 1
  <2>1. h \in 1..Tip /\ loop.at \in Nat /\ loop.n \in Nat /\ loop.acc \in Accounts
    BY <1>10, <1>t DEF ReindexBatch, TypeOK, LoopType
  <2>2. blocks[h] \in Bodies /\ h \in Nat
    BY <2>1, BlockAt
  <2>3. Delta(blocks[h]) \in Accounts /\ Len(blocks[h].rows) \in Nat
    BY <2>2, BodyFacts
  <2>4. Plus(loop.acc, Delta(blocks[h])) \in Accounts
    BY <2>1, <2>3, AccountsClosed
  <2>5. loop' \in LoopType
    <3>1. loop' = [loop EXCEPT !.at = h, !.acc = Plus(loop.acc, Delta(blocks[h])),
                               !.n = loop.n + Len(blocks[h].rows)]
      BY <1>10 DEF ReindexBatch
    <3>2. loop \in LoopType /\ loop.n + Len(blocks[h].rows) \in Nat
      BY <2>1, <2>3 DEF TypeOK
    <3> QED BY <3>1, <3>2, <2>2, <2>4, LoopStep
  <2>6. pos' \subseteq PosType
    BY <1>10, <2>2, PosEntriesType DEF ReindexBatch, TypeOK, PosType
  <2>7. txid' \in [Txid -> Nat] /\ pkref' \in [Address -> Nat]
    BY <1>10, <2>2 DEF ReindexBatch, TypeOK, PutTxids, PutKeys
  <2> QED BY <1>10, <2>5, <2>6, <2>7 DEF ReindexBatch, TypeOK, PosType, Tip
<1>11. CASE ReindexTotals
  <2>1. loop.acc \in Accounts /\ loop.n \in Nat /\ Rewards(alloc) \in Accounts
    BY RewardsType DEF TypeOK, LoopType
  <2>2. bal' \in Accounts
    BY <1>11, <2>1, AccountsClosed DEF ReindexTotals, TypeOK
  <2>3. loop' \in LoopType
    BY <1>11, <1>z DEF ReindexTotals, LoopType
  <2> QED BY <1>11, <2>1, <2>2, <2>3 DEF ReindexTotals, TypeOK, index, Tip
<1>12. CASE set_schema
  BY <1>12, <1>z DEF set_schema, TypeOK, index, Tip
<1>13. CASE Crash
  BY <1>13, <1>z DEF Crash, TypeOK, index, Tip
<1>14. ASSUME NEW b \in Bodies, LegacyCommit(b)
       PROVE  TypeOK'
  <2>1. b.hash \in Hash /\ Len(b.rows) \in Nat /\ Delta(b) \in Accounts
    BY BodyFacts
  <2>2. blocks' \in Seq(Bodies) /\ Len(blocks') = Tip + 1 /\ Tip' = Tip + 1 /\ Tip' <= MaxHeight
    BY <1>14, <1>t, ConstantsAssumption DEF TypeOK, Tip, LegacyCommit, PutBody
  <2>3. ReplayBal(Tip) \in Accounts /\ ReplayRows(Tip) \in Nat
    BY <1>t, ReplayType
  <2>4. Plus(ReplayBal(Tip), Delta(b)) \in Accounts
    BY <2>1, <2>3, AccountsClosed
  <2>5. [bal |-> Plus(ReplayBal(Tip), Delta(b)), n |-> ReplayRows(Tip) + Len(b.rows)] \in SumType
    BY <2>1, <2>3, <2>4 DEF SumType
  <2>6. replay' \in Seq(SumType) /\ Len(replay') = Tip + 1
    BY <1>14, <2>5 DEF TypeOK, LegacyCommit, PutBody
  <2>7. hashes' \in [Hash -> Nat]
    BY <1>14, <2>1, <1>t DEF TypeOK, LegacyCommit, PutBody
  <2> QED BY <1>14, <2>2, <2>6, <2>7 DEF LegacyCommit, TypeOK
<1>15. CASE UNCHANGED vars
  BY <1>15 DEF vars, index, TypeOK, Tip
<1> QED
  BY <1>1, <1>2, <1>3, <1>4, <1>5, <1>6, <1>7, <1>8, <1>9, <1>10, <1>11, <1>12, <1>13, <1>14, <1>15, <1>16
  DEF Next

(* One step keeps the control invariant. *)
LEMMA ControlStep == TypeOK /\ Control /\ [Next]_vars => Control'
<1> SUFFICES ASSUME TypeOK, Control, [Next]_vars
             PROVE  Control'
  OBVIOUS
<1>t. Tip \in Nat /\ Len(blocks) = Tip
  BY TipType
<1>l. loop \in LoopType
  BY DEF TypeOK
<1>n. NoLoop.op = "none"
  BY DEF NoLoop
<1>1. ASSUME NEW b \in Body, Digest(b)
      PROVE  Control'
  BY <1>1, <1>t DEF Digest, Control, commit_block, PutBody, Tip, TypeOK
<1>2. ASSUME NEW to \in 1..(MaxHeight - 1), NEW fork \in {ForkHeight, NoFork}, RollbackBegin(to, fork)
      PROVE  Control'
  BY <1>2, <1>t DEF RollbackBegin, Control, index, NoLoop, Tip
<1>3. CASE RollbackBlock
  BY <1>3, <1>t, <1>l DEF RollbackBlock, Control, index, LoopType, Tip
<1>4. CASE RollbackCommit
  <2>1. Len(blocks') = loop.to
    BY <1>4, <1>t, <1>l DEF RollbackCommit, Control, LoopType, TypeOK
  <2> QED BY <1>4, <1>n, <2>1 DEF RollbackCommit, Control, Tip
<1>5. CASE open_ledger
  BY <1>5 DEF open_ledger, Control, index, Tip
<1>6. CASE seed_genesis
  BY <1>6, <1>t DEF seed_genesis, Control, commit_block, PutBody, Tip, TypeOK
<1>7. CASE set_allocations
  BY <1>7, <1>t DEF set_allocations, Control, index, Tip
<1>8. CASE rebuild_difficulty
  BY <1>8, <1>t, ConstantsAssumption DEF rebuild_difficulty, Control, index, Tip
<1>16. CASE SkipDifficulty
  <2>1. loop.op = "none"
    BY <1>16, <1>l DEF SkipDifficulty, Control, LoopType
  <2> QED BY <1>16, <1>t, <2>1 DEF SkipDifficulty, Control, index, Tip
<1>9. ASSUME NEW fork \in {ForkHeight, NoFork}, ReindexDrop(fork)
      PROVE  Control'
  BY <1>9, <1>t DEF ReindexDrop, Control, NoLoop, Tip
<1>10. CASE ReindexBatch
  BY <1>10, <1>t, <1>l DEF ReindexBatch, Control, LoopType, Tip
<1>11. CASE ReindexTotals
  BY <1>11 DEF ReindexTotals, Control, index, NoLoop, Tip
<1>12. CASE set_schema
  BY <1>12, <1>n DEF set_schema, Control, index, Tip
<1>13. CASE Crash
  BY <1>13, <1>n DEF Crash, Control, index, Tip
<1>14. ASSUME NEW b \in Bodies, LegacyCommit(b)
       PROVE  Control'
  BY <1>14, <1>t DEF LegacyCommit, Control, PutBody, Tip, TypeOK
<1>15. CASE UNCHANGED vars
  BY <1>15 DEF vars, index, Control, Tip
<1> QED
  BY <1>1, <1>2, <1>3, <1>4, <1>5, <1>6, <1>7, <1>8, <1>9, <1>10, <1>11, <1>12, <1>13, <1>14, <1>15, <1>16
  DEF Next

(* The store image and the open transaction keep their types in every      *)
(* behaviour (commit_block, rollback, open_ledger, set_allocations,        *)
(* reindex, crashes): in particular a rollback never reads above the tip.  *)
THEOREM TypeCorrect == Spec => []TypeOK
<1>1. Init => TypeOK /\ Control
  <2>1. Init => Control
    BY DEF Init, Control, NoLoop, Tip
  <2> QED BY <2>1, InitType
<1>2. TypeOK /\ Control /\ [Next]_vars => TypeOK' /\ Control'
  BY TypeStep, ControlStep
<1> QED BY <1>1, <1>2, PTL DEF Spec

-----------------------------------------------------------------------------
(* Chain growth and truncation, by height. *)

(* _put_body extends the chain by one block and leaves the others alone. *)
LEMMA Grown ==
    ASSUME TypeOK, NEW b \in Bodies, PutBody(b)
    PROVE  /\ Tip' = Tip + 1 /\ blocks'[Tip + 1] = b
           /\ \A h \in 1..Tip : blocks'[h] = blocks[h] /\ replay'[h] = replay[h]
           /\ replay'[Tip + 1] = [bal |-> Plus(ReplayBal(Tip), Delta(b)),
                                  n   |-> ReplayRows(Tip) + Len(b.rows)]
BY DEF TypeOK, PutBody, Tip

(* rollback's final transaction cuts the chain, and nothing below the cut. *)
LEMMA Truncated ==
    ASSUME TypeOK, Control, RollbackCommit
    PROVE  /\ Tip' = loop.to /\ loop.to \in 1..Tip
           /\ \A h \in 1..loop.to : blocks'[h] = blocks[h] /\ replay'[h] = replay[h]
<1>1. loop.to \in Nat /\ loop.to <= Tip /\ loop.to >= 1
  BY DEF RollbackCommit, Control, TypeOK, LoopType
<1> QED BY <1>1 DEF TypeOK, RollbackCommit, Tip

(* Every step extends the chain by one block, cuts it, or leaves it alone. *)
LEMMA ChainSteps ==
    ASSUME TypeOK, Control, HashesExact, [Next]_vars
    PROVE  \/ \E b \in Bodies : /\ PutBody(b) /\ Later(b) /\ ~block_already_exists(b)
                                /\ IF Tip = 0 THEN b = GenesisBody ELSE b \in Body
           \/ RollbackCommit
           \/ blocks' = blocks /\ replay' = replay /\ hashes' = hashes
<1> DEFINE Extends(b) == /\ PutBody(b) /\ Later(b) /\ ~block_already_exists(b)
                         /\ IF Tip = 0 THEN b = GenesisBody ELSE b \in Body
<1>1. ASSUME NEW b \in Body, Digest(b)
      PROVE  b \in Bodies /\ Extends(b)
  BY <1>1 DEF Digest, Control, commit_block, Bodies
<1>2. CASE seed_genesis
  <2>1. GenesisBody \in Bodies /\ GenesisBody.hash \in Hash
    BY BodyFacts DEF Bodies
  <2>2. hashes[GenesisBody.hash] = 0
    BY <1>2, <2>1 DEF seed_genesis, HashesExact
  <2>3. Extends(GenesisBody)
    BY <1>2, <2>2 DEF seed_genesis, commit_block, Later, block_already_exists
  <2> QED BY <2>1, <2>3
<1>3. ASSUME NEW b \in Bodies, LegacyCommit(b)
      PROVE  Extends(b)
  BY <1>3 DEF LegacyCommit
<1>4. ASSUME NEW to \in 1..(MaxHeight - 1), NEW fork \in {ForkHeight, NoFork}, RollbackBegin(to, fork)
      PROVE  blocks' = blocks /\ replay' = replay /\ hashes' = hashes
  BY <1>4 DEF RollbackBegin, index
<1>5. CASE \/ RollbackBlock \/ open_ledger \/ set_allocations \/ rebuild_difficulty \/ SkipDifficulty
           \/ (\E fork \in {ForkHeight, NoFork} : ReindexDrop(fork))
           \/ ReindexBatch \/ ReindexTotals \/ set_schema \/ Crash \/ UNCHANGED vars
  BY <1>5
  DEF RollbackBlock, open_ledger, set_allocations, rebuild_difficulty, SkipDifficulty, ReindexDrop, ReindexBatch,
      ReindexTotals, set_schema, Crash, vars, index
<1> QED BY <1>1, <1>2, <1>3, <1>4, <1>5 DEF Next

(* The chain keeps its shape. *)
LEMMA ChainStep == TypeOK /\ Control /\ HashesExact /\ Chain /\ [Next]_vars => Chain'
<1> SUFFICES ASSUME TypeOK, Control, HashesExact, Chain, [Next]_vars
             PROVE  Chain'
  OBVIOUS
<1>t. Tip \in Nat
  BY TipType
<1>s. \A h \in 1..Tip : blocks[h].ts \in Nat
  BY BlockAt, BodyFacts
<1>1. ASSUME NEW b \in Bodies, PutBody(b), Later(b), IF Tip = 0 THEN b = GenesisBody ELSE b \in Body
      PROVE  Chain'
  <2>1. /\ Tip' = Tip + 1 /\ blocks'[Tip + 1] = b
        /\ \A h \in 1..Tip : blocks'[h] = blocks[h]
    BY <1>1, Grown
  <2>2. b.ts \in Nat /\ \A h \in 1..Tip : blocks[h].ts < b.ts
    <3>1. b.ts \in Nat
      BY BodyFacts
    <3>2. ASSUME NEW h \in 1..Tip
          PROVE  blocks[h].ts < b.ts
      <4>1. blocks[Tip].ts < b.ts /\ blocks[Tip].ts \in Nat /\ blocks[h].ts \in Nat
        BY <1>1, <1>t, <1>s, <3>1 DEF Later
      <4>2. h = Tip \/ blocks[h].ts < blocks[Tip].ts
        BY <1>t DEF Chain
      <4> QED BY <4>1, <4>2, <3>1
    <3> QED BY <3>1, <3>2
  <2>3. \A h \in 1..Tip' : h = Tip + 1 \/ h \in 1..Tip
    BY <2>1, <1>t
  <2>4. Tip' >= 1 => blocks'[1] = GenesisBody
    BY <2>1, <1>1, <1>t DEF Chain
  <2>5. \A h \in 2..Tip' : blocks'[h] \in Body
    BY <2>1, <1>1, <1>t DEF Chain
  <2>6. \A h, k \in 1..Tip' : h < k => blocks'[h].ts < blocks'[k].ts
    BY <2>1, <2>2, <2>3, <1>t DEF Chain
  <2> QED BY <2>4, <2>5, <2>6 DEF Chain
<1>2. CASE RollbackCommit
  <2>1. Tip' = loop.to /\ loop.to \in 1..Tip /\ \A h \in 1..loop.to : blocks'[h] = blocks[h]
    BY <1>2, Truncated
  <2> QED BY <2>1, <1>t DEF Chain
<1>3. CASE blocks' = blocks
  BY <1>3 DEF Chain, Tip
<1> QED BY <1>1, <1>2, <1>3, ChainSteps

(* The hash index stays exact, also in a store of an older schema. *)
LEMMA HashesStep == TypeOK /\ Control /\ HashesExact /\ [Next]_vars => HashesExact'
<1> SUFFICES ASSUME TypeOK, Control, HashesExact, [Next]_vars
             PROVE  HashesExact'
  OBVIOUS
<1>t. Tip \in Nat
  BY TipType
<1>1. ASSUME NEW b \in Bodies, PutBody(b), ~block_already_exists(b)
      PROVE  HashesExact'
  <2>1. /\ Tip' = Tip + 1 /\ blocks'[Tip + 1] = b
        /\ \A h \in 1..Tip : blocks'[h] = blocks[h]
    BY <1>1, Grown
  <2>2. b.hash \in Hash /\ hashes[b.hash] = 0
    BY <1>1, BodyFacts DEF block_already_exists
  <2>3. \A x \in Hash : hashes'[x] = IF x = b.hash THEN Tip + 1 ELSE hashes[x]
    BY <1>1, <2>2 DEF PutBody, TypeOK
  <2>4. \A h \in 1..Tip' : h = Tip + 1 \/ h \in 1..Tip
    BY <2>1, <1>t
  <2>5. \A h \in 1..Tip : blocks[h].hash # b.hash
    BY <2>2, <1>t DEF HashesExact
  <2>6. ASSUME NEW x \in Hash
        PROVE  hashes'[x] \in 0..Tip' /\ \A h \in 1..Tip' : hashes'[x] = h <=> blocks'[h].hash = x
    <3>1. hashes[x] \in 0..Tip /\ \A h \in 1..Tip : hashes[x] = h <=> blocks[h].hash = x
      BY DEF HashesExact
    <3> QED BY <3>1, <2>1, <2>2, <2>3, <2>4, <2>5, <1>t
  <2> QED BY <2>6 DEF HashesExact
<1>2. CASE RollbackCommit
  <2>1. Tip' = loop.to /\ loop.to \in 1..Tip /\ \A h \in 1..loop.to : blocks'[h] = blocks[h]
    BY <1>2, Truncated
  <2>2. ASSUME NEW x \in Hash
        PROVE  hashes'[x] \in 0..Tip' /\ \A h \in 1..Tip' : hashes'[x] = h <=> blocks'[h].hash = x
    <3>1. hashes[x] \in 0..Tip /\ \A h \in 1..Tip : hashes[x] = h <=> blocks[h].hash = x
      BY DEF HashesExact
    <3>2. hashes'[x] = IF \E h \in (loop.to + 1)..Tip : blocks[h].hash = x THEN 0 ELSE hashes[x]
      BY <1>2 DEF RollbackCommit, Removed
    <3> QED BY <3>1, <3>2, <2>1, <1>t
  <2> QED BY <2>2 DEF HashesExact
<1>3. CASE blocks' = blocks /\ hashes' = hashes
  BY <1>3 DEF HashesExact, Tip
<1> QED BY <1>1, <1>2, <1>3, ChainSteps

(* A store of an older schema stays below the fork, and an empty store is  *)
(* empty everywhere.                                                       *)
LEMMA LegacyStep == TypeOK /\ Control /\ Legacy /\ [Next]_vars => Legacy'
<1> SUFFICES ASSUME TypeOK, Control, Legacy, [Next]_vars
             PROVE  Legacy'
  OBVIOUS
<1>t. Tip \in Nat
  BY TipType
<1>1. ASSUME NEW b \in Body, Digest(b)
      PROVE  Legacy'
  <2>1. Tip' = Tip + 1
    BY <1>1, Grown DEF Digest, commit_block, Bodies
  <2> QED BY <1>1, <2>1, <1>t DEF Digest, Legacy, Control
<1>2. ASSUME NEW to \in 1..(MaxHeight - 1), NEW fork \in {ForkHeight, NoFork}, RollbackBegin(to, fork)
      PROVE  Legacy'
  BY <1>2 DEF RollbackBegin, Legacy, index, Tip
<1>3. CASE RollbackBlock
  BY <1>3 DEF RollbackBlock, Legacy, index, Tip
<1>4. CASE RollbackCommit
  BY <1>4, <1>t, Truncated DEF RollbackCommit, Legacy, Control
<1>5. CASE open_ledger
  BY <1>5 DEF open_ledger, Legacy, index, Tip
<1>6. CASE seed_genesis
  <2>1. Tip' = Tip + 1
    BY <1>6, Grown DEF seed_genesis, commit_block, Bodies
  <2> QED BY <1>6, <2>1, <1>t DEF seed_genesis, Legacy, Control
<1>7. CASE set_allocations
  BY <1>7, <1>t DEF set_allocations, Legacy, Control, index, Tip
<1>8. CASE rebuild_difficulty
  BY <1>8 DEF rebuild_difficulty, Legacy, index, Tip
<1>16. CASE SkipDifficulty
  BY <1>16 DEF SkipDifficulty, Legacy, index, Tip
<1>9. ASSUME NEW fork \in {ForkHeight, NoFork}, ReindexDrop(fork)
      PROVE  Legacy'
  BY <1>9, <1>t DEF ReindexDrop, Legacy, Control, Tip
<1>10. CASE ReindexBatch
  BY <1>10, <1>t DEF ReindexBatch, Legacy, Control, Tip
<1>11. CASE ReindexTotals
  BY <1>11, <1>t DEF ReindexTotals, Legacy, Control, index, Tip
<1>12. CASE set_schema
  BY <1>12 DEF set_schema, Legacy, index, Tip
<1>13. CASE Crash
  BY <1>13 DEF Crash, Legacy, index, Tip
<1>14. ASSUME NEW b \in Bodies, LegacyCommit(b)
       PROVE  Legacy'
  <2>1. Tip' = Tip + 1
    BY <1>14, Grown DEF LegacyCommit
  <2> QED BY <1>14, <2>1, <1>t DEF LegacyCommit, Legacy, Control
<1>15. CASE UNCHANGED vars
  BY <1>15 DEF vars, index, Legacy, Tip
<1> QED
  BY <1>1, <1>2, <1>3, <1>4, <1>5, <1>6, <1>7, <1>8, <1>9, <1>10, <1>11, <1>12, <1>13, <1>14, <1>15, <1>16
  DEF Next

(* Recorded difficulties keep ending at the tip. *)
LEMMA DifficultiesStep ==
    TypeOK /\ Control /\ Difficulties /\ [Next]_vars => Difficulties'
<1> SUFFICES ASSUME TypeOK, Control, Difficulties, [Next]_vars
             PROVE  Difficulties'
  OBVIOUS
<1>t. Tip \in Nat /\ Anchor \in Nat /\ Anchor >= 1
  BY TipType, ConstantsAssumption
<1>s. ASSUME UNCHANGED <<blocks, diff, schema>>, MayLack => MayLack'
      PROVE  Difficulties'
  BY <1>s DEF Difficulties, Tip
<1>1. ASSUME NEW b \in Bodies, commit_block(b), schema, UNCHANGED <<schema, run, gap>>
      PROVE  Difficulties'
  <2>1. Tip' = Tip + 1 /\ diff' = diff \cup {Tip + 1} /\ (MayLack' <=> MayLack)
    BY <1>1, Grown DEF commit_block, MayLack
  <2>2. diff' \subseteq 1..(Tip + 1)
    BY <2>1, <1>t DEF Difficulties
  <2>3. ASSUME NEW h \in diff', NEW k \in h..(Tip + 1)
        PROVE  k \in diff' \/ (k >= Anchor /\ MayLack)
    BY <2>1, <2>2, <2>3, <1>t DEF Difficulties
  <2> QED BY <1>1, <2>1, <2>2, <2>3 DEF Difficulties
<1>2. ASSUME NEW to \in 1..(MaxHeight - 1), NEW fork \in {ForkHeight, NoFork}, RollbackBegin(to, fork)
      PROVE  Difficulties'
  BY <1>2, <1>s DEF RollbackBegin, MayLack
<1>3. CASE RollbackBlock
  BY <1>3, <1>s DEF RollbackBlock, MayLack
<1>4. CASE RollbackCommit
  <2>1. Tip' = loop.to /\ loop.to \in 1..Tip
    BY <1>4, Truncated
  <2>2. /\ diff' = diff \ ((loop.to + 1)..Tip)
        /\ UNCHANGED <<schema, run, gap>> /\ schema /\ (MayLack' <=> MayLack)
    BY <1>4 DEF RollbackCommit, DiffAfter, Removed, Control, MayLack
  <2>3. diff' \subseteq 1..loop.to
    <3>1. ASSUME NEW h \in diff'
          PROVE  h \in 1..loop.to
      <4>1. h \in 1..Tip /\ h \notin (loop.to + 1)..Tip
        BY <2>2 DEF Difficulties
      <4> QED BY <4>1, <2>1, <1>t
    <3> QED BY <3>1
  <2>4. ASSUME NEW h \in diff', NEW k \in h..loop.to
        PROVE  k \in diff' \/ (k >= Anchor /\ MayLack)
    <3>1. h \in diff /\ h \in 1..loop.to /\ k \in h..Tip /\ k <= loop.to
      BY <2>1, <2>2, <2>3, <2>4, <1>t
    <3>2. k \in diff \/ (k >= Anchor /\ MayLack)
      BY <3>1 DEF Difficulties
    <3> QED BY <3>1, <3>2, <2>1, <2>2, <1>t
  <2> QED BY <2>1, <2>2, <2>3, <2>4 DEF Difficulties
<1>5. CASE open_ledger
  <2>1. CASE schema
    BY <1>5, <2>1, <1>s DEF open_ledger, MayLack
  <2>2. CASE ~schema
    <3>1. Tip = 0 /\ Tip' = Tip /\ diff' = diff
      BY <1>5, <2>2, <1>t DEF open_ledger, Tip
    <3>2. diff = {}
      BY <3>1 DEF Difficulties
    <3> QED BY <3>1, <3>2 DEF Difficulties
  <2> QED BY <2>1, <2>2
<1>6. CASE set_allocations
  BY <1>6, <1>s DEF set_allocations, MayLack, Control
<1>7. CASE rebuild_difficulty
  <2>1. /\ diff' = diff \cup (Anchor..Tip) /\ schema' = schema /\ Tip' = Tip
    BY <1>7 DEF rebuild_difficulty, Tip
  <2>2. diff' \subseteq 1..Tip
    BY <2>1, <1>t DEF Difficulties
  <2>3. ASSUME NEW h \in diff', NEW k \in h..Tip
        PROVE  k \in diff'
    <3>1. h \in 1..Tip /\ k \in 1..Tip
      BY <2>2, <1>t
    <3>2. CASE h \in diff
      BY <3>1, <3>2, <2>1, <1>t DEF Difficulties
    <3>3. CASE h \in Anchor..Tip
      BY <3>1, <3>3, <2>1, <1>t
    <3> QED BY <3>2, <3>3, <2>1
  <2>4. ~schema => \A h \in diff' : h >= Anchor
    BY <2>1, <1>t DEF Difficulties
  <2> QED BY <2>1, <2>2, <2>3, <2>4 DEF Difficulties
<1>15. CASE SkipDifficulty
  BY <1>15, <1>s DEF SkipDifficulty, MayLack
<1>8. CASE \/ (\E fork \in {ForkHeight, NoFork} : ReindexDrop(fork)) \/ ReindexBatch \/ ReindexTotals
  BY <1>8, <1>s DEF ReindexDrop, ReindexBatch, ReindexTotals, MayLack
<1>9. CASE set_schema
  <2>1. UNCHANGED <<blocks, diff, gap>> /\ run = "tool" /\ schema'
    BY <1>9 DEF set_schema, Control
  <2> QED BY <2>1 DEF Difficulties, MayLack, Tip
<1>10. CASE Crash
  BY <1>10, <1>s DEF Crash, MayLack
<1>11. ASSUME NEW b \in Bodies, LegacyCommit(b)
       PROVE  Difficulties'
  <2>1. Tip' = Tip + 1 /\ ~schema /\ run = "off" /\ UNCHANGED <<diff, schema, run, gap>>
    BY <1>11, Grown DEF LegacyCommit
  <2>2. MayLack' /\ diff \subseteq 1..(Tip + 1) /\ \A h \in diff : h >= Anchor
    BY <2>1, <1>t DEF Difficulties, MayLack
  <2>3. \A h \in diff : \A k \in h..(Tip + 1) : k >= Anchor
    BY <2>2, <1>t
  <2> QED BY <2>1, <2>2, <2>3 DEF Difficulties
<1>12. CASE UNCHANGED vars
  BY <1>12, <1>s DEF vars, MayLack
<1>13. ASSUME NEW b \in Body, Digest(b)
       PROVE  Difficulties'
  BY <1>1, <1>13 DEF Digest, Control, Bodies
<1>14. CASE seed_genesis
  BY <1>1, <1>14 DEF seed_genesis, Control, Bodies
<1> QED
  BY <1>2, <1>3, <1>4, <1>5, <1>6, <1>7, <1>8, <1>9, <1>10, <1>11, <1>12, <1>13, <1>14, <1>15 DEF Next

(* The history variable stays the fold of the block deltas. *)
LEMMA ReplayStep ==
    TypeOK /\ Control /\ HashesExact /\ ReplayIsFold /\ [Next]_vars => ReplayIsFold'
<1> SUFFICES ASSUME TypeOK, Control, HashesExact, ReplayIsFold, [Next]_vars
             PROVE  ReplayIsFold'
  OBVIOUS
<1>t. Tip \in Nat
  BY TipType
<1>1. ASSUME NEW b \in Bodies, PutBody(b)
      PROVE  ReplayIsFold'
  <2>1. /\ Tip' = Tip + 1 /\ blocks'[Tip + 1] = b
        /\ \A h \in 1..Tip : blocks'[h] = blocks[h] /\ replay'[h] = replay[h]
        /\ replay'[Tip + 1] = [bal |-> Plus(ReplayBal(Tip), Delta(b)),
                               n   |-> ReplayRows(Tip) + Len(b.rows)]
    BY <1>1, Grown
  <2>2. \A h \in 0..Tip : ReplayBal(h)' = ReplayBal(h) /\ ReplayRows(h)' = ReplayRows(h)
    BY <2>1, <1>t DEF ReplayBal, ReplayRows
  <2>3. ASSUME NEW h \in 1..Tip'
        PROVE  /\ replay'[h].bal = Plus(ReplayBal(h - 1)', Delta(blocks'[h]))
               /\ replay'[h].n = ReplayRows(h - 1)' + Len(blocks'[h].rows)
    <3>1. CASE h = Tip + 1
      BY <3>1, <2>1, <2>2, <1>t
    <3>2. CASE h \in 1..Tip
      BY <3>2, <2>1, <2>2, <1>t DEF ReplayIsFold
    <3> QED BY <3>1, <3>2, <2>1, <1>t
  <2> QED BY <2>3 DEF ReplayIsFold
<1>2. CASE RollbackCommit
  <2>1. Tip' = loop.to /\ loop.to \in 1..Tip
        /\ \A h \in 1..loop.to : blocks'[h] = blocks[h] /\ replay'[h] = replay[h]
    BY <1>2, Truncated
  <2>2. \A h \in 0..loop.to : ReplayBal(h)' = ReplayBal(h) /\ ReplayRows(h)' = ReplayRows(h)
    BY <2>1, <1>t DEF ReplayBal, ReplayRows
  <2> QED BY <2>1, <2>2, <1>t DEF ReplayIsFold
<1>3. CASE blocks' = blocks /\ replay' = replay
  BY <1>3 DEF ReplayIsFold, Tip, ReplayBal, ReplayRows
<1> QED BY <1>1, <1>2, <1>3, ChainSteps

-----------------------------------------------------------------------------
(* The derived indexes. *)

(* The index entries of a block carry its height. *)
LEMMA PosHeight ==
    ASSUME NEW b, NEW h, NEW e \in PosEntries(b, h)
    PROVE  e[3] = h
BY DEF PosEntries

(* The exact position index of one more block adds that block's entries. *)
LEMMA PosGrows ==
    ASSUME NEW n \in Nat
    PROVE  PosUpTo(n + 1) = PosUpTo(n) \cup PosEntries(blocks[n + 1], n + 1)
<1>1. \A h : h \in 1..(n + 1) <=> h \in 1..n \/ h = n + 1
  OBVIOUS
<1> QED BY <1>1 DEF PosUpTo

(* Sweeping the entries above a height leaves the exact index below it. *)
LEMMA PosCut ==
    ASSUME NEW n \in Nat, NEW m \in 0..n
    PROVE  PosUpTo(n) \ UNION {PosEntries(blocks[h], h) : h \in (m + 1)..n} = PosUpTo(m)
<1>1. \A h : h \in 1..n <=> h \in 1..m \/ h \in (m + 1)..n
  OBVIOUS
<1>2. \A h \in 1..m, k \in (m + 1)..n :
        PosEntries(blocks[h], h) \cap PosEntries(blocks[k], k) = {}
  <2> SUFFICES ASSUME NEW h \in 1..m, NEW k \in (m + 1)..n,
                      NEW e \in PosEntries(blocks[h], h), e \in PosEntries(blocks[k], k)
               PROVE  FALSE
    OBVIOUS
  <2>1. e[3] = h /\ e[3] = k
    BY PosHeight
  <2> QED BY <2>1
<1> QED BY <1>1, <1>2 DEF PosUpTo

(* What an index says of a height depends on that block only. *)
LEMMA SameBelow ==
    ASSUME NEW n \in Nat, \A h \in 1..n : blocks'[h] = blocks[h]
    PROVE  /\ PosUpTo(n)' = PosUpTo(n)
           /\ \A t \in Txid, h \in 1..n : InTxids(t, h)' <=> InTxids(t, h)
           /\ \A a \in Address, h \in 1..n : Reveals(a, h)' <=> Reveals(a, h)
<1>1. PosUpTo(n)' = PosUpTo(n)
  BY DEF PosUpTo
<1> QED BY <1>1 DEF InTxids, Reveals

(* A digested block's txids are new to the chain: digest.py refuses an id  *)
(* that the index knows, and a coinbase id is tied to its block's time.    *)
LEMMA NewTxids ==
    ASSUME TypeOK, Chain, TxidsUpTo(Tip), NEW b \in Body, Later(b), PostFork(Tip + 1, ForkHeight),
           check_duplicate_signatures(b, Tip + 1),
           NEW t \in Txids(b), NEW k \in 1..Tip, InTxids(t, k)
    PROVE  FALSE
<1>t. Tip \in Nat /\ ForkHeight \in Nat /\ ForkHeight >= 2 /\ b \in Bodies
  BY TipType, ConstantsAssumption DEF Bodies
<1>1. PICK i \in DOMAIN b.rows : b.rows[i].txid = t
  BY DEF Txids
<1>2. k >= ForkHeight /\ k >= 2 /\ blocks[k] \in Body
  BY <1>t DEF InTxids, PostFork, Chain
<1>3. PICK j \in DOMAIN blocks[k].rows : blocks[k].rows[j].txid = t
  BY DEF InTxids, Txids
<1>4. i \in 1..Len(b.rows) /\ Len(b.rows) \in Nat /\ b.ts \in Nat /\ t \in Txid
  BY <1>1, <1>t, BodyFacts DEF RowType
<1>5. CASE i = Len(b.rows)
  <2>1. blocks[k].ts = b.ts
    BY <1>1, <1>2, <1>3, <1>5, CoinbaseAssumption
  <2>2. blocks[Tip].ts < b.ts /\ (k = Tip \/ blocks[k].ts < blocks[Tip].ts)
    BY <1>t, <1>2 DEF Later, Chain
  <2>3. blocks[k].ts \in Nat /\ blocks[Tip].ts \in Nat
    BY BlockAt, BodyFacts, <1>t
  <2> QED BY <2>1, <2>2, <2>3, <1>4
<1>6. CASE i # Len(b.rows)
  <2>1. i \in Checked(b, Tip + 1)
    BY <1>4, <1>6 DEF Checked
  <2>2. ~(txid[t] # 0 /\ txid[t] < Tip + 1)
    BY <2>1, <1>1 DEF check_duplicate_signatures
  <2>3. txid[t] = k
    BY <1>4 DEF TxidsUpTo
  <2> QED BY <2>2, <2>3, <1>t
<1> QED BY <1>5, <1>6

(* Recording in the txid index a block whose ids are in no lower block. *)
LEMMA TxidPut ==
    ASSUME TypeOK, NEW m \in Nat, NEW n \in Nat, n = m + 1, TxidsUpTo(m), NEW b \in Bodies,
           blocks'[n] = b, \A h \in 1..m : blocks'[h] = blocks[h],
           PostFork(n, ForkHeight) => \A t \in Txids(b), k \in 1..m : ~InTxids(t, k),
           txid' = PutTxids(b, n, ForkHeight, txid)
    PROVE  TxidsUpTo(n)'
<1>t. ForkHeight \in Nat /\ ForkHeight >= 2
  BY ConstantsAssumption
<1>b. \A t \in Txid, h \in 1..m : InTxids(t, h)' <=> InTxids(t, h)
  BY SameBelow
<1>n. \A t \in Txid : InTxids(t, n)' <=> n >= ForkHeight /\ t \in Txids(b)
  BY DEF InTxids, PostFork
<1>d. \A h \in 1..n : h = n \/ h \in 1..m
  OBVIOUS
<1>1. CASE n < ForkHeight
  <2>1. txid' = txid
    BY <1>1, <1>t DEF PutTxids, PostFork
  <2> QED BY <2>1, <1>1, <1>b, <1>n, <1>d, <1>t DEF TxidsUpTo
<1>2. CASE n >= ForkHeight
  <2>1. \A t \in Txid : txid'[t] = IF t \in Txids(b) THEN n ELSE txid[t]
    BY <1>2 DEF PutTxids, PostFork
  <2>3. \A t \in Txids(b), k \in 1..m : ~InTxids(t, k)
    BY <1>2 DEF PostFork
  <2>4. ASSUME NEW t \in Txid
        PROVE  /\ txid'[t] \in 0..n
               /\ \A h \in 1..n : txid'[t] = h <=> InTxids(t, h)'
    <3>1. txid[t] \in 0..m /\ \A h \in 1..m : txid[t] = h <=> InTxids(t, h)
      BY DEF TxidsUpTo
    <3>2. CASE t \in Txids(b)
      BY <3>1, <3>2, <2>1, <2>3, <1>2, <1>b, <1>n, <1>d, <1>t
    <3>3. CASE t \notin Txids(b)
      BY <3>1, <3>3, <2>1, <1>2, <1>b, <1>n, <1>d, <1>t
    <3> QED BY <3>2, <3>3
  <2> QED BY <2>4 DEF TxidsUpTo
<1> QED BY <1>1, <1>2, <1>t

(* Recording a block in the public key registry: only first uses count. *)
LEMMA KeysPut ==
    ASSUME TypeOK, NEW m \in Nat, NEW n \in Nat, n = m + 1, KeysUpTo(m), NEW b \in Bodies,
           blocks'[n] = b, \A h \in 1..m : blocks'[h] = blocks[h],
           pkref' = PutKeys(b, n, ForkHeight, pkref)
    PROVE  KeysUpTo(n)'
<1>t. ForkHeight \in Nat /\ ForkHeight >= 2
  BY ConstantsAssumption
<1>b. \A a \in Address, h \in 1..m : Reveals(a, h)' <=> Reveals(a, h)
  BY SameBelow
<1>n. \A a \in Address : Reveals(a, n)' <=> n >= ForkHeight /\ a \in KeyOwners(b)
  BY DEF Reveals, PostFork
<1>p. \A a \in Address : pkref'[a] = IF n >= ForkHeight /\ pkref[a] = 0 /\ a \in KeyOwners(b)
                                     THEN n ELSE pkref[a]
  BY DEF PutKeys, PostFork, TypeOK
<1>1. ASSUME NEW a \in Address
      PROVE  /\ pkref'[a] \in 0..n
             /\ \A h \in 1..n : pkref'[a] = h => Reveals(a, h)'
             /\ \A h \in 1..n : Reveals(a, h)' => pkref'[a] \in 1..h
  <2>1. /\ pkref[a] \in 0..m
        /\ \A h \in 1..m : pkref[a] = h => Reveals(a, h)
        /\ \A h \in 1..m : Reveals(a, h) => pkref[a] \in 1..h
    BY <1>t DEF KeysUpTo
  <2>2. \A h \in 1..n : h = n \/ h \in 1..m
    OBVIOUS
  <2> QED BY <2>1, <2>2, <1>b, <1>n, <1>p, <1>t
<1> QED BY <1>1, <1>p DEF KeysUpTo, Reveals

(* A commit adds the block's own entries to the position index. *)
LEMMA PosCommit ==
    ASSUME TypeOK, pos = PosUpTo(Tip), NEW b \in Bodies, PutBody(b),
           pos' = pos \cup PosEntries(b, Tip + 1)
    PROVE  pos' = PosUpTo(Tip)'
<1>t. Tip \in Nat
  BY TipType
<1>n. PICK n \in Nat : n = Tip + 1
  BY <1>t
<1>g. /\ Tip' = n /\ blocks'[n] = b
      /\ \A h \in 1..Tip : blocks'[h] = blocks[h]
  BY <1>n, <1>t, Grown
<1>1. pos' = PosUpTo(Tip) \cup PosEntries(b, n)
  BY <1>n
<1>2. \A h : h \in 1..n <=> h \in 1..Tip \/ h = n
  BY <1>n, <1>t
<1>3. UNION {PosEntries(blocks'[h], h) : h \in 1..n}
         = (UNION {PosEntries(blocks[h], h) : h \in 1..Tip}) \cup PosEntries(b, n)
  BY <1>2, <1>g
<1> QED BY <1>1, <1>3, <1>g DEF PosUpTo

(* rollback cuts the position index back to the height it stops at. *)
LEMMA PosRollback ==
    ASSUME TypeOK, Control, pos = PosUpTo(Tip), RollbackCommit
    PROVE  pos' = PosUpTo(Tip)'
<1>t. Tip \in Nat
  BY TipType
<1>g. /\ Tip' = loop.to /\ loop.to \in 1..Tip
      /\ \A h \in 1..loop.to : blocks'[h] = blocks[h]
  BY Truncated
<1>m. PICK m \in Nat : m = loop.to
  BY <1>g, <1>t
<1>1. pos' = PosUpTo(Tip) \ UNION {PosEntries(blocks[h], h) : h \in (m + 1)..Tip}
  BY <1>m DEF RollbackCommit, Removed
<1>2. pos' = PosUpTo(m)
  BY <1>1, <1>t, <1>g, <1>m, PosCut
<1>3. pos' = PosUpTo(m)'
  BY <1>2, <1>g, <1>m, SameBelow
<1> QED BY <1>3, <1>g, <1>m DEF PosUpTo

(* ... and so does it the txid index, also when the caller did not know    *)
(* the fork height yet.                                                    *)
LEMMA TxidRollback ==
    ASSUME TypeOK, Control, TxidsUpTo(Tip), RollbackCommit
    PROVE  TxidsUpTo(Tip)'
<1>t. Tip \in Nat /\ Tip <= MaxHeight
  BY TipType DEF TypeOK
<1>g. /\ Tip' = loop.to /\ loop.to \in 1..Tip
      /\ \A h \in 1..loop.to : blocks'[h] = blocks[h]
  BY Truncated
<1>m. PICK m \in Nat : m = loop.to
  BY <1>g, <1>t
<1>1. ASSUME NEW t \in Txid
      PROVE  txid'[t] = IF txid[t] > m THEN 0 ELSE txid[t]
  <2>1. txid'[t] = IF DeletedTxid(t) THEN 0 ELSE txid[t]
    BY DEF RollbackCommit, TxidAfter
  <2>2. ASSUME NEW h \in (m + 1)..Tip, PostFork(h, loop.fork), t \in Txids(blocks[h])
        PROVE  txid[t] > m
    <3>1. loop.fork = ForkHeight
      BY <2>2, <1>t, ConstantsAssumption DEF Control, RollbackCommit, PostFork, NoFork
    <3>2. InTxids(t, h) /\ h \in 1..Tip /\ h > m
      BY <3>1, <2>2, <1>t, <1>m DEF InTxids
    <3>3. txid[t] = h
      BY <3>2 DEF TxidsUpTo
    <3> QED BY <3>2, <3>3
  <2>3. DeletedTxid(t) <=> txid[t] > m
    BY <2>2, <1>m DEF DeletedTxid, Removed
  <2> QED BY <2>1, <2>3
<1>2. \A t \in Txid, h \in 1..m : InTxids(t, h)' <=> InTxids(t, h)
  BY <1>g, <1>m, SameBelow
<1>3. ASSUME NEW t \in Txid
      PROVE  txid'[t] \in 0..m /\ \A h \in 1..m : txid'[t] = h <=> InTxids(t, h)'
  <2>1. txid[t] \in 0..Tip /\ \A h \in 1..Tip : txid[t] = h <=> InTxids(t, h)
    BY DEF TxidsUpTo
  <2> QED BY <2>1, <1>1, <1>2, <1>t, <1>g, <1>m
<1> QED BY <1>3, <1>g, <1>m DEF TxidsUpTo

(* ... and the public key registry. *)
LEMMA KeysRollback ==
    ASSUME TypeOK, Control, KeysUpTo(Tip), RollbackCommit
    PROVE  KeysUpTo(Tip)'
<1>t. Tip \in Nat
  BY TipType
<1>g. /\ Tip' = loop.to /\ loop.to \in 1..Tip
      /\ \A h \in 1..loop.to : blocks'[h] = blocks[h]
  BY Truncated
<1>m. PICK m \in Nat : m = loop.to
  BY <1>g, <1>t
<1>1. \A a \in Address : pkref'[a] = IF pkref[a] > m THEN 0 ELSE pkref[a]
  BY <1>m DEF RollbackCommit
<1>2. \A a \in Address, h \in 1..m : Reveals(a, h)' <=> Reveals(a, h)
  BY <1>g, <1>m, SameBelow
<1>3. ASSUME NEW a \in Address
      PROVE  /\ pkref'[a] \in 0..m
             /\ \A h \in 1..m : pkref'[a] = h => Reveals(a, h)'
             /\ \A h \in 1..m : Reveals(a, h)' => pkref'[a] \in 1..h
  <2>1. /\ pkref[a] \in 0..Tip
        /\ \A h \in 1..Tip : pkref[a] = h => Reveals(a, h)
        /\ \A h \in 1..Tip : Reveals(a, h) => pkref[a] \in 1..h
    BY <1>t DEF KeysUpTo
  <2> QED BY <2>1, <1>1, <1>2, <1>t, <1>g, <1>m
<1> QED BY <1>3, <1>g, <1>m DEF KeysUpTo, Reveals

(* A step that leaves the blocks and the indexes alone. *)
LEMMA SameIndexes ==
    ASSUME NEW n \in Nat, UNCHANGED blocks
    PROVE  /\ pos' = pos /\ pos = PosUpTo(n) => pos' = PosUpTo(n)'
           /\ txid' = txid /\ TxidsUpTo(n) => TxidsUpTo(n)'
           /\ pkref' = pkref /\ KeysUpTo(n) => KeysUpTo(n)'
BY DEF PosUpTo, TxidsUpTo, KeysUpTo, InTxids, Reveals

(* The empty indexes cover no block. *)
LEMMA EmptyIndexes ==
    /\ pos = {} => pos = PosUpTo(0)
    /\ txid = [t \in Txid |-> 0] => TxidsUpTo(0)
    /\ pkref = [a \in Address |-> 0] => KeysUpTo(0)
BY DEF PosUpTo, TxidsUpTo, KeysUpTo

(* The steps that touch none of blocks and indexes, and cover no more. *)
Idle ==
    /\ UNCHANGED <<blocks, pos, txid, pkref, blind>>
    /\ RowsCover' => RowsCover /\ Covered' = Covered
    /\ ForkCovers' => ForkCovers /\ Covered' = Covered

(* Sorting the steps by what they do to the indexes. *)
LEMMA IdleSteps ==
    ASSUME TypeOK, Control, [Next]_vars
    PROVE  \/ \E b \in Body : Digest(b)
           \/ seed_genesis
           \/ RollbackCommit
           \/ open_ledger /\ ~schema
           \/ \E fork \in {ForkHeight, NoFork} : ReindexDrop(fork)
           \/ ReindexBatch
           \/ \E b \in Bodies : LegacyCommit(b)
           \/ Idle
<1>t. Tip \in Nat /\ loop \in LoopType /\ NoLoop.op = "none"
  BY TipType DEF TypeOK, NoLoop
<1>c. run \in {"off", "opening"} => loop.op = "none"
  BY <1>t DEF Control, LoopType
<1>1. ASSUME NEW to \in 1..(MaxHeight - 1), NEW fork \in {ForkHeight, NoFork}, RollbackBegin(to, fork)
      PROVE  Idle
  <2>1. loop.op = "none" /\ loop'.op = "rollback" /\ UNCHANGED <<schema, gap, blocks, pos, txid, pkref, blind>>
    BY <1>1 DEF RollbackBegin, NoLoop, index
  <2> QED BY <2>1 DEF Idle, RowsCover, ForkCovers, Covered, Tip
<1>2. CASE RollbackBlock
  <2>1. loop.op = "rollback" /\ loop'.op = "rollback" /\ UNCHANGED <<schema, gap, blocks, pos, txid, pkref, blind>>
    BY <1>2, <1>t DEF RollbackBlock, LoopType, index
  <2> QED BY <2>1 DEF Idle, RowsCover, ForkCovers, Covered, Tip
<1>3. CASE open_ledger /\ schema
  BY <1>3, <1>c DEF open_ledger, Idle, RowsCover, ForkCovers, Covered, Tip, index
<1>4. CASE set_allocations
  BY <1>4, <1>c DEF set_allocations, Idle, RowsCover, ForkCovers, Covered, Tip, index
<1>5. CASE rebuild_difficulty
  BY <1>5, <1>c DEF rebuild_difficulty, Idle, RowsCover, ForkCovers, Covered, Tip, index
<1>6. CASE SkipDifficulty
  BY <1>6, <1>c DEF SkipDifficulty, Idle, RowsCover, ForkCovers, Covered, Tip, index
<1>7. CASE ReindexTotals
  <2>1. /\ loop.op = "reindex" /\ loop.at = Tip /\ loop'.op = "schema"
        /\ UNCHANGED <<schema, blocks, pos, txid, pkref, blind>>
        /\ "fork" \in gap
    BY <1>7 DEF ReindexTotals, Scanned, NoLoop, index, Control
  <2>2. "fork" \notin gap' => ForkKnown
    BY <1>7, <2>1 DEF ReindexTotals, ForkKnown
  <2> QED BY <2>1, <2>2 DEF Idle, RowsCover, ForkCovers, Covered, Tip
<1>8. CASE set_schema
  BY <1>8, <1>t DEF set_schema, Idle, RowsCover, ForkCovers, Covered, Tip, index, Control
<1>9. CASE Crash
  BY <1>9, <1>t DEF Crash, Idle, RowsCover, ForkCovers, Covered, Tip, index, Control
<1>10. CASE UNCHANGED vars
  BY <1>10 DEF vars, Idle, RowsCover, ForkCovers, ForkKnown, Covered, Tip, index
<1> QED
  BY <1>1, <1>2, <1>3, <1>4, <1>5, <1>6, <1>7, <1>8, <1>9, <1>10 DEF Next

(* One step keeps the position index exact up to the height it covers. *)
LEMMA PositionedStep ==
    TypeOK /\ Control /\ Legacy /\ Positioned /\ [Next]_vars => Positioned'
<1> SUFFICES ASSUME TypeOK, Control, Legacy, Positioned, [Next]_vars
             PROVE  Positioned'
  OBVIOUS
<1>t. Tip \in Nat /\ loop \in LoopType
  BY TipType DEF TypeOK
<1>c. run \in {"off", "opening"} => loop.op = "none"
  BY <1>t DEF Control, LoopType
<1>k. PICK k \in Nat : k = Covered
  BY <1>t DEF Covered, LoopType
<1>1. ASSUME NEW b \in Bodies, commit_block(b), loop.op = "none", UNCHANGED <<loop, schema, gap>>
      PROVE  Positioned'
  <2> SUFFICES ASSUME RowsCover'
               PROVE  pos' = PosUpTo(Tip)'
    BY <1>1 DEF Positioned, Covered, PosUpTo
  <2>1. pos = PosUpTo(Tip)
    BY <1>1 DEF Positioned, RowsCover, Covered
  <2> QED BY <1>1, <2>1, PosCommit DEF commit_block
<1>2. ASSUME NEW b \in Body, Digest(b)
      PROVE  Positioned'
  BY <1>1, <1>2 DEF Digest, Bodies
<1>3. CASE seed_genesis
  BY <1>1, <1>3, <1>c DEF seed_genesis, Bodies
<1>4. CASE RollbackCommit
  <2>1. loop.op = "rollback" /\ loop'.op = "none" /\ UNCHANGED <<schema, gap>>
    BY <1>4 DEF RollbackCommit, NoLoop
  <2> SUFFICES ASSUME RowsCover'
               PROVE  pos' = PosUpTo(Tip)'
    BY <2>1 DEF Positioned, Covered, PosUpTo
  <2>2. pos = PosUpTo(Tip)
    BY <2>1 DEF Positioned, RowsCover, Covered
  <2> QED BY <1>4, <2>2, PosRollback
<1>5. CASE open_ledger /\ ~schema
  <2>1. Tip = 0 /\ Covered' = 0 /\ pos = {} /\ UNCHANGED <<blocks, pos>>
    BY <1>5, <1>t, <1>c DEF open_ledger, Legacy, Covered, Tip, index
  <2>2. pos' = PosUpTo(0)'
    BY <2>1, EmptyIndexes, SameIndexes
  <2> QED BY <2>1, <2>2 DEF Positioned, PosUpTo
<1>6. ASSUME NEW fork \in {ForkHeight, NoFork}, ReindexDrop(fork)
      PROVE  Positioned'
  <2>1. Covered' = 0 /\ pos' = {}
    BY <1>6 DEF ReindexDrop, Covered, NoLoop
  <2>2. pos' = PosUpTo(0)'
    BY <2>1 DEF PosUpTo
  <2> QED BY <2>1, <2>2 DEF Positioned, PosUpTo
<1>7. CASE ReindexBatch
  <2>1. /\ loop.op = "reindex" /\ k = loop.at /\ loop'.op = "reindex" /\ loop'.at = k + 1
        /\ blocks' = blocks /\ pos' = pos \cup PosEntries(blocks[k + 1], k + 1)
    BY <1>7, <1>t, <1>k DEF ReindexBatch, Covered, LoopType
  <2>2. pos = PosUpTo(k)
    BY <2>1, <1>k DEF Positioned, RowsCover
  <2>3. Covered' = k + 1
    BY <2>1 DEF Covered
  <2>4. pos' = PosUpTo(k + 1)
    BY <2>1, <2>2, PosGrows
  <2>5. pos' = PosUpTo(k + 1)'
    BY <2>1, <2>4 DEF PosUpTo
  <2> QED BY <2>3, <2>5 DEF Positioned, PosUpTo
<1>8. ASSUME NEW b \in Bodies, LegacyCommit(b)
      PROVE  Positioned'
  BY <1>8, <1>c DEF LegacyCommit, Positioned, RowsCover
<1>9. CASE Idle
  <2> SUFFICES ASSUME RowsCover'
               PROVE  pos' = PosUpTo(Covered)'
    BY DEF Positioned
  <2>1. pos = PosUpTo(k) /\ Covered' = k /\ UNCHANGED <<blocks, pos>>
    BY <1>9, <1>k DEF Idle, Positioned
  <2>2. pos' = PosUpTo(k)'
    BY <2>1, SameIndexes
  <2> QED BY <2>1, <2>2 DEF PosUpTo
<1> QED BY <1>2, <1>3, <1>4, <1>5, <1>6, <1>7, <1>8, <1>9, IdleSteps

(* One step keeps the txid index exact up to the height it covers, unless  *)
(* a block was digested while it was incomplete.                           *)
LEMMA TxidsStep ==
    TypeOK /\ Control /\ Chain /\ Legacy /\ TxidsCovered /\ TxidsUnique /\ [Next]_vars
       => TxidsCovered' /\ TxidsUnique'
<1> SUFFICES ASSUME TypeOK, Control, Chain, Legacy, TxidsCovered, TxidsUnique, [Next]_vars
             PROVE  TxidsCovered' /\ TxidsUnique'
  OBVIOUS
<1>t. Tip \in Nat /\ loop \in LoopType /\ ForkHeight \in Nat /\ ForkHeight >= 2 /\ Tip <= MaxHeight /\ MaxHeight \in Nat
  BY TipType, ConstantsAssumption DEF TypeOK
<1>c. run \in {"off", "opening"} => loop.op = "none"
  BY <1>t DEF Control, LoopType
<1>k. PICK k \in Nat : k = Covered
  BY <1>t DEF Covered, LoopType
<1>u. ASSUME UNCHANGED <<blocks, blind>>
      PROVE  TxidsUnique'
  BY <1>u DEF TxidsUnique, InTxids, Tip
<1>n. PICK n \in Nat : n = Tip + 1
  BY <1>t
<1>f. ASSUME NEW b \in Bodies, PutBody(b), "fork" \notin blind,
             PostFork(n, ForkHeight) => \A t \in Txids(b), h \in 1..Tip : ~InTxids(t, h)
      PROVE  TxidsUnique'
  <2>1. /\ Tip' = n /\ blocks'[n] = b
        /\ \A h \in 1..Tip : blocks'[h] = blocks[h]
    BY <1>f, <1>n, Grown
  <2>2. \A t \in Txid, h \in 1..Tip : InTxids(t, h)' <=> InTxids(t, h)
    BY <2>1, <1>t, SameBelow
  <2>3. \A t \in Txid : InTxids(t, n)' => \A h \in 1..Tip : ~InTxids(t, h)
    <3>1. \A t \in Txid : InTxids(t, n)' => PostFork(n, ForkHeight) /\ t \in Txids(b)
      BY <2>1 DEF InTxids
    <3> QED BY <3>1, <1>f
  <2>4. \A h \in 1..n : h = n \/ h \in 1..Tip
    BY <1>t, <1>n
  <2>5. \A t \in Txid, h, i \in 1..n : InTxids(t, h)' /\ InTxids(t, i)' => h = i
    BY <2>2, <2>3, <2>4, <1>f DEF TxidsUnique
  <2> QED BY <2>1, <2>5 DEF TxidsUnique
<1>1. ASSUME NEW b \in Bodies, PutBody(b), Tip + 1 < ForkHeight, UNCHANGED blind
      PROVE  TxidsUnique'
  <2>1. ~PostFork(n, ForkHeight)
    BY <1>1, <1>t, <1>n DEF PostFork
  <2>2. CASE "fork" \in blind
    BY <1>1, <2>2 DEF TxidsUnique
  <2> QED BY <1>1, <1>f, <2>1, <2>2
<1>2. ASSUME NEW b \in Body, Digest(b)
      PROVE  TxidsCovered' /\ TxidsUnique'
  <2>1. /\ b \in Bodies /\ PutBody(b) /\ Later(b) /\ check_duplicate_signatures(b, Tip + 1)
        /\ blind' = blind \cup gap /\ UNCHANGED <<schema, loop, gap>> /\ schema /\ loop.op = "none"
        /\ txid' = PutTxids(b, n, ForkHeight, txid)
    BY <1>2, <1>n DEF Digest, commit_block, Bodies, Control
  <2>2. /\ Tip' = n /\ blocks'[n] = b /\ Covered' = n /\ \A h \in 1..Tip : blocks'[h] = blocks[h]
    BY <2>1, <1>n, Grown DEF Covered
  <2> SUFFICES ASSUME "fork" \notin blind'
               PROVE  TxidsUpTo(n)' /\ TxidsUnique'
    BY <2>2 DEF TxidsCovered, TxidsUnique, TxidsUpTo
  <2>3. "fork" \notin blind /\ TxidsUpTo(Tip)
    BY <2>1 DEF TxidsCovered, ForkCovers, Covered
  <2>4. PostFork(n, ForkHeight) => \A t \in Txids(b), h \in 1..Tip : ~InTxids(t, h)
    BY <2>1, <2>3, <1>n, NewTxids
  <2>5. TxidsUpTo(n)'
    BY <2>1, <2>2, <2>3, <2>4, <1>n, <1>t, TxidPut
  <2> QED BY <2>1, <2>3, <2>4, <2>5, <1>f
<1>3. CASE seed_genesis
  <2>1. /\ GenesisBody \in Bodies /\ PutBody(GenesisBody) /\ Tip = 0
        /\ UNCHANGED <<schema, loop, gap, blind>> /\ schema /\ loop.op = "none"
        /\ txid' = PutTxids(GenesisBody, n, ForkHeight, txid)
    BY <1>3, <1>n, <1>c DEF seed_genesis, commit_block, Bodies, Control
  <2>2. /\ Tip' = n /\ blocks'[n] = GenesisBody /\ Covered' = n /\ \A h \in 1..Tip : blocks'[h] = blocks[h]
    BY <2>1, <1>n, Grown DEF Covered
  <2>3. ASSUME ForkCovers', "fork" \notin blind'
        PROVE  TxidsUpTo(n)'
    <3>1. TxidsUpTo(Tip)
      BY <2>1, <2>3 DEF TxidsCovered, ForkCovers, Covered
    <3>2. ~PostFork(n, ForkHeight)
      BY <2>1, <1>n, <1>t DEF PostFork
    <3> QED BY <2>1, <2>2, <3>1, <3>2, <1>n, <1>t, TxidPut
  <2> QED BY <2>1, <2>2, <2>3, <1>1, <1>t DEF TxidsCovered, TxidsUpTo
<1>4. CASE RollbackCommit
  <2>1. loop.op = "rollback" /\ loop'.op = "none" /\ UNCHANGED <<schema, gap, blind>>
    BY <1>4 DEF RollbackCommit, NoLoop
  <2>2. TxidsCovered'
    <3> SUFFICES ASSUME ForkCovers', "fork" \notin blind'
                 PROVE  TxidsUpTo(Tip)'
      BY <2>1 DEF TxidsCovered, Covered, TxidsUpTo
    <3>1. TxidsUpTo(Tip)
      BY <2>1 DEF TxidsCovered, ForkCovers, Covered
    <3> QED BY <1>4, <3>1, TxidRollback
  <2>3. TxidsUnique'
    <3>1. Tip' = loop.to /\ loop.to \in 1..Tip /\ \A h \in 1..loop.to : blocks'[h] = blocks[h]
      BY <1>4, Truncated
    <3>2. \A t \in Txid, h \in 1..loop.to : InTxids(t, h)' <=> InTxids(t, h)
      BY <3>1 DEF InTxids
    <3> QED BY <2>1, <3>1, <3>2, <1>t DEF TxidsUnique
  <2> QED BY <2>2, <2>3
<1>5. CASE open_ledger /\ ~schema
  <2>1. /\ Tip = 0 /\ Covered' = 0 /\ txid = [t \in Txid |-> 0]
        /\ UNCHANGED <<blocks, txid, blind>>
    BY <1>5, <1>t, <1>c DEF open_ledger, Legacy, Covered, Tip, index
  <2>2. TxidsUpTo(0)'
    BY <2>1, EmptyIndexes, SameIndexes
  <2> QED BY <2>1, <2>2, <1>u DEF TxidsCovered, TxidsUpTo
<1>6. ASSUME NEW fork \in {ForkHeight, NoFork}, ReindexDrop(fork)
      PROVE  TxidsCovered' /\ TxidsUnique'
  <2>1. Covered' = 0 /\ txid' = [t \in Txid |-> 0] /\ UNCHANGED <<blocks, blind>>
    BY <1>6 DEF ReindexDrop, Covered, NoLoop
  <2>2. TxidsUpTo(0)'
    BY <2>1 DEF TxidsUpTo
  <2> QED BY <2>1, <2>2, <1>u DEF TxidsCovered, TxidsUpTo
<1>7. CASE ReindexBatch
  <2>1. /\ loop.op = "reindex" /\ k = loop.at /\ loop'.op = "reindex" /\ loop'.at = k + 1
        /\ k + 1 <= Tip /\ loop'.fork = loop.fork /\ loop.fork \in {ForkHeight, NoFork}
        /\ UNCHANGED <<blocks, schema, gap, blind>> /\ "fork" \in gap
        /\ txid' = PutTxids(blocks[k + 1], k + 1, loop.fork, txid)
    BY <1>7, <1>t, <1>k DEF ReindexBatch, Covered, LoopType, Control
  <2>2. PICK i \in Nat : i = k + 1
    OBVIOUS
  <2>3. Covered' = i
    BY <2>1, <2>2 DEF Covered
  <2> SUFFICES ASSUME ForkCovers', "fork" \notin blind'
               PROVE  TxidsUpTo(i)'
    BY <2>1, <2>3, <1>u DEF TxidsCovered, TxidsUpTo
  <2>4. ForkKnown /\ TxidsUpTo(k)
    BY <2>1, <1>k DEF TxidsCovered, ForkCovers, ForkKnown, Tip
  <2>5. txid' = PutTxids(blocks[i], i, ForkHeight, txid)
    BY <2>1, <2>2, <2>4, <1>t DEF ForkKnown, PutTxids, PostFork, NoFork
  <2>6. blocks[i] \in Bodies /\ i \in 1..Tip
    BY <2>1, <2>2, <1>t, BlockAt
  <2>7. PostFork(i, ForkHeight) => \A t \in Txids(blocks[i]), h \in 1..k : ~InTxids(t, h)
    <3> SUFFICES ASSUME PostFork(i, ForkHeight), NEW t \in Txids(blocks[i]), NEW h \in 1..k, InTxids(t, h)
                 PROVE  FALSE
      OBVIOUS
    <3>1. t \in Txid
      BY <2>6, BodyFacts DEF Txids, RowType
    <3>2. InTxids(t, i) /\ h \in 1..Tip
      BY <2>1, <1>t DEF InTxids
    <3>3. h = i
      BY <3>1, <3>2, <2>1, <2>6 DEF TxidsUnique
    <3> QED BY <3>3, <2>2
  <2> QED BY <2>1, <2>2, <2>4, <2>5, <2>6, <2>7, TxidPut
<1>8. ASSUME NEW b \in Bodies, LegacyCommit(b)
      PROVE  TxidsCovered' /\ TxidsUnique'
  <2>1. PutBody(b) /\ Tip + 1 < ForkHeight /\ UNCHANGED <<blind, loop, schema>> /\ ~schema /\ loop.op = "none"
    BY <1>8, <1>c DEF LegacyCommit
  <2> QED BY <2>1, <1>1 DEF TxidsCovered, ForkCovers
<1>9. CASE Idle
  <2>1. ASSUME ForkCovers', "fork" \notin blind'
        PROVE  TxidsUpTo(Covered)'
    <3>1. TxidsUpTo(k) /\ Covered' = k /\ UNCHANGED <<blocks, txid>>
      BY <1>9, <2>1, <1>k DEF Idle, TxidsCovered
    <3>2. TxidsUpTo(k)'
      BY <3>1, SameIndexes
    <3> QED BY <3>1, <3>2 DEF TxidsUpTo
  <2> QED BY <1>9, <2>1, <1>u DEF Idle, TxidsCovered
<1> QED BY <1>2, <1>3, <1>4, <1>5, <1>6, <1>7, <1>8, <1>9, IdleSteps

(* One step keeps the key registry exact up to the height it covers. *)
LEMMA KeysStep ==
    TypeOK /\ Control /\ Legacy /\ KeysCovered /\ [Next]_vars => KeysCovered'
<1> SUFFICES ASSUME TypeOK, Control, Legacy, KeysCovered, [Next]_vars
             PROVE  KeysCovered'
  OBVIOUS
<1>t. Tip \in Nat /\ loop \in LoopType /\ ForkHeight \in Nat /\ ForkHeight >= 2 /\ Tip <= MaxHeight /\ MaxHeight \in Nat
  BY TipType, ConstantsAssumption DEF TypeOK
<1>c. run \in {"off", "opening"} => loop.op = "none"
  BY <1>t DEF Control, LoopType
<1>k. PICK k \in Nat : k = Covered
  BY <1>t DEF Covered, LoopType
<1>n. PICK n \in Nat : n = Tip + 1
  BY <1>t
<1>1. ASSUME NEW b \in Bodies, commit_block(b), loop.op = "none", UNCHANGED <<loop, schema, gap>>
      PROVE  KeysCovered'
  <2>1. PutBody(b) /\ pkref' = PutKeys(b, n, ForkHeight, pkref)
    BY <1>1, <1>n DEF commit_block
  <2>2. /\ Tip' = n /\ blocks'[n] = b /\ Covered' = n /\ \A h \in 1..Tip : blocks'[h] = blocks[h]
    BY <1>1, <2>1, <1>n, Grown DEF Covered
  <2>3. ASSUME ForkCovers'
        PROVE  KeysUpTo(n)'
    <3>1. KeysUpTo(Tip)
      BY <1>1, <2>3 DEF KeysCovered, ForkCovers, Covered
    <3> QED BY <2>1, <2>2, <3>1, <1>n, <1>t, KeysPut
  <2> QED BY <2>2, <2>3 DEF KeysCovered, KeysUpTo
<1>2. ASSUME NEW b \in Body, Digest(b)
      PROVE  KeysCovered'
  BY <1>1, <1>2 DEF Digest, Bodies
<1>3. CASE seed_genesis
  BY <1>1, <1>3, <1>c DEF seed_genesis, Bodies
<1>4. CASE RollbackCommit
  <2>1. loop.op = "rollback" /\ loop'.op = "none" /\ UNCHANGED <<schema, gap>>
    BY <1>4 DEF RollbackCommit, NoLoop
  <2> SUFFICES ASSUME ForkCovers'
               PROVE  KeysUpTo(Tip)'
    BY <2>1 DEF KeysCovered, Covered, KeysUpTo
  <2>2. KeysUpTo(Tip)
    BY <2>1 DEF KeysCovered, ForkCovers, Covered
  <2> QED BY <1>4, <2>2, KeysRollback
<1>5. CASE open_ledger /\ ~schema
  <2>1. Tip = 0 /\ Covered' = 0 /\ pkref = [a \in Address |-> 0] /\ UNCHANGED <<blocks, pkref>>
    BY <1>5, <1>t, <1>c DEF open_ledger, Legacy, Covered, Tip, index
  <2>2. KeysUpTo(0)'
    BY <2>1, EmptyIndexes, SameIndexes
  <2> QED BY <2>1, <2>2 DEF KeysCovered, KeysUpTo
<1>6. ASSUME NEW fork \in {ForkHeight, NoFork}, ReindexDrop(fork)
      PROVE  KeysCovered'
  <2>1. Covered' = 0 /\ pkref' = [a \in Address |-> 0]
    BY <1>6 DEF ReindexDrop, Covered, NoLoop
  <2>2. KeysUpTo(0)'
    BY <2>1 DEF KeysUpTo
  <2> QED BY <2>1, <2>2 DEF KeysCovered, KeysUpTo
<1>7. CASE ReindexBatch
  <2>1. /\ loop.op = "reindex" /\ k = loop.at /\ loop'.op = "reindex" /\ loop'.at = k + 1
        /\ k + 1 <= Tip /\ loop'.fork = loop.fork /\ loop.fork \in {ForkHeight, NoFork}
        /\ UNCHANGED <<blocks, schema, gap>> /\ "fork" \in gap
        /\ pkref' = PutKeys(blocks[k + 1], k + 1, loop.fork, pkref)
    BY <1>7, <1>t, <1>k DEF ReindexBatch, Covered, LoopType, Control
  <2>2. PICK i \in Nat : i = k + 1
    OBVIOUS
  <2>3. Covered' = i
    BY <2>1, <2>2 DEF Covered
  <2> SUFFICES ASSUME ForkCovers'
               PROVE  KeysUpTo(i)'
    BY <2>3 DEF KeysCovered, KeysUpTo
  <2>4. ForkKnown /\ KeysUpTo(k)
    BY <2>1, <1>k DEF KeysCovered, ForkCovers, ForkKnown, Tip
  <2>5. pkref' = PutKeys(blocks[i], i, ForkHeight, pkref)
    BY <2>1, <2>2, <2>4, <1>t DEF ForkKnown, PutKeys, PostFork, NoFork
  <2>6. blocks[i] \in Bodies
    BY <2>1, <2>2, <1>t, BlockAt
  <2> QED BY <2>1, <2>2, <2>4, <2>5, <2>6, KeysPut
<1>8. ASSUME NEW b \in Bodies, LegacyCommit(b)
      PROVE  KeysCovered'
  BY <1>8, <1>c DEF LegacyCommit, KeysCovered, ForkCovers
<1>9. CASE Idle
  <2> SUFFICES ASSUME ForkCovers'
               PROVE  KeysUpTo(Covered)'
    BY DEF KeysCovered
  <2>1. KeysUpTo(k) /\ Covered' = k /\ UNCHANGED <<blocks, pkref>>
    BY <1>9, <1>k DEF Idle, KeysCovered
  <2>2. KeysUpTo(k)'
    BY <2>1, SameIndexes
  <2> QED BY <2>1, <2>2 DEF KeysUpTo
<1> QED BY <1>2, <1>3, <1>4, <1>5, <1>6, <1>7, <1>8, <1>9, IdleSteps

-----------------------------------------------------------------------------
(* Balances. *)

(* commit_block keeps the balances equal to a replay of the chain. *)
LEMMA TotalsCommit ==
    ASSUME TypeOK, Totals, NEW b \in Bodies, commit_block(b), alloc' = alloc
    PROVE  Totals'
<1>1. Tip \in Nat /\ PutBody(b) /\ Delta(b) \in Accounts
  BY TipType, BodyFacts DEF commit_block
<1>2. /\ Tip' = Tip + 1
      /\ replay'[Tip + 1] = [bal |-> Plus(ReplayBal(Tip), Delta(b)),
                             n   |-> ReplayRows(Tip) + Len(b.rows)]
  BY <1>1, Grown
<1>3. ReplayBal(Tip)' = Plus(ReplayBal(Tip), Delta(b))
  BY <1>1, <1>2 DEF ReplayBal
<1>4. ReplayRows(Tip)' = ReplayRows(Tip) + Len(b.rows)
  BY <1>1, <1>2 DEF ReplayRows
<1>5. ReplayBal(Tip) \in Accounts /\ Rewards(alloc) \in Accounts
  BY <1>1, ReplayType, RewardsType DEF TypeOK
<1>6. bal' = Plus(Plus(ReplayBal(Tip), Rewards(alloc)), Delta(b))
  BY DEF commit_block, Totals
<1>7. bal' = Plus(Plus(ReplayBal(Tip), Delta(b)), Rewards(alloc))
  BY <1>1, <1>5, <1>6, PlusMinus
<1>8. Rewards(alloc)' = Rewards(alloc)
  BY DEF Rewards
<1> QED BY <1>3, <1>4, <1>7, <1>8 DEF Totals, commit_block

(* The last step of a rollback subtracts exactly the removed blocks. *)
LEMMA TotalsRollback ==
    ASSUME TypeOK, Control, Totals, Balances, RollbackCommit
    PROVE  Totals'
<1>1. Tip \in Nat /\ loop.to \in 1..Tip /\ Tip' = loop.to /\ replay'[loop.to] = replay[loop.to]
  BY TipType, Truncated
<1>2. /\ loop.acc = Minus(ReplayBal(loop.to), ReplayBal(Tip))
      /\ loop.n = ReplayRows(Tip) - ReplayRows(loop.to)
  BY DEF Balances, RollbackCommit
<1>3. ReplayBal(Tip)' = ReplayBal(loop.to) /\ ReplayRows(Tip)' = ReplayRows(loop.to)
  BY <1>1 DEF ReplayBal, ReplayRows
<1>4. /\ ReplayBal(Tip) \in Accounts /\ ReplayRows(Tip) \in Nat
      /\ ReplayBal(loop.to) \in Accounts /\ ReplayRows(loop.to) \in Nat
      /\ Rewards(alloc) \in Accounts
  BY <1>1, ReplayType, RewardsType DEF TypeOK
<1>5. bal' = Plus(Plus(ReplayBal(Tip), Rewards(alloc)), Minus(ReplayBal(loop.to), ReplayBal(Tip)))
  BY <1>2 DEF RollbackCommit, Totals
<1>6. bal' = Plus(ReplayBal(loop.to), Rewards(alloc))
  BY <1>4, <1>5, PlusMinus
<1>7. txcount' = ReplayRows(loop.to)
  BY <1>2, <1>4 DEF RollbackCommit, Totals
<1>8. Rewards(alloc)' = Rewards(alloc)
  BY DEF RollbackCommit, Rewards
<1> QED BY <1>3, <1>6, <1>7, <1>8 DEF Totals

(* One step keeps the balance invariant. *)
LEMMA BalancesStep ==
    TypeOK /\ Control /\ Legacy /\ ReplayIsFold /\ Balances /\ [Next]_vars => Balances'
<1> SUFFICES ASSUME TypeOK, Control, Legacy, ReplayIsFold, Balances, [Next]_vars
             PROVE  Balances'
  OBVIOUS
<1>t. Tip \in Nat /\ loop \in LoopType /\ NoLoop.op = "none" /\ NoLoop.acc = Zero /\ NoLoop.n = 0
  BY TipType DEF TypeOK, NoLoop
<1>c. run \in {"off", "opening"} => loop.op = "none"
  BY <1>t DEF Control, LoopType
<1>r. \A h \in 0..Tip : ReplayBal(h) \in Accounts /\ ReplayRows(h) \in Nat
  BY ReplayType
<1>s. ASSUME UNCHANGED <<blocks, replay>>
      PROVE  /\ \A h \in 0..Tip : ReplayBal(h)' = ReplayBal(h) /\ ReplayRows(h)' = ReplayRows(h)
             /\ ReplayBal(Tip)' = ReplayBal(Tip) /\ ReplayRows(Tip)' = ReplayRows(Tip)
  BY <1>s DEF ReplayBal, ReplayRows, Tip
<1>q. ASSUME UNCHANGED <<blocks, replay, bal, txcount, alloc>>
      PROVE  Totals' <=> Totals
  BY <1>q, <1>s DEF Totals, Rewards
<1>1. ASSUME NEW b \in Body, Digest(b)
      PROVE  Balances'
  <2>1. loop' = loop /\ loop.op = "none" /\ UNCHANGED <<schema, gap, alloc>>
    BY <1>1 DEF Digest
  <2>2. Totals => Totals'
    BY <1>1, TotalsCommit DEF Digest, Bodies
  <2> QED BY <2>1, <2>2 DEF Balances
<1>2. ASSUME NEW to \in 1..(MaxHeight - 1), NEW fork \in {ForkHeight, NoFork}, RollbackBegin(to, fork)
      PROVE  Balances'
  <2>1. UNCHANGED <<blocks, replay, bal, txcount, alloc, schema, gap>> /\ loop.op = "none"
    BY <1>2 DEF RollbackBegin
  <2>2. (Totals' <=> Totals) /\ ReplayBal(Tip)' = ReplayBal(Tip) /\ ReplayRows(Tip)' = ReplayRows(Tip)
    BY <2>1, <1>q, <1>s
  <2>3. loop'.op = "rollback" /\ loop'.at = Tip /\ loop'.acc = Zero /\ loop'.n = 0 /\ Tip' = Tip
    BY <1>2 DEF RollbackBegin, NoLoop, Tip
  <2>4. ReplayBal(loop.at)' = ReplayBal(Tip) /\ ReplayRows(loop.at)' = ReplayRows(Tip)
    BY <2>1, <2>3 DEF ReplayBal, ReplayRows
  <2>5. ReplayBal(Tip) \in Accounts /\ ReplayRows(Tip) \in Nat
    BY <1>r, <1>t
  <2>6. Minus(ReplayBal(Tip), ReplayBal(Tip)) = Zero
    BY <2>5, PlusMinus
  <2> QED BY <2>1, <2>2, <2>3, <2>4, <2>5, <2>6 DEF Balances
<1>3. CASE RollbackBlock
  <2>1. UNCHANGED <<blocks, replay, bal, txcount, alloc, schema, gap>> /\ loop.op = "rollback"
    BY <1>3 DEF RollbackBlock
  <2>2. (Totals' <=> Totals) /\ ReplayBal(Tip)' = ReplayBal(Tip) /\ ReplayRows(Tip)' = ReplayRows(Tip)
    BY <2>1, <1>q, <1>s
  <2>3. PICK h \in 1..Tip : h = loop.at
    BY <1>3, <1>t DEF RollbackBlock, Control, LoopType
  <2>4. /\ loop'.op = "rollback" /\ loop'.at = h - 1
        /\ loop'.acc = Minus(loop.acc, Delta(blocks[h]))
        /\ loop'.n = loop.n + Len(blocks[h].rows)
    BY <1>3, <1>t, <2>3 DEF RollbackBlock, LoopType
  <2>5. /\ loop.acc = Minus(ReplayBal(h), ReplayBal(Tip))
        /\ loop.n = ReplayRows(Tip) - ReplayRows(h)
    BY <1>3, <2>3 DEF RollbackBlock, Balances
  <2>6. /\ ReplayBal(h) = Plus(ReplayBal(h - 1), Delta(blocks[h]))
        /\ ReplayRows(h) = ReplayRows(h - 1) + Len(blocks[h].rows)
    BY <1>t DEF ReplayIsFold, ReplayBal, ReplayRows
  <2>7. /\ Delta(blocks[h]) \in Accounts /\ Len(blocks[h].rows) \in Nat
        /\ h - 1 \in 0..Tip /\ ReplayBal(h - 1) \in Accounts /\ ReplayRows(h - 1) \in Nat
        /\ ReplayBal(Tip) \in Accounts /\ ReplayRows(Tip) \in Nat
    BY BlockAt, BodyFacts, <1>r, <1>t
  <2>8. loop'.acc = Minus(ReplayBal(h - 1), ReplayBal(Tip))
    BY <2>4, <2>5, <2>6, <2>7, PlusMinus
  <2>9. loop'.n = ReplayRows(Tip) - ReplayRows(h - 1)
    BY <2>4, <2>5, <2>6, <2>7
  <2>10. ReplayBal(loop.at)' = ReplayBal(h - 1) /\ ReplayRows(loop.at)' = ReplayRows(h - 1)
    BY <2>1, <2>4 DEF ReplayBal, ReplayRows
  <2> QED BY <2>1, <2>2, <2>4, <2>8, <2>9, <2>10 DEF Balances
<1>4. CASE RollbackCommit
  <2>1. Totals => Totals'
    BY <1>4, TotalsRollback
  <2>2. loop'.op = "none" /\ loop.op = "rollback" /\ UNCHANGED <<schema, gap>>
    BY <1>4, <1>t DEF RollbackCommit
  <2> QED BY <2>1, <2>2 DEF Balances
<1>5. CASE open_ledger
  <2>1. loop.op = "none" /\ loop' = loop /\ UNCHANGED <<blocks, replay, bal, txcount, alloc, gap>>
    BY <1>5, <1>c DEF open_ledger
  <2>2. "rows" \notin gap => Totals
    <3>1. CASE schema
      BY <3>1 DEF Balances
    <3>2. CASE ~schema
      <4>1. Tip = 0 /\ bal = Zero /\ txcount = 0 /\ alloc = [a \in Address |-> 0]
        BY <3>2, <1>5, <1>t DEF open_ledger, Legacy
      <4>2. Rewards(alloc) = Zero
        BY <4>1 DEF Rewards, Zero
      <4>3. Plus(Zero, Zero) = Zero
        BY DEF Plus, Zero
      <4> QED BY <4>1, <4>2, <4>3 DEF Totals, ReplayBal, ReplayRows
    <3> QED BY <3>1, <3>2
  <2>3. Totals' <=> Totals
    BY <2>1, <1>q
  <2> QED BY <2>1, <2>2, <2>3 DEF Balances
<1>6. CASE seed_genesis
  <2>1. Totals => Totals'
    BY <1>6, TotalsCommit DEF seed_genesis, Bodies
  <2>2. loop' = loop /\ loop.op = "none" /\ UNCHANGED <<schema, gap>>
    BY <1>6, <1>c DEF seed_genesis
  <2> QED BY <2>1, <2>2 DEF Balances
<1>7. CASE set_allocations
  <2>1. loop' = loop /\ loop.op = "none" /\ UNCHANGED <<blocks, replay, txcount, schema, gap>>
    BY <1>7, <1>c DEF set_allocations
  <2>2. ASSUME Totals
        PROVE  Totals'
    <3>1. /\ ReplayBal(Tip) \in Accounts /\ Rewards(alloc) \in Accounts
          /\ Rewards(Allocation) \in Accounts
      BY <1>r, <1>t, RewardsType, ConstantsAssumption DEF TypeOK
    <3>2. bal' = Plus(Plus(ReplayBal(Tip), Rewards(alloc)),
                      Minus(Rewards(Allocation), Rewards(alloc)))
      BY <1>7, <2>2 DEF set_allocations, AllocationDifference, Totals
    <3>3. bal' = Plus(ReplayBal(Tip), Rewards(Allocation))
      BY <3>1, <3>2, PlusMinus
    <3>4. Rewards(alloc)' = Rewards(Allocation)
      BY <1>7 DEF set_allocations, Rewards
    <3> QED BY <2>1, <2>2, <3>3, <3>4, <1>s DEF Totals
  <2> QED BY <2>1, <2>2 DEF Balances
<1>8. CASE rebuild_difficulty
  <2>1. /\ loop.op = "none" /\ loop' = loop /\ UNCHANGED <<blocks, replay, bal, txcount, alloc, schema>>
        /\ "rows" \notin gap' => "rows" \notin gap
    BY <1>8, <1>c DEF rebuild_difficulty
  <2>2. Totals' <=> Totals
    BY <2>1, <1>q
  <2> QED BY <2>1, <2>2 DEF Balances
<1>16. CASE SkipDifficulty
  <2>1. /\ loop.op = "none" /\ loop' = loop /\ UNCHANGED <<blocks, replay, bal, txcount, alloc, schema>>
        /\ "rows" \notin gap' => "rows" \notin gap
    BY <1>16, <1>c DEF SkipDifficulty
  <2>2. Totals' <=> Totals
    BY <2>1, <1>q
  <2> QED BY <2>1, <2>2 DEF Balances
<1>9. ASSUME NEW fork \in {ForkHeight, NoFork}, ReindexDrop(fork)
      PROVE  Balances'
  <2>1. /\ bal' = Zero /\ loop'.op = "reindex" /\ loop'.at = 0 /\ loop'.acc = Zero /\ loop'.n = 0
        /\ "rows" \in gap'
    BY <1>9 DEF ReindexDrop, NoLoop
  <2>2. ReplayBal(loop.at)' = Zero /\ ReplayRows(loop.at)' = 0
    BY <2>1 DEF ReplayBal, ReplayRows, Zero
  <2> QED BY <2>1, <2>2 DEF Balances, Zero
<1>10. CASE ReindexBatch
  <2>1. PICK h \in 1..Tip : h = loop.at + 1
    BY <1>10, <1>t DEF ReindexBatch, LoopType
  <2>2. /\ loop.op = "reindex" /\ loop'.op = "reindex" /\ loop'.at = h /\ h - 1 = loop.at
        /\ loop'.acc = Plus(loop.acc, Delta(blocks[h]))
        /\ loop'.n = loop.n + Len(blocks[h].rows)
        /\ bal' = bal /\ "rows" \in gap' /\ replay' = replay
    BY <1>10, <2>1, <1>t DEF ReindexBatch, LoopType, Control
  <2>3. bal = Zero /\ loop.acc = ReplayBal(h - 1) /\ loop.n = ReplayRows(h - 1)
    BY <2>2 DEF Balances
  <2>4. /\ ReplayBal(h) = Plus(ReplayBal(h - 1), Delta(blocks[h]))
        /\ ReplayRows(h) = ReplayRows(h - 1) + Len(blocks[h].rows)
    BY <1>t DEF ReplayIsFold, ReplayBal, ReplayRows
  <2>5. ReplayBal(loop.at)' = ReplayBal(h) /\ ReplayRows(loop.at)' = ReplayRows(h)
    BY <2>2 DEF ReplayBal, ReplayRows
  <2> QED BY <2>2, <2>3, <2>4, <2>5 DEF Balances, Zero
<1>11. CASE ReindexTotals
  <2>1. /\ loop.op = "reindex" /\ loop.at = Tip /\ loop'.op = "schema"
        /\ UNCHANGED <<blocks, replay, alloc>>
    BY <1>11 DEF ReindexTotals, Scanned, NoLoop
  <2>2. bal = Zero /\ loop.acc = ReplayBal(Tip) /\ loop.n = ReplayRows(Tip)
    BY <2>1 DEF Balances
  <2>3. ReplayBal(Tip) \in Accounts /\ Rewards(alloc) \in Accounts
    BY <1>r, <1>t, RewardsType DEF TypeOK
  <2>4. Plus(ReplayBal(Tip), Rewards(alloc)) \in Accounts
    BY <2>3, AccountsClosed
  <2>5. bal' = Plus(ReplayBal(Tip), Rewards(alloc)) /\ txcount' = ReplayRows(Tip)
    BY <1>11, <2>2, <2>4, PlusMinus DEF ReindexTotals
  <2>6. Totals'
    BY <2>1, <2>5, <1>s DEF Totals, Rewards
  <2> QED BY <2>1, <2>6 DEF Balances
<1>12. CASE set_schema
  <2>1. Totals /\ UNCHANGED <<blocks, replay, bal, txcount, alloc>> /\ loop'.op = "none"
    BY <1>12, <1>t DEF set_schema, Balances
  <2>2. Totals'
    BY <2>1, <1>q
  <2> QED BY <2>1, <2>2 DEF Balances
<1>13. CASE Crash
  <2>1. UNCHANGED <<blocks, replay, bal, txcount, alloc, schema, gap>> /\ loop'.op = "none"
    BY <1>13, <1>t DEF Crash
  <2>2. Totals' <=> Totals
    BY <2>1, <1>q
  <2> QED BY <2>1, <2>2 DEF Balances
<1>14. ASSUME NEW b \in Bodies, LegacyCommit(b)
       PROVE  Balances'
  <2>1. loop'.op = "none" /\ ~schema'
    BY <1>14, <1>c DEF LegacyCommit
  <2> QED BY <2>1 DEF Balances
<1>15. CASE UNCHANGED vars
  <2>1. UNCHANGED <<blocks, replay, bal, txcount, alloc, schema, loop, gap>>
    BY <1>15 DEF vars
  <2> QED BY <2>1 DEF Balances, Totals, ReplayBal, ReplayRows, Tip, Rewards, Plus, Minus, Zero
<1> QED
  BY <1>1, <1>2, <1>3, <1>4, <1>5, <1>6, <1>7, <1>8, <1>9, <1>10, <1>11, <1>12, <1>13, <1>14, <1>15, <1>16
  DEF Next

-----------------------------------------------------------------------------
(* Replay protection. *)

(* A block whose checked signatures are new, and distinct among themselves, *)
(* extends a chain without replays.                                         *)
LEMMA NewSignatures ==
    ASSUME TypeOK, NoReplay, NEW b \in Bodies, PutBody(b), NEW n \in Nat, n = Tip + 1,
           "rows" \notin blind' => "rows" \notin blind,
           \A i, j \in Checked(b, n) : b.rows[i].sig = b.rows[j].sig => i = j,
           \A i \in Checked(b, n), h \in 1..Tip : \A j \in Checked(blocks[h], h) :
               blocks[h].rows[j].sig # b.rows[i].sig
    PROVE  NoReplay'
<1>1. /\ Tip \in Nat /\ Tip' = n /\ blocks'[n] = b
      /\ \A h \in 1..Tip : blocks'[h] = blocks[h]
  BY TipType, Grown
<1>2. \A h \in 1..n : h = n \/ h \in 1..Tip
  BY <1>1
<1> SUFFICES ASSUME "rows" \notin blind', NEW h \in 1..n, NEW k \in 1..n,
                    NEW i \in Checked(blocks'[h], h), NEW j \in Checked(blocks'[k], k),
                    blocks'[h].rows[i].sig = blocks'[k].rows[j].sig
             PROVE  h = k /\ i = j
  BY <1>1 DEF NoReplay, Checked
<1>3. CASE h = n /\ k = n
  BY <1>1, <1>3
<1>4. CASE h = n /\ k \in 1..Tip
  BY <1>1, <1>4
<1>5. CASE h \in 1..Tip /\ k = n
  BY <1>1, <1>5
<1>6. CASE h \in 1..Tip /\ k \in 1..Tip
  BY <1>1, <1>6 DEF NoReplay
<1> QED BY <1>2, <1>3, <1>4, <1>5, <1>6

(* The checked rows of a block are rows of it. *)
LEMMA CheckedRows ==
    ASSUME NEW b \in Bodies, NEW h \in Nat
    PROVE  Checked(b, h) \subseteq DOMAIN b.rows
BY BodyFacts DEF Checked

(* One step confirms no signature for a second time. *)
LEMMA NoReplayStep ==
    TypeOK /\ Control /\ Chain /\ HashesExact /\ Positioned /\ NoReplay /\ [Next]_vars => NoReplay'
<1> SUFFICES ASSUME TypeOK, Control, Chain, HashesExact, Positioned, NoReplay, [Next]_vars
             PROVE  NoReplay'
  OBVIOUS
<1>0. ASSUME blocks' = blocks, blind' = blind
      PROVE  NoReplay'
  <2>1. Tip' = Tip
    BY <1>0 DEF Tip
  <2> QED BY <2>1, <1>0 DEF NoReplay
<1>t. Tip \in Nat
  BY TipType
<1>n. PICK n \in Nat : n = Tip + 1
  BY <1>t
<1>1. ASSUME NEW b \in Body, Digest(b)
      PROVE  NoReplay'
  <2>0. b \in Bodies /\ PutBody(b) /\ check_duplicate_signatures(b, n) /\ blind' = blind \cup gap
    BY <1>1, <1>n DEF Digest, Bodies, commit_block
  <2> SUFFICES ASSUME "rows" \notin blind'
               PROVE  NoReplay'
    BY DEF NoReplay
  <2>1. "rows" \notin blind /\ "rows" \notin gap
    BY <2>0
  <2>2. pos = PosUpTo(Tip)
    BY <1>1, <2>1 DEF Digest, Control, Positioned, RowsCover, Covered
  <2>3. Checked(b, n) \subseteq DOMAIN b.rows
    BY <2>0, CheckedRows
  <2>4. \A i, j \in Checked(b, n) : b.rows[i].sig = b.rows[j].sig => i = j
    BY <2>0, <2>3 DEF check_duplicate_signatures, Distinct
  <2>5. ASSUME NEW i \in Checked(b, n), NEW h \in 1..Tip, NEW j \in Checked(blocks[h], h),
               blocks[h].rows[j].sig = b.rows[i].sig
        PROVE  FALSE
    <3>1. /\ b.rows[i].sig # NoSig
          /\ ~ \E e \in pos : e[1] = "sig" /\ e[2] = b.rows[i].sig /\ e[3] < n
      BY <2>0 DEF check_duplicate_signatures
    <3>2. j \in DOMAIN blocks[h].rows
      BY <2>5, BlockAt, CheckedRows
    <3>3. <<"sig", blocks[h].rows[j].sig, h, j>> \in PosEntries(blocks[h], h)
      BY <3>1, <3>2, <2>5 DEF PosEntries
    <3>4. <<"sig", blocks[h].rows[j].sig, h, j>> \in pos
      BY <3>3, <2>2 DEF PosUpTo
    <3> QED BY <3>1, <3>4, <2>5, <1>n, <1>t
  <2> QED BY <2>0, <2>1, <2>4, <2>5, <1>n, NewSignatures
<1>2. ASSUME PutBody(GenesisBody), Tip = 0, blind' = blind
      PROVE  NoReplay'
  <2>1. GenesisBody \in Bodies /\ Checked(GenesisBody, n) \subseteq DOMAIN GenesisBody.rows
    BY CheckedRows DEF Bodies
  <2>2. DOMAIN GenesisBody.rows = 1..1
    BY <2>1, BodyFacts, CoinbaseAssumption
  <2>3. \A i, j \in Checked(GenesisBody, n) : i = j
    BY <2>1, <2>2
  <2>4. 1..Tip = {}
    BY <1>2
  <2> QED BY <1>2, <2>1, <2>3, <2>4, <1>n, NewSignatures
<1>3. ASSUME NEW b \in Bodies, LegacyCommit(b)
      PROVE  NoReplay'
  <2>1. CASE Tip = 0
    BY <1>2, <1>3, <2>1 DEF LegacyCommit
  <2>2. CASE Tip > 0
    <3>1. PutBody(b) /\ Checked(b, n) \subseteq DOMAIN b.rows
      BY <1>3, CheckedRows DEF LegacyCommit
    <3>2. \A i, j \in Checked(b, n) : b.rows[i].sig = b.rows[j].sig => i = j
      BY <1>3, <2>2, <3>1 DEF LegacyCommit, Distinct
    <3>3. ASSUME NEW i \in Checked(b, n), NEW h \in 1..Tip, NEW j \in Checked(blocks[h], h)
          PROVE  blocks[h].rows[j].sig # b.rows[i].sig
      <4>1. i \in DOMAIN b.rows /\ j \in DOMAIN blocks[h].rows
        BY <3>1, BlockAt, CheckedRows
      <4> QED BY <4>1, <1>3 DEF LegacyCommit
    <3>4. blind' = blind
      BY <1>3 DEF LegacyCommit
    <3> QED BY <3>1, <3>2, <3>3, <3>4, <1>n, NewSignatures
  <2> QED BY <2>1, <2>2, <1>t
<1>4. CASE seed_genesis
  BY <1>2, <1>4 DEF seed_genesis, commit_block
<1>5. CASE RollbackCommit
  <2>1. Tip' = loop.to /\ loop.to \in 1..Tip /\ \A h \in 1..loop.to : blocks'[h] = blocks[h]
    BY <1>5, Truncated
  <2>2. blind' = blind
    BY <1>5 DEF RollbackCommit
  <2> QED BY <2>1, <2>2, <1>t DEF NoReplay, Checked
<1>6. ASSUME NEW to \in 1..(MaxHeight - 1), NEW fork \in {ForkHeight, NoFork}, RollbackBegin(to, fork)
      PROVE  NoReplay'
  BY <1>6, <1>0 DEF RollbackBegin
<1>7. CASE \/ RollbackBlock \/ open_ledger \/ set_allocations \/ rebuild_difficulty \/ SkipDifficulty
           \/ (\E fork \in {ForkHeight, NoFork} : ReindexDrop(fork))
           \/ ReindexBatch \/ ReindexTotals \/ set_schema \/ Crash \/ UNCHANGED vars
  <2>1. blocks' = blocks /\ blind' = blind
    BY <1>7
    DEF RollbackBlock, open_ledger, set_allocations, rebuild_difficulty, SkipDifficulty, ReindexDrop, ReindexBatch,
        ReindexTotals, set_schema, Crash, vars
  <2> QED BY <2>1, <1>0
<1> QED BY <1>1, <1>3, <1>4, <1>5, <1>6, <1>7 DEF Next

-----------------------------------------------------------------------------
(* The inductive invariant and what it implies. *)

(* The invariant holds of an empty ledger. *)
LEMMA InitIInv == Init => IInv
<1> SUFFICES ASSUME Init
             PROVE  IInv
  OBVIOUS
<1>1. TypeOK /\ Tip = 0 /\ ForkHeight \in Nat /\ ForkHeight > 0
  BY InitType, ConstantsAssumption DEF Init, Tip
<1>2. run = "off" /\ loop.op = "none" /\ 1..Tip = {} /\ 2..Tip = {}
  BY <1>1 DEF Init, NoLoop
<1>3. Control /\ Chain /\ HashesExact /\ ReplayIsFold /\ NoReplay
  BY <1>1, <1>2 DEF Init, Control, Chain, HashesExact, ReplayIsFold, NoReplay
<1>4. Legacy
  BY <1>1, <1>2 DEF Init, Legacy
<1>5. Positioned /\ TxidsCovered /\ KeysCovered /\ TxidsUnique
  BY <1>1, <1>2, EmptyIndexes DEF Init, Positioned, TxidsCovered, KeysCovered, TxidsUnique, Covered
<1>6. Balances
  <2>1. Rewards(alloc) = Zero
    BY DEF Init, Rewards, Zero
  <2>2. Plus(Zero, Zero) = Zero
    BY DEF Plus, Zero
  <2> QED BY <1>1, <1>2, <2>1, <2>2 DEF Init, Balances, Totals, ReplayBal, ReplayRows
<1>7. Difficulties
  BY DEF Init, Difficulties
<1> QED BY <1>1, <1>3, <1>4, <1>5, <1>6, <1>7 DEF IInv

(* Every step of the store and of the upgrade scripts keeps the invariant. *)
LEMMA NextIInv == IInv /\ [Next]_vars => IInv'
<1> SUFFICES ASSUME IInv, [Next]_vars
             PROVE  IInv'
  OBVIOUS
<1>1. /\ TypeOK /\ Control /\ Chain /\ HashesExact /\ Legacy
      /\ Positioned /\ TxidsCovered /\ KeysCovered /\ TxidsUnique
      /\ ReplayIsFold /\ Balances /\ Difficulties /\ NoReplay
  BY DEF IInv
<1>2. TypeOK' /\ Control' /\ Chain' /\ HashesExact' /\ Legacy'
  BY <1>1, TypeStep, ControlStep, ChainStep, HashesStep, LegacyStep
<1>3. Positioned' /\ TxidsCovered' /\ KeysCovered' /\ TxidsUnique'
  BY <1>1, PositionedStep, TxidsStep, KeysStep
<1>4. ReplayIsFold' /\ Balances' /\ Difficulties' /\ NoReplay'
  BY <1>1, ReplayStep, BalancesStep, DifficultiesStep, NoReplayStep
<1> QED BY <1>2, <1>3, <1>4 DEF IInv

(* The invariant implies the properties that the TLC run checks. *)
LEMMA IInvImplies == IInv => IndexesExact /\ BalancesAreReplay /\ NoReplay /\ DifficultyAtTip
<1> SUFFICES ASSUME IInv
             PROVE  IndexesExact /\ BalancesAreReplay /\ NoReplay /\ DifficultyAtTip
  OBVIOUS
<1>1. TypeOK /\ Tip \in Nat /\ loop \in LoopType
  BY TipType DEF IInv, TypeOK
<1>2. ASSUME Acceptable
      PROVE  schema /\ run # "tool" /\ Covered = Tip
  BY <1>2 DEF IInv, Control, Acceptable, Covered
<1>3. IndexesExact
  <2> SUFFICES ASSUME Acceptable
               PROVE  /\ HashesExact
                      /\ "rows" \notin gap => pos = PosUpTo(Tip)
                      /\ "fork" \notin gap \cup blind => TxidsUpTo(Tip)
                      /\ "fork" \notin gap => KeysUpTo(Tip)
    BY DEF IndexesExact
  <2> QED BY <1>2 DEF IInv, Positioned, TxidsCovered, KeysCovered, RowsCover, ForkCovers
<1>4. BalancesAreReplay
  BY <1>2 DEF IInv, BalancesAreReplay, Balances, Totals
<1>5. DifficultyAtTip
  <2> SUFFICES ASSUME Acceptable, "diff" \notin gap, NEW h \in diff
               PROVE  Tip \in diff /\ \A k \in diff : k <= Tip
    BY DEF DifficultyAtTip
  <2>1. diff \subseteq 1..Tip /\ \A k \in h..Tip : k \in diff
    BY <1>2 DEF IInv, Difficulties, MayLack
  <2> QED BY <2>1, <1>1
<1> QED BY <1>3, <1>4, <1>5 DEF IInv

(* The invariant holds in every behaviour, also when the upgrade tool is   *)
(* run, stopped half way and run again on a ledger that nodes accept.      *)
THEOREM Invariance == Spec => []IInv
<1>1. IInv /\ [Next]_vars => IInv'
  BY NextIInv
<1> QED BY <1>1, InitIInv, PTL DEF Spec

(* For every set of blocks, fork height and chain length: whenever a node  *)
(* would accept the store, its hash, position, txid and public key indexes *)
(* are exactly those of the committed blocks, after any mix of commits,    *)
(* rollbacks (with or without a known fork height), upgrades and crashes,  *)
(* except for the group of records an unfinished reindex, or one without   *)
(* the fork height, has left incomplete; a finished one restores it.       *)
THEOREM IndexesAlwaysExact == Spec => []IndexesExact
BY Invariance, IInvImplies, PTL

(* Balances and the transaction count always equal a replay of the chain   *)
(* plus the allocations, credited once however often startup is repeated,  *)
(* unless a reindex was begun and has not been finished since.             *)
THEOREM BalancesAlwaysReplay == Spec => []BalancesAreReplay
BY Invariance, IInvImplies, PTL

(* No chain confirms a checked signature twice, unless a node digested     *)
(* blocks on the signature index of an unfinished reindex.                 *)
THEOREM NoReplayEver == Spec => []NoReplay
BY Invariance, IInvImplies, PTL

(* The recorded difficulty a restart reads is the tip's, unless an upgrade *)
(* skipped the difficulties.                                               *)
THEOREM DifficultyAlwaysAtTip == Spec => []DifficultyAtTip
BY Invariance, IInvImplies, PTL
=============================================================================
