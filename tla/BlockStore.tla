----------------------------- MODULE BlockStore -----------------------------
(***************************************************************************)
(* The Bismuth ledger (block_store.py): one LMDB environment that holds    *)
(* the chain and every index derived from it.  A block is committed in one *)
(* write transaction, a rollback is one write transaction that loops over  *)
(* the removed blocks, and the offline upgrade tool rebuilds all indexes   *)
(* in SEVERAL transactions, so only there can a crash be seen from inside. *)
(* The tool asks for no particular schema: a node accepts a current ledger *)
(* whose reindex was cut short.  `gap` and `blind` remember that, for the  *)
(* properties alone: no action reads them.                                 *)
(*                                                                         *)
(* Heights are positions of `blocks`; 0 stands for "no entry" in the       *)
(* indexes that map a key to a height.  Amounts are integer units.         *)
(***************************************************************************)
EXTENDS Integers, Sequences, FiniteSets, FiniteSetsExt

CONSTANTS
    Address,        \* account names
    Sig,            \* transaction signatures
    NoSig,          \* the empty signature slot, which _indexable_sig skips
    Txid,           \* content transaction ids
    Hash,           \* block hashes
    Body,           \* the blocks peers may deliver, as records (see BodyType)
    GenesisBody,    \* the block seed_genesis writes
    ForkHeight,     \* hf2 activation height
    Allocation,     \* ledger_genesis.allocations: units credited by no row
    Anchor,         \* lowest height of the published difficulty series
    MaxHeight       \* bound on the height of the chain

Part == {"credit", "reward", "debit", "fee"}

RowType == [from : Address, to : Address, amount : Nat, fee : Nat, reward : Nat,
            sig : Sig \cup {NoSig}, txid : Txid, pub : BOOLEAN]
BodyType == [hash : Hash, ts : Nat, rows : Seq(RowType)]

Bodies == Body \cup {GenesisBody}

IsCoinbase(r) == r.reward # 0

(* What one row adds to a part of an account: _fold. *)
RowPart(r, a, p) ==
    CASE p = "credit" -> IF r.to = a THEN r.amount ELSE 0
      [] p = "reward" -> IF r.to = a THEN r.reward ELSE 0
      [] p = "debit"  -> IF r.from = a THEN r.amount ELSE 0
      [] p = "fee"    -> IF r.from = a THEN r.fee ELSE 0

(* The balance delta of a whole block, the accumulator `acc` of one block. *)
Delta(b) ==
    [a \in Address |-> [p \in Part |->
        MapThenSumSet(LAMBDA i : RowPart(b.rows[i], a, p), DOMAIN b.rows)]]

Accounts == [Address -> [Part -> Int]]

ASSUME ConstantsAssumption ==
    /\ NoSig \notin Sig
    /\ ForkHeight \in Nat \ {0, 1}          \* the genesis block is never post-fork
    /\ MaxHeight \in Nat /\ Anchor \in Nat \ {0}
    /\ Allocation \in [Address -> Nat]

ASSUME BodyAssumption ==
    \A b \in Bodies : b \in BodyType /\ Delta(b) \in Accounts

(* A coinbase is unique to its chain: its txid covers its timestamp, and a *)
(* block's timestamp is its coinbase's (digest.py checks that it grows).   *)
(* A miner's row is the last of its block; genesis has one row.            *)
ASSUME CoinbaseAssumption ==
    /\ Len(GenesisBody.rows) = 1
    /\ \A b \in Body :
          /\ Len(b.rows) > 0
          /\ \A c \in Body : \A i \in DOMAIN c.rows :
                c.rows[i].txid = b.rows[Len(b.rows)].txid => i = Len(c.rows) /\ c.ts = b.ts

VARIABLES
    run,      \* what has the store open: nothing, the node's startup, the node, the tool
    schema,   \* meta b"schema": is it the SCHEMA this node needs
    blocks,   \* the bodies by height
    hashes,   \* block hash -> height
    diff,     \* heights with a recorded difficulty
    pos,      \* the sig and addr sub-databases: <<kind, key, height, idx>>
    bal,      \* address -> the four balance parts
    txid,     \* content txid -> height
    pkref,    \* address -> first-seen height of its public key
    txcount,  \* meta b"txcount"
    alloc,    \* meta b"alloc"
    loop,     \* progress of an open rollback transaction or of a reindex
    replay,   \* history: <<balances, rows>> after each height, without alloc
    gap,      \* history: the groups of derived records the tool has left incomplete
    blind     \* history: the groups that were incomplete when a block was digested

(* The derived records by what rebuilds them: "rows" (sig, addr, bal and   *)
(* txcount), "fork" (txid and pkref, from the fork height on), "diff".     *)
Derived == {"rows", "fork", "diff"}

index == <<hashes, pos, txid, pkref>>
vars == <<run, schema, blocks, index, diff, bal, txcount, alloc, loop, replay, gap, blind>>

Tip == Len(blocks)
PostFork(h, fork) == h >= fork
NoFork == MaxHeight + 1          \* fork_height None: no height is post-fork

Zero == [a \in Address |-> [p \in Part |-> 0]]
Plus(x, y) == [a \in Address |-> [p \in Part |-> x[a][p] + y[a][p]]]
Minus(x, y) == [a \in Address |-> [p \in Part |-> x[a][p] - y[a][p]]]
Rewards(al) == [a \in Address |-> [p \in Part |-> IF p = "reward" THEN al[a] ELSE 0]]

(***************************************************************************)
(* Index entries of one block: _index_rows.                                *)
(***************************************************************************)
PosEntries(b, h) ==
    {<<"sig", b.rows[i].sig, h, i>> : i \in {j \in DOMAIN b.rows : b.rows[j].sig # NoSig}}
    \cup {<<"from", b.rows[i].from, h, i>> : i \in DOMAIN b.rows}
    \cup {<<"to", b.rows[i].to, h, i>> : i \in DOMAIN b.rows}

Txids(b) == {b.rows[i].txid : i \in DOMAIN b.rows}

(* The senders whose public key a block reveals. *)
KeyOwners(b) ==
    {b.rows[i].from : i \in {j \in DOMAIN b.rows : ~IsCoinbase(b.rows[j]) /\ b.rows[j].pub}}

PutTxids(b, h, fork, index0) ==
    IF PostFork(h, fork)
    THEN [t \in Txid |-> IF t \in Txids(b) THEN h ELSE index0[t]]
    ELSE index0

PutKeys(b, h, fork, keys0) ==
    IF PostFork(h, fork)
    THEN [a \in Address |-> IF keys0[a] = 0 /\ a \in KeyOwners(b) THEN h ELSE keys0[a]]
    ELSE keys0

(***************************************************************************)
(* The rules of digest.py that the indexes depend on: a block extends the  *)
(* chain in time, is new, and replays no confirmed transaction.  The       *)
(* post-fork coinbase is exempt from the replay checks.                    *)
(***************************************************************************)
Checked(b, h) == IF PostFork(h, ForkHeight) THEN 1..(Len(b.rows) - 1) ELSE DOMAIN b.rows

Distinct(b, F(_)) == \A i, j \in DOMAIN b.rows : F(b.rows[i]) = F(b.rows[j]) => i = j

check_duplicate_signatures(b, h) ==
    /\ \A i \in Checked(b, h) :
          /\ b.rows[i].sig # NoSig
          /\ ~ \E e \in pos : e[1] = "sig" /\ e[2] = b.rows[i].sig /\ e[3] < h
          /\ PostFork(h, ForkHeight) =>
                ~(txid[b.rows[i].txid] # 0 /\ txid[b.rows[i].txid] < h)
    /\ Distinct(b, LAMBDA r : r.sig)
    /\ PostFork(h, ForkHeight) => Distinct(b, LAMBDA r : r.txid)

Later(b) == Tip > 0 => b.ts > blocks[Tip].ts
block_already_exists(b) == hashes[b.hash] # 0

(***************************************************************************)
(* commit_block: everything below happens in one write transaction.        *)
(***************************************************************************)
ReplayBal(h) == IF h = 0 THEN Zero ELSE replay[h].bal
ReplayRows(h) == IF h = 0 THEN 0 ELSE replay[h].n

PutBody(b) ==
    /\ blocks' = Append(blocks, b)
    /\ hashes' = [hashes EXCEPT ![b.hash] = Tip + 1]
    /\ replay' = Append(replay, [bal |-> Plus(ReplayBal(Tip), Delta(b)),
                                 n   |-> ReplayRows(Tip) + Len(b.rows)])

commit_block(b) ==
    /\ Tip < MaxHeight
    /\ PutBody(b)
    /\ diff' = diff \cup {Tip + 1}
    /\ pos' = pos \cup PosEntries(b, Tip + 1)
    /\ txid' = PutTxids(b, Tip + 1, ForkHeight, txid)
    /\ pkref' = PutKeys(b, Tip + 1, ForkHeight, pkref)
    /\ bal' = Plus(bal, Delta(b))
    /\ txcount' = txcount + Len(b.rows)

NoLoop == [op |-> "none", at |-> 0, to |-> 0, acc |-> Zero, n |-> 0, fork |-> 0]

Digest(b) ==
    /\ run = "node" /\ loop.op = "none"
    /\ Later(b)
    /\ check_duplicate_signatures(b, Tip + 1)
    /\ ~block_already_exists(b)
    /\ commit_block(b)
    /\ blind' = blind \cup gap
    /\ UNCHANGED <<run, schema, alloc, loop, gap>>

(***************************************************************************)
(* rollback: one write transaction.  The loop over the removed blocks is   *)
(* visible only to a crash, which discards it; `fork` is the caller's      *)
(* node.fork_height, still None right after a restart without a sidecar.   *)
(***************************************************************************)
RollbackBegin(to, fork) ==
    /\ run = "node" /\ loop.op = "none"
    /\ to < Tip
    /\ loop' = [NoLoop EXCEPT !.op = "rollback", !.at = Tip, !.to = to, !.fork = fork]
    /\ UNCHANGED <<run, schema, blocks, index, diff, bal, txcount, alloc, replay, gap, blind>>

RollbackBlock ==
    /\ loop.op = "rollback" /\ loop.at > loop.to
    /\ loop' = [loop EXCEPT !.at = @ - 1,
                            !.acc = Minus(@, Delta(blocks[loop.at])),
                            !.n = @ + Len(blocks[loop.at].rows)]
    /\ UNCHANGED <<run, schema, blocks, index, diff, bal, txcount, alloc, replay, gap, blind>>

Removed == (loop.to + 1)..Tip

DeletedTxidNoSweep(t) ==
    \E h \in Removed : PostFork(h, loop.fork) /\ t \in Txids(blocks[h])

DeletedTxid(t) ==
    \/ \E h \in Removed : PostFork(h, loop.fork) /\ t \in Txids(blocks[h])
    \/ txid[t] > loop.to                                      \* the stale sweep

TxidTombstone(t) == IF DeletedTxid(t) THEN -1 ELSE txid[t]
TxidAfter(t) == IF DeletedTxid(t) THEN 0 ELSE txid[t]

DiffKept == diff
DiffAfter == diff \ Removed

RollbackCommit ==
    /\ loop.op = "rollback" /\ loop.at = loop.to
    /\ pos' = pos \ UNION {PosEntries(blocks[h], h) : h \in Removed}
    /\ hashes' = [x \in Hash |-> IF \E h \in Removed : blocks[h].hash = x THEN 0 ELSE hashes[x]]
    /\ diff' = DiffAfter
    /\ txid' = [t \in Txid |-> TxidAfter(t)]
    /\ pkref' = [a \in Address |-> IF pkref[a] > loop.to THEN 0 ELSE pkref[a]]
    /\ bal' = Plus(bal, loop.acc)
    /\ txcount' = IF txcount > loop.n THEN txcount - loop.n ELSE 0
    /\ blocks' = SubSeq(blocks, 1, loop.to)
    /\ replay' = SubSeq(replay, 1, loop.to)
    /\ loop' = NoLoop
    /\ UNCHANGED <<run, schema, alloc, gap, blind>>

(***************************************************************************)
(* Startup (node_init.open_ledger): refuse another schema, seed an empty   *)
(* ledger, then credit the allocations; a crash may fall in between.       *)
(***************************************************************************)
open_ledger ==
    /\ run = "off"
    /\ Tip > 0 => schema
    /\ run' = "opening" /\ schema' = TRUE
    /\ UNCHANGED <<blocks, index, diff, bal, txcount, alloc, loop, replay, gap, blind>>

seed_genesis ==
    /\ run = "opening" /\ Tip = 0
    /\ commit_block(GenesisBody)
    /\ UNCHANGED <<run, schema, alloc, loop, gap, blind>>

AllocationWhole == Rewards(Allocation)
AllocationDifference == Minus(Rewards(Allocation), Rewards(alloc))

set_allocations ==
    /\ run = "opening" /\ Tip > 0
    /\ bal' = Plus(bal, AllocationDifference)
    /\ alloc' = Allocation
    /\ run' = "node"
    /\ UNCHANGED <<schema, blocks, index, diff, txcount, loop, replay, gap, blind>>

(***************************************************************************)
(* scripts/upgrade_ledger.py, run with the node stopped on a ledger of any *)
(* schema: difficulties unless --skip-difficulty, then reindex (drop, one  *)
(* transaction per batch, totals), then schema.  It gives up when no       *)
(* anchor is at or below the tip; --fork-height is None by default.        *)
(***************************************************************************)
rebuild_difficulty ==
    /\ run = "off" /\ Anchor <= Tip
    /\ diff' = diff \cup (Anchor..Tip)
    /\ gap' = gap \ {"diff"}
    /\ run' = "tool"
    /\ UNCHANGED <<schema, blocks, index, bal, txcount, alloc, loop, replay, blind>>

SkipDifficulty ==
    /\ run = "off" /\ Tip > 0
    /\ gap' = gap \cup (IF schema THEN {} ELSE {"diff"})
    /\ run' = "tool"
    /\ UNCHANGED <<schema, blocks, index, diff, bal, txcount, alloc, loop, replay, blind>>

ReindexDrop(fork) ==
    /\ run = "tool" /\ loop.op = "none"
    /\ pos' = {}
    /\ txid' = [t \in Txid |-> 0]
    /\ pkref' = [a \in Address |-> 0]
    /\ bal' = Zero
    /\ txcount' = 0
    /\ loop' = [NoLoop EXCEPT !.op = "reindex", !.fork = fork]
    /\ gap' = gap \cup {"rows", "fork"}
    /\ UNCHANGED <<run, schema, blocks, hashes, diff, alloc, replay, blind>>

ReindexBatch ==
    LET h == loop.at + 1 IN
    /\ loop.op = "reindex" /\ h <= Tip
    /\ pos' = pos \cup PosEntries(blocks[h], h)
    /\ txid' = PutTxids(blocks[h], h, loop.fork, txid)
    /\ pkref' = PutKeys(blocks[h], h, loop.fork, pkref)
    /\ loop' = [loop EXCEPT !.at = h, !.acc = Plus(@, Delta(blocks[h])),
                            !.n = @ + Len(blocks[h].rows)]
    /\ UNCHANGED <<run, schema, blocks, hashes, diff, bal, txcount, alloc, replay, gap, blind>>

ScannedAllButTip == loop.at + 1 >= Tip
Scanned == loop.at = Tip

ReindexTotals ==
    /\ loop.op = "reindex" /\ Scanned
    /\ bal' = Plus(bal, Plus(loop.acc, Rewards(alloc)))
    /\ txcount' = loop.n
    /\ loop' = [NoLoop EXCEPT !.op = "schema"]
    /\ gap' = gap \ (IF loop.fork = ForkHeight \/ Tip < ForkHeight THEN {"rows", "fork"} ELSE {"rows"})
    /\ UNCHANGED <<run, schema, blocks, index, diff, alloc, replay, blind>>

set_schema ==
    /\ loop.op = "schema"
    /\ schema' = TRUE
    /\ run' = "off"
    /\ loop' = NoLoop
    /\ UNCHANGED <<blocks, index, diff, bal, txcount, alloc, replay, gap, blind>>

(* The process dies or stops: open transactions and in-memory sums are lost. *)
Crash ==
    /\ run # "off"
    /\ run' = "off" /\ loop' = NoLoop
    /\ UNCHANGED <<schema, blocks, index, diff, bal, txcount, alloc, replay, gap, blind>>

(* A release before the current schema appends bodies and hashes only, and *)
(* keeps its replay protection elsewhere.                                  *)
LegacyCommit(b) ==
    /\ run = "off" /\ ~schema
    /\ Tip + 1 < ForkHeight /\ Tip < MaxHeight
    /\ IF Tip = 0 THEN b = GenesisBody ELSE b \in Body
    /\ Later(b)
    /\ ~block_already_exists(b)
    /\ Tip > 0 => \A i \in DOMAIN b.rows : b.rows[i].sig # NoSig
    /\ \A i \in DOMAIN b.rows, h \in 1..Tip :
          \A j \in DOMAIN blocks[h].rows : blocks[h].rows[j].sig # b.rows[i].sig
    /\ Tip > 0 => Distinct(b, LAMBDA r : r.sig)
    /\ PutBody(b)
    /\ UNCHANGED <<run, schema, diff, pos, bal, txid, pkref, txcount, alloc, loop, gap, blind>>

Init ==
    /\ run = "off" /\ schema \in BOOLEAN
    /\ blocks = <<>> /\ replay = <<>>
    /\ hashes = [x \in Hash |-> 0]
    /\ diff = {} /\ pos = {}
    /\ bal = Zero
    /\ txid = [t \in Txid |-> 0]
    /\ pkref = [a \in Address |-> 0]
    /\ txcount = 0
    /\ alloc = [a \in Address |-> 0]
    /\ loop = NoLoop
    /\ gap = {} /\ blind = {}

Next ==
    \/ \E b \in Body : Digest(b)
    \/ \E to \in 1..(MaxHeight - 1), fork \in {ForkHeight, NoFork} : RollbackBegin(to, fork)
    \/ RollbackBlock
    \/ RollbackCommit
    \/ open_ledger
    \/ seed_genesis
    \/ set_allocations
    \/ rebuild_difficulty
    \/ SkipDifficulty
    \/ \E fork \in {ForkHeight, NoFork} : ReindexDrop(fork)
    \/ ReindexBatch
    \/ ReindexTotals
    \/ set_schema
    \/ Crash
    \/ \E b \in Bodies : LegacyCommit(b)

Spec == Init /\ [][Next]_vars

-----------------------------------------------------------------------------
LoopType == [op : {"none", "rollback", "reindex", "schema"}, at : Nat, to : Nat,
             acc : Accounts, n : Nat, fork : Nat]

SumType == [bal : Accounts, n : Nat]

(* Type correctness of the store image and of the open transaction. *)
TypeOK ==
    /\ run \in {"off", "opening", "node", "tool"} /\ schema \in BOOLEAN
    /\ blocks \in Seq(Bodies) /\ Tip <= MaxHeight
    /\ hashes \in [Hash -> Nat]
    /\ diff \subseteq Nat
    /\ pos \subseteq {"sig", "from", "to"} \X (Sig \cup Address) \X Nat \X Nat
    /\ bal \in Accounts
    /\ txid \in [Txid -> Nat]
    /\ pkref \in [Address -> Nat]
    /\ txcount \in Nat
    /\ alloc \in [Address -> Nat]
    /\ loop \in LoopType
    /\ replay \in Seq(SumType) /\ Len(replay) = Tip
    /\ gap \subseteq Derived /\ blind \subseteq Derived

PosUpTo(n) == UNION {PosEntries(blocks[h], h) : h \in 1..n}

InTxids(t, h) == PostFork(h, ForkHeight) /\ t \in Txids(blocks[h])
Reveals(a, h) == PostFork(h, ForkHeight) /\ a \in KeyOwners(blocks[h])

TxidsUpTo(n) ==
    \A t \in Txid : /\ txid[t] \in 0..n
                    /\ \A h \in 1..n : txid[t] = h <=> InTxids(t, h)
KeysUpTo(n) ==
    \A a \in Address :
        /\ pkref[a] \in 0..n
        /\ pkref[a] # 0 => Reveals(a, pkref[a])
        /\ \A h \in 1..n : Reveals(a, h) => pkref[a] \in 1..h

(* A node may open the store: the tool is not at work and the schema is    *)
(* the one open_ledger insists on.                                         *)
Acceptable == schema /\ run # "tool"

HashesExact ==
    \A x \in Hash : /\ hashes[x] \in 0..Tip
                    /\ \A h \in 1..Tip : hashes[x] = h <=> blocks[h].hash = x

(* Whenever a node would accept the store, block hashes are exact, and     *)
(* every index holds exactly the entries of the committed blocks: the      *)
(* signature and address positions, the height of every post-fork txid and *)
(* the first height that revealed each public key.  The one exception is a *)
(* group of indexes that the upgrade tool has left incomplete, and a       *)
(* finished reindex ends it, whatever the node did in between; a txid that *)
(* was confirmed twice meanwhile has one entry for two blocks.             *)
IndexesExact ==
    Acceptable => /\ HashesExact
                  /\ "rows" \notin gap => pos = PosUpTo(Tip)
                  /\ "fork" \notin gap \cup blind => TxidsUpTo(Tip)
                  /\ "fork" \notin gap => KeysUpTo(Tip)

(* The history variable is the fold of the block deltas. *)
ReplayIsFold ==
    \A h \in 1..Tip : /\ replay[h].bal = Plus(ReplayBal(h - 1), Delta(blocks[h]))
                      /\ replay[h].n = ReplayRows(h - 1) + Len(blocks[h].rows)

(* The maintained balances and transaction count equal a replay of the     *)
(* chain from genesis plus the fixed allocations, whatever commits,        *)
(* rollbacks, upgrades and crashes came before (commit_block, rollback,    *)
(* set_allocations, reindex), unless a reindex was begun and not finished; *)
(* finishing one restores them.                                            *)
BalancesAreReplay ==
    /\ ReplayIsFold
    /\ Acceptable /\ "rows" \notin gap => /\ bal = Plus(ReplayBal(Tip), Rewards(alloc))
                                         /\ txcount = ReplayRows(Tip)

(* Replay protection reads the signature index, so it is only as good as   *)
(* the index after rollbacks and rebuilds: no signature that digest.py     *)
(* checks is confirmed twice on one chain, unless a node digested blocks   *)
(* on the signature index of an unfinished reindex.  Nothing repairs that  *)
(* chain afterwards; txids left out by a reindex do not matter to it.      *)
NoReplay ==
    "rows" \notin blind =>
        \A h, k \in 1..Tip : \A i \in Checked(blocks[h], h), j \in Checked(blocks[k], k) :
            blocks[h].rows[i].sig = blocks[k].rows[j].sig => h = k /\ i = j

(* last_difficulty() reads the highest recorded height: in a store a node  *)
(* accepts it is the tip, never a height that a rollback removed.  (The    *)
(* upgrade leaves the heights below the first anchor bare, and one with    *)
(* --skip-difficulty whatever heights an older upgrade had not recorded.)  *)
DifficultyAtTip ==
    Acceptable /\ "diff" \notin gap /\ diff # {} => Tip \in diff /\ \A h \in diff : h <= Tip

(* block_store.py:6, "a crash leaves the store at a clean block boundary": *)
(* what a node would open has the positions and balances of its blocks.    *)
(* The upgrade tool that dies while it reindexes a ledger of the current   *)
(* schema leaves neither.                                                  *)
CleanBlockBoundary ==
    Acceptable => /\ pos = PosUpTo(Tip)
                  /\ bal = Plus(ReplayBal(Tip), Rewards(alloc))
=============================================================================
