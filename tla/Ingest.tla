------------------------------- MODULE Ingest -------------------------------
(***************************************************************************)
(* Block ingestion (digest.py) and transaction admission (mempool.py) as   *)
(* the connection threads of a running node execute them: one thread per   *)
(* peer, sharing the ledger, the mempool, node.db_lock and MEMPOOL.lock.   *)
(* The steps of a thread are cut where another thread can interleave:      *)
(* between a check and the acquire that follows it, at each network wait,  *)
(* at every acquisition of MEMPOOL.lock, and before the commit.            *)
(***************************************************************************)
EXTENDS ChainRules, Reputation

CONSTANTS
    Serves,        \* Peer -> the chains that peer may serve
    Mined,         \* blocks a miner may submit over REST
    Offers,        \* transaction lists peers send for the mempool
    Consensus,     \* peers.consensus, the height most peers report
    SyncSlack,     \* the 5 of "hdd_block >= consensus - 5"
    SubmitSlack,   \* the 3 of "last_block < consensus_max - 3"
    Free           \* the owner of an unlocked lock

ASSUME IngestAssumption ==
    /\ \A p \in Peer : \A c \in Serves[p] : c \in Seq(Block) /\ Head(c) = Genesis
    /\ Mined \subseteq Block /\ Offers \subseteq Seq(Tx)
    /\ Free \notin Peer
    /\ Consensus \in Nat /\ SyncSlack \in Nat /\ SubmitSlack \in Nat

VARIABLES
    pc,          \* Peer -> where its thread is
    job,         \* Peer -> its local data
    chain,       \* the ledger
    last_block,  \* node.last_block
    hdd_block,   \* node.hdd_block, what the sync protocol advertises
    mempool,     \* pooled transactions
    expired,     \* those that have been older than REFUSE_OLDER_THAN in the pool
    projected,   \* blocks the plugins' derived stores were given
    db_lock, mempool_lock,
    stopping     \* node.IS_STOPPING

node == <<chain, last_block, hdd_block, projected>>
vars == <<pc, job, node, mempool, expired, db_lock, mempool_lock, rep, stopping>>

NoJob == [base |-> 0, blocks |-> <<>>, i |-> 0, txs |-> <<>>]
Goto(p, l) == pc' = [pc EXCEPT ![p] = l]
End(p) == Goto(p, "idle") /\ job' = [job EXCEPT ![p] = NoJob]

(***************************************************************************)
(* The sync exchange (worker.py, node.py): we send our tip hash, a peer    *)
(* that knows it announces blocks above it, and we ask for them unless a   *)
(* digest is running or its height is not above ours.  block_req is some   *)
(* height that peers report, so it excludes no peer for good.              *)
(***************************************************************************)
SendHash(p) ==
    /\ pc[p] = "idle" /\ p \notin banlist /\ ~stopping
    /\ job' = [job EXCEPT ![p].base = hdd_block]
    /\ Goto(p, "asked")
    /\ UNCHANGED <<node, mempool, expired, db_lock, mempool_lock, rep, stopping>>

(* The peer knows the hash we sent: its chain c runs through our block. *)
Extends(c, base) == IsPrefix(SubSeq(chain, 1, base), c)

blocksfnd(p) ==
    /\ pc[p] = "asked"
    /\ IF /\ db_lock = Free
          /\ \E c \in Serves[p] : Extends(c, job[p].base) /\ Len(c) > last_block
       THEN Goto(p, "fetching") /\ UNCHANGED job
       ELSE End(p)
    /\ UNCHANGED <<node, mempool, expired, db_lock, mempool_lock, rep, stopping>>

Receive(p) ==
    /\ pc[p] = "fetching"
    /\ \E c \in Serves[p] :
          /\ Extends(c, job[p].base)
          /\ job' = [job EXCEPT ![p].blocks = SubSeq(c, job[p].base + 1, Len(c))]
    /\ Goto(p, "deliver")
    /\ UNCHANGED <<node, mempool, expired, db_lock, mempool_lock, rep, stopping>>

(* "Failed to deliver the longest chain", 2 warnings. *)
ReceiveFails(p) ==
    /\ pc[p] = "fetching"
    /\ Punish(p, 0, 2)
    /\ End(p)
    /\ UNCHANGED <<node, mempool, expired, db_lock, mempool_lock, stopping>>

(* A miner's block, made for a tip that may have moved: refused while the  *)
(* node digests or is behind, otherwise digested like any other.  Requests *)
(* that arrive while the process ends are left out: they leave no trace.   *)
submit_block(p, b) ==
    /\ pc[p] = "idle" /\ ~stopping
    /\ db_lock = Free
    /\ last_block >= Consensus - SubmitSlack
    /\ job' = [job EXCEPT ![p].blocks = <<b>>]
    /\ Goto(p, "deliver")
    /\ UNCHANGED <<node, mempool, expired, db_lock, mempool_lock, rep, stopping>>

(***************************************************************************)
(* digest_block: the lock is tested, and only then acquired.               *)
(***************************************************************************)
digest_block(p) ==
    /\ pc[p] = "deliver"
    /\ IF p \in banlist \/ db_lock # Free
       THEN End(p)                       \* banned, or "someone delivered data faster"
       ELSE Goto(p, "acquire") /\ UNCHANGED job
    /\ UNCHANGED <<node, mempool, expired, db_lock, mempool_lock, rep, stopping>>

Acquire(p) ==
    /\ pc[p] = "acquire" /\ db_lock = Free
    /\ db_lock' = p
    /\ Goto(p, "wait")
    /\ UNCHANGED <<job, node, mempool, expired, mempool_lock, rep, stopping>>

(* "Wait for mempool to unlock": polls, and does not take the lock. *)
WaitForMempool(p) ==
    /\ pc[p] = "wait" /\ mempool_lock = Free
    /\ Goto(p, "judge")
    /\ UNCHANGED <<job, node, mempool, expired, db_lock, mempool_lock, rep, stopping>>

Synced == hdd_block >= Consensus - SyncSlack
Benign(reason) == reason = "already in"

(* cleanup_after_processing, the `finally` of digest_block. *)
Cleanup(p, tip) ==
    /\ last_block' = tip /\ hdd_block' = tip
    /\ db_lock' = Free
    /\ End(p)

NoResync(p) == Cleanup(p, last_block)

(* handle_processing_error resyncs the in-memory tip from the ledger. *)
Resync(p) == Cleanup(p, Len(chain))

(* The `except` of digest_block, then handle_processing_error. *)
Fail(p, reason) ==
    /\ Punish(p, IF Synced /\ ~Benign(reason) THEN PenaltyInvalidBlock ELSE 0, 2)
    /\ Resync(p)
    /\ UNCHANGED <<chain, mempool, expired, mempool_lock, stopping>>

(* checkpoint_set belongs here too; Reorg, which reads the checkpoint, has it. *)
Succeed(p) ==
    /\ Reward(p)
    /\ Cleanup(p, last_block)
    /\ UNCHANGED <<chain, projected, mempool, expired, mempool_lock, stopping>>

Current(p) == Head(job[p].blocks)

(* The top of process_block_data's loop. *)
JudgeBlock(p) ==
    /\ pc[p] = "judge"
    /\ \/ /\ stopping \/ job[p].blocks = <<>>
          /\ Succeed(p)
       \/ /\ ~stopping /\ job[p].blocks # <<>>
          /\ Raised(chain, Current(p)) # ""
          /\ Fail(p, Raised(chain, Current(p)))
          /\ UNCHANGED projected
       \/ /\ ~stopping /\ job[p].blocks # <<>>
          /\ Raised(chain, Current(p)) = ""
          /\ job' = [job EXCEPT ![p].i = 1]
          /\ Goto(p, "spend")
          /\ UNCHANGED <<node, mempool, expired, db_lock, mempool_lock, rep, stopping>>

NotRival(p) == TRUE
SpendAllowed(p) == Affordable(chain, Current(p), job[p].i)

(* process_transaction_balances, one transaction: its balance is checked,  *)
(* then it is removed from the mempool, before the next one is looked at.  *)
process_transaction(p) ==
    /\ pc[p] = "spend" /\ job[p].i <= Len(TxsOf[Current(p)])
    /\ \/ /\ ~SpendAllowed(p)
          /\ Fail(p, "overspend")
          /\ UNCHANGED projected
       \/ /\ SpendAllowed(p)
          /\ mempool_lock = Free
          /\ mempool' = mempool \ {TxsOf[Current(p)][job[p].i]}
          /\ job' = [job EXCEPT ![p].i = @ + 1]
          /\ UNCHANGED <<pc, node, expired, db_lock, mempool_lock, rep, stopping>>

(* dispatch_block: every class plugin projects the block. *)
Dispatch(b) == projected' = projected \cup {b}

(* The in-memory tip advances and the hooks run. *)
execute_block_hooks(p) ==
    /\ pc[p] = "spend" /\ job[p].i > Len(TxsOf[Current(p)])
    /\ last_block' = last_block + 1
    /\ Dispatch(Current(p))
    /\ Goto(p, "commit")
    /\ UNCHANGED <<job, chain, hdd_block, mempool, expired, db_lock, mempool_lock, rep, stopping>>

(* Only now are the senders' address types checked; then the commit. *)
commit_block(p) ==
    /\ pc[p] = "commit"
    /\ \/ /\ Fault[Current(p)] = "sender"
          /\ Fail(p, "post-fork-only sender")
          /\ UNCHANGED projected
       \/ /\ Fault[Current(p)] # "sender"
          /\ chain' = Append(chain, Current(p))
          /\ Unban(p)
          /\ job' = [job EXCEPT ![p].blocks = Tail(@)]
          /\ Goto(p, "judge")
          /\ UNCHANGED <<last_block, hdd_block, projected, mempool, expired, db_lock,
                         mempool_lock, stopping>>

(***************************************************************************)
(* Mempool.merge: db_lock is only looked at, MEMPOOL.lock is taken later.  *)
(***************************************************************************)
MergeCheck(p, txs) ==
    /\ pc[p] = "idle" /\ p \notin banlist /\ ~stopping
    /\ db_lock = Free                    \* otherwise "Locked ledger, dropping txs"
    /\ job' = [job EXCEPT ![p].txs = txs]
    /\ Goto(p, "merge")
    /\ UNCHANGED <<node, mempool, expired, db_lock, mempool_lock, rep, stopping>>

(* A transaction sent over REST: merge is called with `wait`, and polls    *)
(* db_lock until no digest runs instead of dropping what it was given.     *)
submit_transaction(p, txs) ==
    /\ pc[p] = "idle" /\ ~stopping
    /\ job' = [job EXCEPT ![p].txs = txs]
    /\ Goto(p, "await")
    /\ UNCHANGED <<node, mempool, expired, db_lock, mempool_lock, rep, stopping>>

MergeWait(p) ==
    /\ pc[p] = "await" /\ db_lock = Free
    /\ Goto(p, "merge")
    /\ UNCHANGED <<job, node, mempool, expired, db_lock, mempool_lock, rep, stopping>>

MergeLock(p) ==
    /\ pc[p] = "merge" /\ mempool_lock = Free
    /\ mempool_lock' = p
    /\ Goto(p, "merging")
    /\ UNCHANGED <<job, node, mempool, expired, db_lock, rep, stopping>>

AdmittedIgnoringPending(t) == Rivals[t] \cap TxsOn(chain) = {}

(* Balance and fees: confirmed balance less the sender's pending spends,   *)
(* of which only those younger than REFUSE_OLDER_THAN are counted.         *)
pending == mempool \ expired
Admitted(t) == Rivals[t] \cap (TxsOn(chain) \cup pending) = {}

(* One transaction of the list.  Space, format and signature may each      *)
(* refuse any transaction before the ledger is consulted, age refuses      *)
(* those that are too old.                                                 *)
MergeTx(p) ==
    /\ pc[p] = "merging" /\ job[p].txs # <<>>
    /\ LET t == Head(job[p].txs) IN
       \/ mempool' = mempool
       \/ t \notin expired /\ t \in mempool /\ t \in TxsOn(chain) /\ mempool' = mempool \ {t}
       \/ /\ t \notin mempool \cup expired \cup TxsOn(chain)
          /\ Admitted(t)
          /\ mempool' = mempool \cup {t}
    /\ job' = [job EXCEPT ![p].txs = Tail(@)]
    /\ UNCHANGED <<pc, node, expired, db_lock, mempool_lock, rep, stopping>>

MergeEndLeaks(p) ==
    /\ pc[p] = "merging" /\ job[p].txs = <<>>
    /\ End(p)
    /\ UNCHANGED <<node, mempool, expired, db_lock, mempool_lock, rep, stopping>>

MergeEnd(p) ==
    /\ pc[p] = "merging" /\ job[p].txs = <<>>
    /\ mempool_lock' = Free
    /\ End(p)
    /\ UNCHANGED <<node, mempool, expired, db_lock, rep, stopping>>

(* REFUSE_OLDER_THAN passes over a pooled transaction.  It stays in the    *)
(* pool, uncounted, until the next purge.                                  *)
Age(t) ==
    /\ t \in pending
    /\ expired' = expired \cup {t}
    /\ UNCHANGED <<pc, job, node, mempool, db_lock, mempool_lock, rep, stopping>>

(* purge drops what has become too old. *)
Purge ==
    /\ mempool_lock = Free
    /\ mempool \cap expired # {}
    /\ mempool' = pending
    /\ UNCHANGED <<pc, job, node, expired, db_lock, mempool_lock, rep, stopping>>

Stop ==
    /\ ~stopping
    /\ stopping' = TRUE
    /\ UNCHANGED <<pc, job, node, mempool, expired, db_lock, mempool_lock, rep>>

Init ==
    /\ pc = [p \in Peer |-> "idle"]
    /\ job = [p \in Peer |-> NoJob]
    /\ chain = <<Genesis>> /\ last_block = 1 /\ hdd_block = 1
    /\ mempool = {} /\ expired = {} /\ projected = {Genesis}
    /\ db_lock = Free /\ mempool_lock = Free
    /\ RepInit
    /\ stopping = FALSE

Digesting(p) ==
    \/ digest_block(p) \/ Acquire(p) \/ WaitForMempool(p) \/ JudgeBlock(p)
    \/ process_transaction(p) \/ execute_block_hooks(p) \/ commit_block(p)

Merging(p) == MergeWait(p) \/ MergeLock(p) \/ MergeTx(p) \/ MergeEnd(p)

Next ==
    \/ \E p \in Peer : \/ SendHash(p) \/ blocksfnd(p) \/ Receive(p) \/ ReceiveFails(p)
                       \/ Digesting(p)
                       \/ \E b \in Mined : submit_block(p, b)
                       \/ \E txs \in Offers : MergeCheck(p, txs) \/ submit_transaction(p, txs)
                       \/ Merging(p)
    \/ \E t \in Tx : Age(t)
    \/ Purge
    \/ Stop

Spec == Init /\ [][Next]_vars

(* A handler thread runs until it blocks, and a network wait ends in data  *)
(* or in a timeout.  Weak fairness is enough for node.db_lock and for the  *)
(* polls: merges do not start while a digest runs, and digests that        *)
(* compete either extend the chain or cost a warning, unless the peer is   *)
(* whitelisted.  Merges can follow one another without end, so their lock  *)
(* needs strong fairness: each is a bounded hold followed by a network     *)
(* wait.                                                                   *)
Fairness ==
    \A p \in Peer :
        /\ WF_vars(blocksfnd(p)) /\ WF_vars(Receive(p) \/ ReceiveFails(p))
        /\ WF_vars(Digesting(p))
        /\ WF_vars(MergeWait(p)) /\ SF_vars(MergeLock(p))
        /\ WF_vars(MergeTx(p)) /\ WF_vars(MergeEnd(p))

FairSpec == Spec /\ Fairness

-----------------------------------------------------------------------------
Critical == {"wait", "judge", "spend", "commit"}
Places == Critical \cup {"idle", "asked", "fetching", "deliver", "acquire", "await", "merge", "merging"}

JobType == [base : Nat, blocks : Seq(Block), i : Nat, txs : Seq(Tx)]

(* Type correctness of the threads and of the node they share. *)
TypeOK ==
    /\ pc \in [Peer -> Places]
    /\ job \in [Peer -> JobType]
    /\ chain \in Seq(Block) /\ chain # <<>>
    /\ last_block \in Nat /\ hdd_block \in Nat
    /\ mempool \subseteq Tx /\ expired \subseteq Tx /\ projected \subseteq Block
    /\ db_lock \in Peer \cup {Free} /\ mempool_lock \in Peer \cup {Free}
    /\ RepType
    /\ stopping \in BOOLEAN

(* Mutual exclusion: a thread validates and commits blocks only while it   *)
(* owns node.db_lock, and merges only while it owns MEMPOOL.lock; both     *)
(* locks are released on every way out (digest_block's finally, merge's    *)
(* with), so a lock is never left behind by a thread that has moved on.    *)
LocksHeld ==
    \A p \in Peer : /\ pc[p] \in Critical <=> db_lock = p
                    /\ pc[p] = "merging" <=> mempool_lock = p

(* Outside a digest the in-memory tip, the advertised tip and the ledger   *)
(* agree, also after a batch that failed half way: handle_processing_error *)
(* and cleanup_after_processing.  During one, the in-memory tip is ahead   *)
(* of the ledger by the block being committed and by nothing else.  No     *)
(* committed block is missing from the plugins' derived stores.            *)
TipsAgree ==
    /\ db_lock = Free => last_block = Len(chain) /\ hdd_block = Len(chain)
    /\ last_block - Len(chain) \in 0..1
    /\ hdd_block <= Len(chain)
    /\ BlocksIn(chain) \subseteq projected

(* The threads and the node they share stay consistent in every            *)
(* interleaving: types, locks and tips (digest_block, merge).              *)
Consistent == TypeOK /\ LocksHeld /\ TipsAgree

(* The ledger is one chain of valid blocks: each block's proof of work is  *)
(* over its predecessor, no transaction is confirmed twice and no two      *)
(* confirmed transactions spend the same funds, although blocks are        *)
(* fetched against a tip that other threads have since moved.              *)
LedgerSound == Sound(chain)

(* Among the pooled transactions young enough to count, no two are ones    *)
(* whose sender can only afford one: merge debits them under MEMPOOL.lock. *)
(* Beside one that is too old and not yet purged a rival may be pooled.    *)
PoolAffordable == \A t \in pending : Rivals[t] \cap pending = {}

(* No interleaving of the two locks hangs a thread: every handler comes    *)
(* back to its loop (digest_block waits for MEMPOOL.lock while it holds    *)
(* node.db_lock; merge takes them in the other order but never holds one   *)
(* while it waits for the other).                                          *)
ThreadsReturn == \A p \in Peer : pc[p] # "idle" ~> pc[p] = "idle"
=============================================================================
