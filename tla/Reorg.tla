------------------------------- MODULE Reorg -------------------------------
(***************************************************************************)
(* Measured fork resolution (chain_ops.py, fork_resolution.py): what a     *)
(* peer's handler thread does when the peer says that it does not know our *)
(* tip.  Threads run concurrently with each other and with the digestion   *)
(* of blocks by forward sync, here one atomic step under node.db_lock (its *)
(* interior is module Ingest).  A fork-resolution thread is cut at every   *)
(* network exchange, at every lock and after every block it applies.       *)
(* Heights are positions in the chain; the genesis block has height 1.     *)
(***************************************************************************)
EXTENDS ChainRules, Reputation

CONSTANTS
    Serves,         \* Peer -> the chains a peer may answer from
    Rank,           \* Block -> the order of block hashes
    Claims,         \* heights peers advertise
    Configs,        \* config.toml: fork_resolution, rollback_depth, rollback_consensus
    MaxProbeDepth,  \* MAX_PROBE_DEPTH
    MinAnswersDeep, \* MIN_ANSWERS_DEEP
    Free

ASSUME ReorgAssumption ==
    /\ IsFiniteSet(Peer)
    /\ \A p \in Peer : \A c \in Serves[p] : c \in Seq(Block) /\ c # <<>> /\ Head(c) = Genesis
    /\ Rank \in [Block -> Nat]
    /\ Claims \subseteq Nat
    /\ Configs \subseteq [resolution : {"measured", "legacy"}, depth : Nat \ {0}, deep : BOOLEAN]
    /\ MaxProbeDepth \in Nat /\ MinAnswersDeep \in Nat
    /\ Free \notin Peer

VARIABLES
    config,      \* one of Configs, fixed while the node runs
    pc, job,     \* Peer -> where its thread is, and the thread's local data
    chain,       \* the ledger
    checkpoint,  \* node.checkpoint
    mempool,
    expired,     \* pooled transactions that became older than REFUSE_OLDER_THAN
    verdicts,    \* node._fork_verdicts: <<tip hash, peer>> pairs not to measure again
    db_lock, fork_lock,
    stopping     \* node.IS_STOPPING

mode == <<config, stopping>>
vars == <<pc, job, chain, checkpoint, mempool, expired, verdicts, db_lock, fork_lock, mode, rep>>

(* was is a history variable: the chain when db_lock was taken. *)
NoJob == [tip |-> 0, hash |-> Genesis, claim |-> 0, checkpoint |-> 0, src |-> Free,
          anc |-> 0, held |-> <<>>, backup |-> <<>>, todo |-> <<>>, was |-> <<>>]
Goto(p, l) == pc' = [pc EXCEPT ![p] = l]
End(p) == Goto(p, "idle") /\ job' = [job EXCEPT ![p] = NoJob]
Tie(p) == job[p].claim = job[p].tip

(* checkpoint_set, for a ledger of height n. *)
Checkpoint(n) == (n \div config.depth) * config.depth - config.depth

(* PeerLink.knows: a peer on chain c has block b at height h. *)
Knows(c, h, b) == h <= Len(c) /\ c[h] = b
Denies(p, h, b) == \E c \in Serves[p] : ~Knows(c, h, b)
Confirms(p, h, b) == \E c \in Serves[p] : Knows(c, h, b)

(***************************************************************************)
(* The gates before any lock or network access.  Our tip is read here.  A  *)
(* gate that refuses changes nothing.                                      *)
(***************************************************************************)
blocknf(p, claim) ==
    /\ config.resolution = "measured"
    /\ pc[p] = "idle" /\ p \notin banlist /\ ~stopping
    /\ db_lock = Free
    /\ Denies(p, Len(chain), Last(chain))
    /\ claim >= Len(chain)
    /\ <<Last(chain), p>> \notin verdicts
    /\ job' = [job EXCEPT ![p].tip = Len(chain), ![p].hash = Last(chain), ![p].claim = claim]
    /\ Goto(p, "gate")
    /\ UNCHANGED <<chain, checkpoint, mempool, expired, verdicts, db_lock, fork_lock, mode, rep>>

(* fork_lock.acquire(blocking=False) *)
Enter(p) ==
    /\ pc[p] = "gate"
    /\ IF fork_lock = Free
       THEN /\ fork_lock' = p
            /\ job' = [job EXCEPT ![p].checkpoint = checkpoint]
            /\ Goto(p, "measure")
       ELSE End(p) /\ UNCHANGED fork_lock
    /\ UNCHANGED <<chain, checkpoint, mempool, expired, verdicts, db_lock, mode, rep>>

LeaveLocked(p) == End(p) /\ UNCHANGED fork_lock

(* The `finally` of _blocknf_measured, on every way out. *)
Leave(p) == End(p) /\ fork_lock' = Free

(* _skip with a cache key: this verdict is reused until it expires. *)
Skip(p) ==
    /\ verdicts' = verdicts \cup {<<job[p].hash, p>>}
    /\ Leave(p)
    /\ UNCHANGED <<chain, checkpoint, mempool, expired, db_lock, mode>>

(***************************************************************************)
(* Measurement: the ancestor (module AncestorSearch), the shallow policy   *)
(* and, below the checkpoint, the deep one.                                *)
(***************************************************************************)
Floor(tip) == IF tip - MaxProbeDepth > 1 THEN tip - MaxProbeDepth ELSE 1

Ancestor(c, tip) ==
    LET agreed == {h \in Floor(tip)..tip : Knows(c, h, chain[h])}
    IN IF agreed = {} THEN Floor(tip) - 1
       ELSE CHOOSE h \in agreed : \A k \in agreed : k <= h

floor_ok(p, a) == a + 1 >= job[p].checkpoint

(* rollback_allowed: above the checkpoint as it is now, or, unless         *)
(* rollback_consensus was turned off, below it while some peer is proven   *)
(* by valid blocks.  Whether enough peers report one height, which it also *)
(* asks, is left open.                                                     *)
Proven == config.deep /\ \E q \in Peer : score[q] > 0
rollback_allowed(h) == h >= checkpoint \/ Proven

UncorroboratedDeep(p) == TRUE

(* majority_disagrees with the advertiser's own "no" added: A answer, and  *)
(* D of them do not know our tip.                                          *)
Corroborated(p) ==
    \E A \in SUBSET (Peer \ {p}) : \E D \in SUBSET A :
        /\ \A q \in D : Denies(q, job[p].tip, job[p].hash)
        /\ \A q \in A \ D : Confirms(q, job[p].tip, job[p].hash)
        /\ Cardinality(A) + 1 >= MinAnswersDeep
        /\ (Cardinality(D) + 1) * 2 > Cardinality(A) + 1

(* The donor is the advertiser, or a dialable peer that also lacks our tip. *)
Donors(p) == {q \in Peer : q = p \/ Denies(q, job[p].tip, job[p].hash)}

(* classify says REORG for ancestor a: floor_ok, or else deep_ok. *)
Permitted(p, a) ==
    /\ a \in Floor(job[p].tip)..(job[p].tip - 1)
    /\ floor_ok(p, a) \/ (rollback_allowed(a + 1) /\ Corroborated(p))

MeasureReorg(p) ==
    /\ pc[p] = "measure" /\ Len(chain) >= job[p].tip
    /\ \E s \in Donors(p) : \E c \in Serves[s] :
          LET a == Ancestor(c, job[p].tip) IN
          /\ Permitted(p, a)
          /\ job' = [job EXCEPT ![p].src = s, ![p].anc = a]
    /\ Goto(p, "fetch")
    /\ UNCHANGED <<chain, checkpoint, mempool, expired, verdicts, db_lock, fork_lock, mode, rep>>

(* BEHIND, SYNCED, DEAD_FORK, or UNKNOWN for want of an answer. *)
MeasureOther(p) == pc[p] = "measure" /\ Skip(p) /\ UNCHANGED rep

(***************************************************************************)
(* Possession: the tie-break, then the competing branch.                   *)
(***************************************************************************)
(* tie_winner at the first divergent block, if the peer shows it. *)
TheirsWinsTie(p, c) ==
    job[p].anc + 1 <= Len(c) /\ Rank[c[job[p].anc + 1]] < Rank[chain[job[p].anc + 1]]

LosesTie(p) == pc[p] = "fetch" /\ Tie(p) /\ Skip(p) /\ UNCHANGED rep

ServesNothing(p) ==
    /\ pc[p] = "fetch"
    /\ Punish(p, 0, 2)
    /\ Skip(p)

(* fetch_branch stops at any height k, for lack of time or of answers; it  *)
(* knows a branch to be complete at its end or at the advertised height.   *)
Holds(p, c, k) ==
    /\ ~Tie(p) \/ TheirsWinsTie(p, c)
    /\ Knows(c, job[p].anc, chain[job[p].anc])
    /\ k \in (job[p].anc + 1)..Len(c)

Longer(p, k) == k > job[p].tip \/ (Tie(p) /\ k = job[p].tip)

FetchShort(p) ==
    /\ pc[p] = "fetch"
    /\ \E c \in Serves[job[p].src] : \E k \in 1..Len(c) :
          /\ Holds(p, c, k) /\ ~Longer(p, k)
          /\ \/ UNCHANGED rep
             \/ (k = Len(c) \/ k >= job[p].claim) /\ Punish(p, 0, 2)
    /\ Skip(p)

FetchLonger(p) ==
    /\ pc[p] = "fetch"
    /\ \E c \in Serves[job[p].src] : \E k \in 1..Len(c) :
          /\ Holds(p, c, k) /\ Longer(p, k)
          /\ job' = [job EXCEPT ![p].held = SubSeq(c, job[p].anc + 1, k)]
    /\ Goto(p, "lock")
    /\ UNCHANGED <<chain, checkpoint, mempool, expired, verdicts, db_lock, fork_lock, mode, rep>>

(***************************************************************************)
(* The reorganisation, under node.db_lock.  The tip is not read again.     *)
(***************************************************************************)
CheckLock(p) ==
    /\ pc[p] = "lock"
    /\ IF db_lock = Free THEN Goto(p, "acquire") /\ UNCHANGED <<job, fork_lock>> ELSE Leave(p)
    /\ UNCHANGED <<chain, checkpoint, mempool, expired, verdicts, db_lock, mode, rep>>

BackupToTip(p) == SubSeq(chain, job[p].anc + 1, job[p].tip)
Backup(p) == SubSeq(chain, job[p].anc + 1, Len(chain))        \* backup_higher

(* backup_higher, _roll_to_locked and invalidate. *)
RollToLocked(p) ==
    /\ pc[p] = "acquire" /\ db_lock = Free
    /\ db_lock' = p
    /\ job' = [job EXCEPT ![p].backup = Backup(p), ![p].todo = job[p].held, ![p].was = chain]
    /\ chain' = SubSeq(chain, 1, job[p].anc)
    /\ verdicts' = {}
    /\ Goto(p, "apply")
    /\ UNCHANGED <<checkpoint, mempool, expired, fork_lock, mode, rep>>

(* process_block_data on one block: what leaves the mempool when it fails. *)
Evicted(b) ==
    {TxsOf[b][i] : i \in {j \in DOMAIN TxsOf[b] :
        Raised(chain, b) = "" /\ \A k \in 1..j : Affordable(chain, b, k)}}

Accepted(b) == Valid(chain, b)

Commit(p, b) ==
    /\ Accepted(b)
    /\ chain' = Append(chain, b)
    /\ mempool' = mempool \ TxsIn(b)
    /\ job' = [job EXCEPT ![p].todo = Tail(@)]
    /\ UNCHANGED <<pc, checkpoint, expired, verdicts, db_lock, fork_lock, mode>>

Reject(p, b) ==
    /\ ~Accepted(b)
    /\ mempool' = mempool \ Evicted(b)
    /\ job' = [job EXCEPT ![p].todo = <<>>]

(* _apply_blocks_locked on the held branch, block by block. *)
ApplyHeld(p) ==
    /\ pc[p] = "apply"
    /\ IF job[p].todo = <<>> \/ stopping
       THEN /\ Reward(job[p].src)
            /\ checkpoint' = Checkpoint(Len(chain))
            /\ Goto(p, "decide")
            /\ UNCHANGED <<job, chain, mempool, expired, verdicts, db_lock, fork_lock, mode>>
       ELSE LET b == Head(job[p].todo) IN
            \/ Commit(p, b) /\ Unban(job[p].src)
            \/ /\ Reject(p, b)
               /\ Punish(job[p].src, 0, 2)
               /\ Goto(p, "decide")
               /\ UNCHANGED <<chain, checkpoint, expired, verdicts, db_lock, fork_lock, mode>>

adopted(p) ==
    \/ Len(chain) > job[p].tip
    \/ Tie(p) /\ Len(chain) = job[p].tip /\ Len(chain) > job[p].anc

Adopt(p) ==
    /\ pc[p] = "decide" /\ adopted(p)
    /\ db_lock' = Free
    /\ Goto(p, "return")
    /\ UNCHANGED <<job, chain, checkpoint, mempool, expired, verdicts, fork_lock, mode, rep>>

GiveUp(p) ==
    /\ pc[p] = "decide" /\ ~adopted(p)
    /\ chain' = SubSeq(chain, 1, job[p].anc)
    /\ verdicts' = {}
    /\ job' = [job EXCEPT ![p].todo = job[p].backup]
    /\ Goto(p, "restore")
    /\ UNCHANGED <<checkpoint, mempool, expired, db_lock, fork_lock, mode, rep>>

(* _apply_blocks_locked on our own blocks, as 127.0.0.1, which has no      *)
(* reputation.                                                             *)
Restore(p) ==
    /\ pc[p] = "restore"
    /\ IF job[p].todo = <<>> \/ stopping
       THEN /\ checkpoint' = Checkpoint(Len(chain))
            /\ db_lock' = Free
            /\ Goto(p, "blame")
            /\ UNCHANGED <<job, chain, mempool, expired, verdicts, fork_lock, mode>>
       ELSE LET b == Head(job[p].todo) IN
            \/ Commit(p, b)
            \/ /\ Reject(p, b)
               /\ db_lock' = Free
               /\ Goto(p, "blame")
               /\ UNCHANGED <<chain, checkpoint, expired, verdicts, fork_lock, mode>>
    /\ UNCHANGED rep

(* What Mempool.merge can admit: too old a transaction is refused, and of  *)
(* the pooled ones only the younger are counted.  Space and format may     *)
(* refuse any.                                                             *)
pending == mempool \ expired
AdmissibleIgnoringPending(t) ==
    t \notin expired \cup TxsOn(chain) /\ Rivals[t] \cap TxsOn(chain) = {}
Admissible(t) ==
    t \notin expired \cup TxsOn(chain) /\ Rivals[t] \cap (TxsOn(chain) \cup pending) = {}

(* _return_txs_to_mempool: db_lock is no longer held. *)
ReturnTxs(p) ==
    /\ pc[p] = "return"
    /\ \E back \in SUBSET {t \in TxsOn(job[p].backup) : Admissible(t)} :
          mempool' = mempool \cup back
    /\ Leave(p)
    /\ UNCHANGED <<chain, checkpoint, expired, verdicts, db_lock, mode, rep>>

(* "competing branch failed validation; ours restored" *)
Blame(p) ==
    /\ pc[p] = "blame"
    /\ Punish(job[p].src, PenaltyInvalidBlock, 5)
    /\ Skip(p)

(***************************************************************************)
(* _blocknf_legacy, the opt-out: our tip is dropped because a peer does    *)
(* not know it.  The hash that was announced is compared again under the   *)
(* lock, which is tested before it is taken.                               *)
(***************************************************************************)
blocknf_legacy(p) ==
    /\ config.resolution = "legacy"
    /\ pc[p] = "idle" /\ p \notin banlist /\ ~stopping
    /\ Denies(p, Len(chain), Last(chain))
    /\ db_lock = Free
    /\ job' = [job EXCEPT ![p].hash = Last(chain)]
    /\ Goto(p, "legacy")
    /\ UNCHANGED <<chain, checkpoint, mempool, expired, verdicts, db_lock, fork_lock, mode, rep>>

(* The chain may have been moved by another thread since. *)
MovedAway(p) == Last(chain) # job[p].hash

(* Also the choice of a filter plugin, or of hyperblocks and an old tip. *)
LegacySkip(p) ==
    /\ pc[p] = "legacy" /\ db_lock = Free
    /\ End(p)
    /\ UNCHANGED <<chain, checkpoint, mempool, expired, verdicts, db_lock, fork_lock, mode, rep>>

LegacyRoll(p) ==
    /\ pc[p] = "legacy" /\ db_lock = Free
    /\ rollback_allowed(Len(chain)) /\ ~MovedAway(p)
    /\ chain' = SubSeq(chain, 1, Len(chain) - 1)
    /\ job' = [job EXCEPT ![p].backup = <<Last(chain)>>]
    /\ Goto(p, "giveback")
    /\ UNCHANGED <<checkpoint, mempool, expired, verdicts, db_lock, fork_lock, mode, rep>>

(* The transactions of the dropped block, db_lock no longer held. *)
LegacyReturn(p) ==
    /\ pc[p] = "giveback"
    /\ \E back \in SUBSET {t \in TxsOn(job[p].backup) : Admissible(t)} :
          mempool' = mempool \cup back
    /\ End(p)
    /\ UNCHANGED <<chain, checkpoint, expired, verdicts, db_lock, fork_lock, mode, rep>>

Legacy(p) == blocknf_legacy(p) \/ LegacySkip(p) \/ LegacyRoll(p) \/ LegacyReturn(p)

(***************************************************************************)
(* The rest of the node: forward sync, admission, expiry of verdicts.      *)
(***************************************************************************)
(* digest_block of a batch of one block above our tip, by an idle handler; *)
(* a longer batch is a sequence of these.                                  *)
DigestLock(p) ==
    /\ pc[p] = "idle" /\ p \notin banlist /\ ~stopping
    /\ db_lock = Free
    /\ \E c \in Serves[p] :
          /\ IsPrefix(chain, c) /\ Len(c) > Len(chain)
          /\ job' = [job EXCEPT ![p].todo = <<c[Len(chain) + 1]>>]
    /\ db_lock' = p
    /\ Goto(p, "digest")
    /\ UNCHANGED <<chain, checkpoint, mempool, expired, verdicts, fork_lock, mode, rep>>

(* A failure is penalised only in a node that counts itself synced. *)
Digest(p) ==
    /\ pc[p] = "digest"
    /\ LET b == Head(job[p].todo) IN
       \/ /\ Accepted(b)
          /\ chain' = Append(chain, b)
          /\ mempool' = mempool \ TxsIn(b)
          /\ checkpoint' = Checkpoint(Len(chain) + 1)
          /\ warnings' = [warnings EXCEPT ![p] = 0]
          /\ score' = [score EXCEPT ![p] = IF p \in Whitelist THEN @ ELSE Clamp(@ + RewardValidBlock)]
          /\ UNCHANGED banlist
       \/ /\ ~Accepted(b)
          /\ mempool' = mempool \ Evicted(b)
          /\ \E points \in {0, PenaltyInvalidBlock} : Punish(p, points, 2)
          /\ UNCHANGED <<chain, checkpoint>>
    /\ db_lock' = Free
    /\ End(p)
    /\ UNCHANGED <<expired, verdicts, fork_lock, mode>>

Merge(t) ==
    /\ db_lock = Free /\ ~stopping
    /\ t \notin mempool /\ Admissible(t)
    /\ mempool' = mempool \cup {t}
    /\ UNCHANGED <<pc, job, chain, checkpoint, expired, verdicts, db_lock, fork_lock, mode, rep>>

(* REFUSE_OLDER_THAN passes over a pooled transaction, which stays until   *)
(* the next purge.                                                         *)
Age(t) ==
    /\ t \in pending
    /\ expired' = expired \cup {t}
    /\ UNCHANGED <<pc, job, chain, checkpoint, mempool, verdicts, db_lock, fork_lock, mode, rep>>

Purge ==
    /\ mempool \cap expired # {}
    /\ mempool' = pending
    /\ UNCHANGED <<pc, job, chain, checkpoint, expired, verdicts, db_lock, fork_lock, mode, rep>>

(* VERDICT_TTL_S passes. *)
Expire(v) ==
    /\ v \in verdicts
    /\ verdicts' = verdicts \ {v}
    /\ UNCHANGED <<pc, job, chain, checkpoint, mempool, expired, db_lock, fork_lock, mode, rep>>

Stop ==
    /\ ~stopping
    /\ stopping' = TRUE
    /\ UNCHANGED <<config, pc, job, chain, checkpoint, mempool, expired, verdicts, db_lock, fork_lock, rep>>

Init ==
    /\ pc = [p \in Peer |-> "idle"]
    /\ job = [p \in Peer |-> NoJob]
    /\ chain = <<Genesis>>
    /\ config \in Configs
    /\ checkpoint = Checkpoint(1)
    /\ mempool = {} /\ expired = {} /\ verdicts = {}
    /\ db_lock = Free /\ fork_lock = Free
    /\ stopping = FALSE
    /\ RepInit

Resolve(p) ==
    \/ Enter(p) \/ MeasureReorg(p) \/ MeasureOther(p)
    \/ LosesTie(p) \/ ServesNothing(p) \/ FetchShort(p) \/ FetchLonger(p)
    \/ CheckLock(p) \/ RollToLocked(p) \/ ApplyHeld(p) \/ Adopt(p) \/ GiveUp(p)
    \/ Restore(p) \/ ReturnTxs(p) \/ Blame(p)

Next ==
    \/ \E p \in Peer : (\E n \in Claims : blocknf(p, n)) \/ Resolve(p) \/ Legacy(p)
                       \/ DigestLock(p) \/ Digest(p)
    \/ \E t \in Tx : Merge(t) \/ Age(t)
    \/ Purge
    \/ \E v \in verdicts : Expire(v)
    \/ Stop

Spec == Init /\ [][Next]_vars

(* Handler threads run, network waits end in an answer or a timeout, and   *)
(* verdicts expire.  The loyal peers q keep saying blocknf, also when no   *)
(* other resolution is running, and every so often answer and serve all of *)
(* their branch; forward sync from them goes on in the same way.           *)
Fairness(q, n) ==
    /\ \A p \in Peer : WF_vars(Resolve(p)) /\ WF_vars(Digest(p))
    /\ \A b \in Block : WF_vars(Expire(<<b, q>>))
    /\ SF_vars(fork_lock = Free /\ blocknf(q, n))
    /\ SF_vars(fork_lock = Free /\ Enter(q))
    /\ SF_vars(MeasureReorg(q) /\ job'[q].src = q)
    /\ SF_vars(FetchLonger(q) /\ job[q].src = q /\ Len(job'[q].held) = n - job[q].anc)
    /\ SF_vars(DigestLock(q))

-----------------------------------------------------------------------------
Adopting == {"apply", "decide", "restore"}
Resolving == Adopting \cup {"measure", "fetch", "lock", "acquire", "return", "blame"}

JobType ==
    [tip : Nat, hash : Block, claim : Nat, checkpoint : Int, src : Peer \cup {Free},
     anc : Nat, held : Seq(Block), backup : Seq(Block), todo : Seq(Block), was : Seq(Block)]

(* Type correctness of the threads and of the node they share. *)
TypeOK ==
    /\ config \in Configs
    /\ pc \in [Peer -> Resolving \cup {"idle", "gate", "digest", "legacy", "giveback"}]
    /\ job \in [Peer -> JobType]
    /\ chain \in Seq(Block) /\ chain # <<>>
    /\ checkpoint \in Int
    /\ mempool \subseteq Tx /\ expired \subseteq Tx
    /\ verdicts \subseteq Block \X Peer
    /\ db_lock \in Peer \cup {Free} /\ fork_lock \in Peer \cup {Free}
    /\ stopping \in BOOLEAN
    /\ RepType

(* One reorganisation at a time, and blocks leave the ledger only under    *)
(* node.db_lock: both locks are owned exactly by the thread that is inside *)
(* the code they guard, and every way out of _blocknf_measured frees them. *)
LocksHeld ==
    \A p \in Peer : /\ pc[p] \in Adopting \cup {"digest"} <=> db_lock = p
                    /\ pc[p] \in Resolving <=> fork_lock = p

(* Whatever branches peers serve, or switch to between the measurement and *)
(* the fetch, the ledger is at every step one chain of valid blocks.       *)
LedgerSound == Sound(chain)

(* "restoring our own branch from the backup": when a held branch fails    *)
(* validation, the ledger ends up with every block it had when db_lock was *)
(* taken, those digested since the measurement included, unless the node   *)
(* is being stopped.                                                       *)
Restored ==
    \A p \in Peer : pc[p] = "blame" /\ ~stopping => IsPrefix(job[p].was, chain)

(* A lone peer cannot take the node below the checkpoint it measured       *)
(* against: more than half of at least MIN_ANSWERS_DEEP peers did not know *)
(* our tip.                                                                *)
DeepNeedsMajority ==
    \A p \in Peer : pc[p] \in Adopting /\ ~floor_ok(p, job[p].anc) =>
        2 * Cardinality({q \in Peer : Denies(q, job[p].tip, job[p].hash)}) > MinAnswersDeep

(* Transactions that come back from a discarded branch never double-spend  *)
(* what was admitted since: of the pooled transactions young enough to     *)
(* count, none is another's rival, also across a reorg.                    *)
PoolAffordable == \A t \in pending : Rivals[t] \cap pending = {}

(* What _blocknf_measured and _blocknf_legacy keep at every step: types,   *)
(* locks, a valid ledger, our own branch after a failure, and the pool.    *)
Consistent == TypeOK /\ LocksHeld /\ LedgerSound /\ Restored /\ PoolAffordable

(* While blocks of a held branch are tried, the ledger still stands for the *)
(* chain that was there when db_lock was taken.                            *)
Busy == \E p \in Peer : pc[p] \in Adopting
Current == job[CHOOSE p \in Peer : pc[p] \in Adopting]
ledger == IF Busy THEN Current.was ELSE chain
L == INSTANCE Ledger WITH legacy <- config.resolution = "legacy", proven <- Proven,
                          measured <- IF Busy THEN Current.tip ELSE Len(chain)

(* The threads together keep what Ledger promises: a branch that fails     *)
(* halfway leaves no trace, one that is adopted is valid as a whole and no *)
(* shorter than the chain it replaces, unless that chain grew after it was *)
(* measured, and no stale announcement costs a block (chain_ops.py).       *)
ImplementsLedger == L!Spec

(* "a shorter chain never displaces ours" (chain_ops.py:108,               *)
(* fork_resolution.py:177).  The height it is compared with is read before *)
(* node.db_lock is taken.                                                  *)
ShorterNeverDisplaces ==
    [][config.resolution = "measured" /\ ~stopping' => Len(ledger') >= Len(ledger)]_vars
=============================================================================
