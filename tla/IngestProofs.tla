---------------------------- MODULE IngestProofs ----------------------------
(***************************************************************************)
(* Block ingestion and admission for any blocks, peers and transactions:   *)
(* the threads, the tips and the locks stay consistent, and neither the    *)
(* ledger nor the pool ever holds a double spend.                          *)
(***************************************************************************)
EXTENDS Ingest, SequenceTheorems, TLAPS

(* What a digest has established about the block it works on, before the   *)
(* block is on the ledger.                                                 *)
Vetted(p) ==
    /\ job[p].blocks # <<>>
    /\ Raised(chain, Current(p)) = ""
    /\ \A k \in DOMAIN TxsOf[Current(p)] : k < job[p].i => Affordable(chain, Current(p), k)

WorkingAt(p) ==
    /\ pc[p] \in {"wait", "judge", "spend"} => last_block = Len(chain)
    /\ pc[p] = "commit" => last_block = Len(chain) + 1
    /\ pc[p] \in {"spend", "commit"} => Vetted(p)
    /\ pc[p] = "commit" => job[p].i > Len(TxsOf[Current(p)]) /\ Current(p) \in projected

Working == \A p \in Peer : WorkingAt(p)

IInv == Consistent /\ Working /\ LedgerSound /\ PoolAffordable

-----------------------------------------------------------------------------
(* The rules of a chain. *)
LEMMA OnAppend ==
  ASSUME NEW c \in Seq(Block), NEW b \in Block
  PROVE  /\ TxsOn(Append(c, b)) = TxsOn(c) \cup TxsIn(b)
         /\ BlocksIn(Append(c, b)) = BlocksIn(c) \cup {b}
<1> DEFINE d == Append(c, b)
<1>1. /\ d \in Seq(Block) /\ Len(d) = Len(c) + 1 /\ Len(c) \in Nat
      /\ \A h \in 1..Len(c) : d[h] = c[h]
      /\ d[Len(c) + 1] = b
      /\ DOMAIN d = 1..Len(d) /\ DOMAIN c = 1..Len(c)
  BY AppendProperties
<1> HIDE DEF d
<1>2. \A h : h \in DOMAIN d <=> h \in DOMAIN c \/ h = Len(c) + 1
  BY <1>1
<1>3. \A h \in DOMAIN c : d[h] = c[h]
  BY <1>1
<1>4. TxsOn(d) = TxsOn(c) \cup TxsIn(b)
  BY <1>1, <1>2, <1>3, Zenon DEF TxsOn
<1>5. BlocksIn(d) = BlocksIn(c) \cup {b}
  BY <1>1, <1>2, <1>3, Zenon DEF BlocksIn
<1> QED
  BY <1>4, <1>5 DEF d

LEMMA Passed ==
  ASSUME NEW c, NEW b, Raised(c, b) = ""
  PROVE  ProvenOver(b, c) /\ TxsIn(b) \cap TxsOn(c) = {}
  BY DEF Raised

(* A valid block keeps a chain sound. *)
LEMMA SoundAppend ==
  ASSUME NEW c \in Seq(Block), c # <<>>, NEW b \in Block, Sound(c), Valid(c, b)
  PROVE  Sound(Append(c, b))
<1> DEFINE d == Append(c, b)
<1>1. /\ d \in Seq(Block) /\ Len(d) = Len(c) + 1 /\ Len(c) \in Nat /\ Len(c) > 0
      /\ \A h \in 1..Len(c) : d[h] = c[h]
      /\ d[Len(c) + 1] = b
      /\ DOMAIN d = 1..Len(d) /\ DOMAIN c = 1..Len(c)
  BY AppendProperties
<1>2. TxsOn(d) = TxsOn(c) \cup TxsIn(b)
  BY OnAppend
<1> HIDE DEF d
<1>3. Parent[b] = c[Len(c)] /\ TxsIn(b) \cap TxsOn(c) = {}
  BY Passed DEF Valid, ProvenOver, Last
<1>4. \A h \in 2..Len(d) : Parent[d[h]] = d[h - 1]
  <2> SUFFICES ASSUME NEW h \in 2..Len(d) PROVE Parent[d[h]] = d[h - 1]
    OBVIOUS
  <2>1. CASE h = Len(c) + 1
    BY <1>1, <1>3, <2>1
  <2>2. CASE h # Len(c) + 1
    <3>1. h \in 2..Len(c) /\ d[h] = c[h] /\ d[h - 1] = c[h - 1]
      BY <1>1, <2>2
    <3> QED
      BY <3>1 DEF Sound
  <2> QED
    BY <2>1, <2>2
<1>5. \A h \in DOMAIN c : TxsIn(c[h]) \subseteq TxsOn(c)
  BY DEF TxsOn
<1>6. \A h \in DOMAIN d : (h \in DOMAIN c /\ d[h] = c[h]) \/ (h = Len(c) + 1 /\ d[h] = b)
  BY <1>1
<1>7. \A h, k \in DOMAIN d : h # k => TxsIn(d[h]) \cap TxsIn(d[k]) = {}
  <2> SUFFICES ASSUME NEW h \in DOMAIN d, NEW k \in DOMAIN d, h # k
               PROVE  TxsIn(d[h]) \cap TxsIn(d[k]) = {}
    OBVIOUS
  <2>1. CASE h \in DOMAIN c /\ d[h] = c[h] /\ k \in DOMAIN c /\ d[k] = c[k]
    BY <2>1 DEF Sound
  <2>2. CASE h \in DOMAIN c /\ d[h] = c[h] /\ k = Len(c) + 1 /\ d[k] = b
    BY <1>3, <1>5, <2>2
  <2>3. CASE k \in DOMAIN c /\ d[k] = c[k] /\ h = Len(c) + 1 /\ d[h] = b
    BY <1>3, <1>5, <2>3
  <2> QED
    BY <1>6, <2>1, <2>2, <2>3
<1>8. \A t \in TxsOn(d) : Rivals[t] \cap TxsOn(d) = {}
  <2>1. ASSUME NEW t \in TxsIn(b) PROVE Rivals[t] \cap TxsOn(d) = {}
    <3>1. PICK i \in DOMAIN TxsOf[b] : t = TxsOf[b][i]
      BY <2>1 DEF TxsIn
    <3> QED
      BY <1>2, <3>1 DEF Valid, Affordable
  <2>2. ASSUME NEW t \in TxsOn(c), NEW u \in TxsIn(b) PROVE u \notin Rivals[t]
    <3>1. t \in Tx
      <4>1. PICK h \in DOMAIN c : t \in TxsIn(c[h])
        BY <2>2 DEF TxsOn
      <4>2. c[h] \in Block
        BY <4>1
      <4>3. PICK i \in DOMAIN TxsOf[c[h]] : t = TxsOf[c[h]][i]
        BY <4>1 DEF TxsIn
      <4>4. TxsOf[c[h]] \in Seq(Tx)
        BY <4>2, BlocksAssumption
      <4> QED
        BY <4>3, <4>4
    <3>2. u \in Rivals[t] => t \in Rivals[u]
      BY <3>1, BlocksAssumption
    <3>3. t \in TxsOn(d)
      BY <1>2
    <3> QED
      BY <2>1, <3>2, <3>3
  <2>3. ASSUME NEW t \in TxsOn(c) PROVE Rivals[t] \cap TxsOn(d) = {}
    BY <1>2, <2>2 DEF Sound
  <2> QED
    BY <1>2, <2>1, <2>3
<1>9. Sound(d)
  BY <1>4, <1>7, <1>8 DEF Sound
<1> QED
  BY <1>9 DEF d

LEMMA SoundGenesis == Sound(<<Genesis>>) /\ BlocksIn(<<Genesis>>) = {Genesis}
<1> DEFINE c == <<Genesis>>
<1>1. Len(c) = 1 /\ DOMAIN c = {1} /\ c[1] = Genesis
  OBVIOUS
<1> HIDE DEF c
<1>2. TxsIn(Genesis) = {}
  BY BlocksAssumption DEF TxsIn
<1>3. TxsOn(c) = {}
  BY <1>1, <1>2 DEF TxsOn
<1>4. Sound(c)
  BY <1>1, <1>3 DEF Sound
<1>5. BlocksIn(c) = {Genesis}
  BY <1>1 DEF BlocksIn
<1> QED
  BY <1>4, <1>5 DEF c

-----------------------------------------------------------------------------
(* Scores stay clamped. *)
LEMMA ClampType ==
  ASSUME NEW x \in Int
  PROVE  Clamp(x) \in (-RepLimit)..RepLimit
  BY ReputationAssumption DEF Clamp

LEMMA PunishType ==
  ASSUME RepType, NEW p \in Peer, NEW points \in Nat, NEW count \in Nat, Punish(p, points, count)
  PROVE  RepType'
<1>1. score[p] \in Int /\ warnings[p] + count \in Nat
  BY ReputationAssumption DEF RepType
<1>2. score' \in [Peer -> (-RepLimit)..RepLimit]
  BY <1>1, ClampType DEF RepType, Punish, rep
<1>3. warnings' \in [Peer -> Nat]
  BY <1>1 DEF RepType, Punish, rep
<1>4. banlist' \subseteq Peer
  BY DEF RepType, Punish, rep
<1> QED
  BY <1>2, <1>3, <1>4 DEF RepType

LEMMA RewardType ==
  ASSUME RepType, NEW p \in Peer, Reward(p)
  PROVE  RepType'
<1>1. score[p] + RewardValidBlock \in Int
  BY ReputationAssumption DEF RepType
<1> QED
  BY <1>1, ClampType DEF RepType, Reward

LEMMA UnbanType ==
  ASSUME RepType, NEW p \in Peer, Unban(p)
  PROVE  RepType'
  BY DEF RepType, Unban

-----------------------------------------------------------------------------
(* Threads.  Only the owner of node.db_lock works on a block. *)
LEMMA OneWorker ==
  ASSUME LocksHeld, NEW p \in Peer, pc[p] \in Critical, NEW q \in Peer, q # p
  PROVE  pc[q] \notin Critical /\ db_lock = p
  BY DEF LocksHeld

LEMMA JobFields ==
  ASSUME NEW j \in JobType
  PROVE  /\ \A n \in Nat : [j EXCEPT !.base = n] \in JobType /\ [j EXCEPT !.i = n] \in JobType
         /\ \A s \in Seq(Block) : [j EXCEPT !.blocks = s] \in JobType
         /\ \A s \in Seq(Tx) : [j EXCEPT !.txs = s] \in JobType
         /\ j.base \in Nat /\ j.blocks \in Seq(Block) /\ j.i \in Nat /\ j.txs \in Seq(Tx)
  BY DEF JobType

LEMMA NoJobType == NoJob \in JobType
  BY DEF NoJob, JobType

LEMMA OwnJob ==
  ASSUME TypeOK, NEW p \in Peer
  PROVE  /\ job[p] \in JobType /\ job[p].blocks \in Seq(Block)
         /\ job[p].i \in Nat /\ job[p].txs \in Seq(Tx)
         /\ job[p].blocks # <<>> => Current(p) \in Block
<1>1. job[p] \in JobType
  BY DEF TypeOK
<1>2. job[p].blocks \in Seq(Block) /\ job[p].i \in Nat /\ job[p].txs \in Seq(Tx)
  BY <1>1, JobFields
<1>3. job[p].blocks # <<>> => Current(p) \in Block
  BY <1>2 DEF Current
<1> QED
  BY <1>1, <1>2, <1>3

Outside == Places \ (Critical \cup {"merging"})

(* A step of a thread outside both locks, which changes nothing they guard. *)
LEMMA Aside ==
  ASSUME IInv, NEW p \in Peer, pc[p] \in Outside, NEW l \in Outside, Goto(p, l),
         NEW j \in JobType, job' = [job EXCEPT ![p] = j],
         UNCHANGED <<node, mempool, expired, db_lock, mempool_lock>>, RepType', stopping' \in BOOLEAN
  PROVE  IInv'
<1>1. UNCHANGED <<chain, last_block, hdd_block, projected>>
  BY Zenon DEF node
<1>2. pc' = [pc EXCEPT ![p] = l] /\ pc \in [Peer -> Places] /\ job \in [Peer -> JobType]
  BY DEF Goto, IInv, Consistent, TypeOK
<1>3. pc' \in [Peer -> Places] /\ job' \in [Peer -> JobType]
  BY <1>2 DEF Outside
<1>4. TypeOK'
  BY <1>1, <1>3 DEF IInv, Consistent, TypeOK
<1>5. \A q \in Peer : /\ q # p => pc'[q] = pc[q] /\ job'[q] = job[q]
                      /\ q = p => pc'[q] = l
  BY <1>2
<1>6. LocksHeld'
  BY <1>5 DEF IInv, Consistent, LocksHeld, Outside
<1>7. TipsAgree'
  BY <1>1 DEF IInv, Consistent, TipsAgree
<1>8. Working'
  <2> SUFFICES ASSUME NEW q \in Peer
               PROVE  WorkingAt(q)'
    BY DEF Working
  <2>1. CASE q = p
    <3>1. pc'[q] \notin Critical
      BY <1>5, <2>1 DEF Outside
    <3> QED
      BY <3>1 DEF Critical, WorkingAt
  <2>2. CASE q # p
    <3>1. pc'[q] = pc[q] /\ job'[q] = job[q]
      BY <1>5, <2>2
    <3>2. Current(q)' = Current(q) /\ (Vetted(q)' <=> Vetted(q))
      BY <1>1, <3>1, Zenon DEF Vetted, Current
    <3> QED
      BY <1>1, <3>1, <3>2 DEF IInv, Working, WorkingAt
  <2> QED
    BY <2>1, <2>2
<1>9. LedgerSound' /\ PoolAffordable'
  BY <1>1 DEF IInv, LedgerSound, PoolAffordable, pending
<1> QED
  BY <1>4, <1>6, <1>7, <1>8, <1>9 DEF IInv, Consistent

(* The end of a digest: the tips are the ledger's again and the lock is free. *)
LEMMA CleanupInv ==
  ASSUME IInv, NEW p \in Peer, pc[p] \in Critical, NEW tip, tip = Len(chain), Cleanup(p, tip),
         UNCHANGED <<chain, projected, mempool, expired, mempool_lock, stopping>>, RepType'
  PROVE  IInv'
<1>1. /\ last_block' = Len(chain) /\ hdd_block' = Len(chain) /\ db_lock' = Free
      /\ pc' = [pc EXCEPT ![p] = "idle"] /\ job' = [job EXCEPT ![p] = NoJob]
      /\ UNCHANGED <<chain, projected, mempool, expired, mempool_lock, stopping>>
  BY Zenon DEF Cleanup, End, Goto
<1>2. /\ pc \in [Peer -> Places] /\ job \in [Peer -> JobType] /\ chain \in Seq(Block)
      /\ Len(chain) \in Nat
  BY DEF IInv, Consistent, TypeOK
<1>3. pc' \in [Peer -> Places] /\ job' \in [Peer -> JobType]
  BY <1>1, <1>2, NoJobType DEF Places
<1>4. TypeOK'
  BY <1>1, <1>2, <1>3 DEF IInv, Consistent, TypeOK
<1>5. \A q \in Peer : /\ q # p => pc'[q] = pc[q] /\ pc[q] \notin Critical
                      /\ q = p => pc'[q] = "idle"
  BY <1>1, <1>2, OneWorker DEF IInv, Consistent
<1>6. LocksHeld'
  <2>1. \A q \in Peer : pc'[q] \notin Critical /\ db_lock' # q
    BY <1>1, <1>5, IngestAssumption DEF Critical
  <2>2. \A q \in Peer : pc'[q] = "merging" <=> mempool_lock' = q
    BY <1>1, <1>5 DEF IInv, Consistent, LocksHeld, Critical
  <2> QED
    BY <2>1, <2>2 DEF LocksHeld
<1>7. TipsAgree'
  BY <1>1, <1>2 DEF IInv, Consistent, TipsAgree
<1>8. Working'
  <2>1. \A q \in Peer : pc'[q] \notin Critical
    BY <1>5 DEF Critical
  <2> QED
    BY <2>1 DEF Working, WorkingAt, Critical
<1>9. LedgerSound' /\ PoolAffordable'
  BY <1>1 DEF IInv, LedgerSound, PoolAffordable, pending
<1> QED
  BY <1>4, <1>6, <1>7, <1>8, <1>9 DEF IInv, Consistent

LEMMA FailInv ==
  ASSUME IInv, NEW p \in Peer, pc[p] \in Critical, NEW reason, Fail(p, reason), UNCHANGED projected
  PROVE  IInv'
<1>1. RepType'
  <2>1. (IF Synced /\ ~Benign(reason) THEN PenaltyInvalidBlock ELSE 0) \in Nat
    BY ReputationAssumption
  <2> QED
    BY <2>1, PunishType DEF Fail, IInv, Consistent, TypeOK
<1> QED
  BY <1>1, CleanupInv DEF Fail, Resync

(* The sync exchange, and everything else that waits outside the locks. *)
LEMMA ExchangeInv ==
  ASSUME IInv, NEW p \in Peer,
         \/ SendHash(p) \/ blocksfnd(p) \/ Receive(p) \/ ReceiveFails(p) \/ digest_block(p)
         \/ \E b \in Mined : submit_block(p, b)
         \/ \E txs \in Offers : MergeCheck(p, txs) \/ submit_transaction(p, txs)
         \/ MergeWait(p)
  PROVE  IInv'
<1>1. /\ job[p] \in JobType /\ job \in [Peer -> JobType] /\ hdd_block \in Nat /\ RepType
      /\ stopping \in BOOLEAN
  BY DEF IInv, Consistent, TypeOK
<1>2. {"idle", "asked", "fetching", "deliver", "acquire", "await", "merge"} \subseteq Outside
  BY DEF Outside, Places, Critical
<1>3. UNCHANGED rep => RepType'
  BY <1>1 DEF rep, RepType
<1>4. UNCHANGED job => job' = [job EXCEPT ![p] = job[p]]
  BY <1>1
<1>5. ASSUME NEW l \in Outside, NEW j \in JobType, pc[p] \in Outside, Goto(p, l),
             job' = [job EXCEPT ![p] = j],
             UNCHANGED <<node, mempool, expired, db_lock, mempool_lock, rep, stopping>>
      PROVE  IInv'
  BY <1>1, <1>3, <1>5, Aside
<1>6. CASE SendHash(p)
  <2>1. /\ pc[p] = "idle" /\ Goto(p, "asked")
        /\ job' = [job EXCEPT ![p] = [job[p] EXCEPT !.base = hdd_block]]
        /\ UNCHANGED <<node, mempool, expired, db_lock, mempool_lock, rep, stopping>>
    BY <1>6, Zenon DEF SendHash
  <2>2. [job[p] EXCEPT !.base = hdd_block] \in JobType
    BY <1>1, JobFields
  <2> QED
    BY <1>2, <1>5, <2>1, <2>2
<1>7. CASE blocksfnd(p) \/ digest_block(p)
  <2>1. /\ pc[p] \in {"asked", "deliver"}
        /\ UNCHANGED <<node, mempool, expired, db_lock, mempool_lock, rep, stopping>>
        /\ \/ Goto(p, "fetching") /\ UNCHANGED job
           \/ Goto(p, "acquire") /\ UNCHANGED job
           \/ Goto(p, "idle") /\ job' = [job EXCEPT ![p] = NoJob]
    BY <1>7, Zenon DEF blocksfnd, digest_block, End
  <2> QED
    BY <1>1, <1>2, <1>4, <1>5, <2>1, NoJobType
<1>8. CASE Receive(p)
  <2>1. pc[p] = "fetching" /\ Goto(p, "deliver")
        /\ UNCHANGED <<node, mempool, expired, db_lock, mempool_lock, rep, stopping>>
    BY <1>8, Zenon DEF Receive
  <2>2. PICK c \in Serves[p] :
          job' = [job EXCEPT ![p] = [job[p] EXCEPT !.blocks = SubSeq(c, job[p].base + 1, Len(c))]]
    BY <1>8, Zenon DEF Receive
  <2>3. SubSeq(c, job[p].base + 1, Len(c)) \in Seq(Block)
    <3>1. c \in Seq(Block) /\ job[p].base \in Nat /\ Len(c) \in Nat
      BY <1>1, IngestAssumption, JobFields
    <3>2. \A h \in (job[p].base + 1)..Len(c) : c[h] \in Block
      BY <3>1
    <3>3. job[p].base + 1 \in Int /\ Len(c) \in Int
      BY <3>1
    <3> QED
      BY <3>2, <3>3, SubSeqProperties
  <2>4. [job[p] EXCEPT !.blocks = SubSeq(c, job[p].base + 1, Len(c))] \in JobType
    BY <1>1, <2>3, JobFields
  <2> QED
    BY <1>2, <1>5, <2>1, <2>2, <2>4
<1>9. CASE ReceiveFails(p)
  <2>1. /\ pc[p] = "fetching" /\ Goto(p, "idle") /\ job' = [job EXCEPT ![p] = NoJob]
        /\ Punish(p, 0, 2) /\ UNCHANGED <<node, mempool, expired, db_lock, mempool_lock, stopping>>
    BY <1>9, Zenon DEF ReceiveFails, End
  <2>2. RepType'
    BY <1>1, <2>1, PunishType
  <2> QED
    BY <1>1, <1>2, <2>1, <2>2, NoJobType, Aside
<1>10. ASSUME NEW b \in Mined, submit_block(p, b) PROVE IInv'
  <2>1. /\ pc[p] = "idle" /\ Goto(p, "deliver")
        /\ job' = [job EXCEPT ![p] = [job[p] EXCEPT !.blocks = <<b>>]]
        /\ UNCHANGED <<node, mempool, expired, db_lock, mempool_lock, rep, stopping>>
    BY <1>10, Zenon DEF submit_block
  <2>2. <<b>> \in Seq(Block)
    BY IngestAssumption
  <2>3. [job[p] EXCEPT !.blocks = <<b>>] \in JobType
    BY <1>1, <2>2, JobFields
  <2> QED
    BY <1>2, <1>5, <2>1, <2>3
<1>11. ASSUME NEW txs \in Offers, MergeCheck(p, txs) \/ submit_transaction(p, txs) PROVE IInv'
  <2>1. /\ pc[p] = "idle" /\ (Goto(p, "merge") \/ Goto(p, "await"))
        /\ job' = [job EXCEPT ![p] = [job[p] EXCEPT !.txs = txs]]
        /\ UNCHANGED <<node, mempool, expired, db_lock, mempool_lock, rep, stopping>>
    BY <1>11, Zenon DEF MergeCheck, submit_transaction
  <2>2. [job[p] EXCEPT !.txs = txs] \in JobType
    BY <1>1, IngestAssumption, JobFields
  <2> QED
    BY <1>2, <1>5, <2>1, <2>2
<1>12. CASE MergeWait(p)
  <2>1. /\ pc[p] = "await" /\ Goto(p, "merge") /\ UNCHANGED job
        /\ UNCHANGED <<node, mempool, expired, db_lock, mempool_lock, rep, stopping>>
    BY <1>12, Zenon DEF MergeWait
  <2> QED
    BY <1>1, <1>2, <1>4, <1>5, <2>1
<1> QED
  BY <1>6, <1>7, <1>8, <1>9, <1>10, <1>11, <1>12, Zenon

-----------------------------------------------------------------------------
(* The digest, step by step.  A step of the owner of node.db_lock that stays *)
(* in its critical section only has to answer for its own work.              *)
LEMMA OwnWork ==
  ASSUME IInv, NEW p \in Peer, NEW l \in Critical, Goto(p, l), db_lock' = p,
         pc[p] \in Critical \/ (pc[p] = "acquire" /\ db_lock = Free),
         UNCHANGED mempool_lock, WorkingAt(p)', TypeOK'
  PROVE  Working' /\ LocksHeld'
<1>1. pc' = [pc EXCEPT ![p] = l] /\ pc \in [Peer -> Places]
  BY DEF Goto, IInv, Consistent, TypeOK
<1>2. \A q \in Peer : q # p => pc[q] \notin Critical
  BY IngestAssumption DEF IInv, Consistent, LocksHeld
<1>3. \A q \in Peer : /\ q # p => pc'[q] = pc[q] /\ pc'[q] \notin Critical
                      /\ q = p => pc'[q] = l
  BY <1>1, <1>2
<1>4. \A q \in Peer : WorkingAt(q)'
  <2> SUFFICES ASSUME NEW q \in Peer, q # p PROVE WorkingAt(q)'
    OBVIOUS
  <2>1. pc'[q] \notin {"wait", "judge", "spend", "commit"}
    BY <1>3 DEF Critical
  <2> QED
    BY <2>1 DEF WorkingAt
<1>5. Working'
  BY <1>4 DEF Working
<1>6. LocksHeld'
  <2>1. pc[p] # "merging" /\ l # "merging"
    BY DEF Critical
  <2> QED
    BY <1>3, <2>1 DEF LocksHeld, IInv, Consistent
<1> QED
  BY <1>5, <1>6

LEMMA WorkNow ==
  ASSUME IInv, NEW p \in Peer
  PROVE  WorkingAt(p)
  BY DEF IInv, Working

LEMMA AcquireInv ==
  ASSUME IInv, NEW p \in Peer, Acquire(p) \/ WaitForMempool(p)
  PROVE  IInv'
<1>1. /\ UNCHANGED <<job, chain, last_block, hdd_block, projected, mempool, expired, mempool_lock, stopping>>
      /\ UNCHANGED <<score, warnings, banlist>>
      /\ db_lock' = p
      /\ \/ pc[p] = "acquire" /\ db_lock = Free /\ Goto(p, "wait")
         \/ pc[p] = "wait" /\ Goto(p, "judge")
  <2>1. WaitForMempool(p) => db_lock = p
    BY DEF WaitForMempool, IInv, Consistent, LocksHeld, Critical
  <2> QED
    BY <2>1, Zenon DEF Acquire, WaitForMempool, node, rep
<1>2. TypeOK'
  BY <1>1 DEF IInv, Consistent, TypeOK, RepType, Goto, Places, Critical
<1>3. last_block = Len(chain)
  BY <1>1 DEF IInv, Consistent, TipsAgree, Working, WorkingAt
<1>4. pc'[p] \in {"wait", "judge"}
  BY <1>1 DEF Goto, IInv, Consistent, TypeOK
<1>5. WorkingAt(p)'
  BY <1>1, <1>3, <1>4 DEF WorkingAt
<1>6. Working' /\ LocksHeld'
  BY <1>1, <1>2, <1>5, OwnWork DEF Critical
<1>7. TipsAgree'
  <2>1. db_lock' # Free
    BY <1>1, IngestAssumption
  <2> QED
    BY <1>1, <2>1 DEF IInv, Consistent, TipsAgree
<1>8. LedgerSound' /\ PoolAffordable'
  BY <1>1 DEF IInv, LedgerSound, PoolAffordable, pending
<1> QED
  BY <1>2, <1>6, <1>7, <1>8 DEF IInv, Consistent

LEMMA JudgeInv ==
  ASSUME IInv, NEW p \in Peer, JudgeBlock(p)
  PROVE  IInv'
<1>1. pc[p] = "judge" /\ pc[p] \in Critical
  BY DEF JudgeBlock, Critical
<1>2. last_block = Len(chain) /\ db_lock = p
  BY <1>1 DEF IInv, Consistent, LocksHeld, Working, WorkingAt
<1>3. CASE Succeed(p)
  <2>1. Reward(p) /\ Cleanup(p, last_block) /\ UNCHANGED <<chain, projected, mempool, expired, mempool_lock, stopping>>
    BY <1>3, Zenon DEF Succeed
  <2>2. RepType'
    BY <2>1, RewardType DEF IInv, Consistent, TypeOK
  <2> QED
    BY <1>1, <1>2, <2>1, <2>2, CleanupInv
<1>4. CASE Fail(p, Raised(chain, Current(p))) /\ UNCHANGED projected
  BY <1>1, <1>4, FailInv
<1>5. CASE /\ job[p].blocks # <<>> /\ Raised(chain, Current(p)) = ""
           /\ job' = [job EXCEPT ![p].i = 1] /\ Goto(p, "spend")
           /\ UNCHANGED <<node, mempool, expired, db_lock, mempool_lock, rep, stopping>>
  <2>1. UNCHANGED <<chain, last_block, hdd_block, projected, score, warnings, banlist>>
    BY <1>5, Zenon DEF node, rep
  <2>2. /\ job \in [Peer -> JobType] /\ pc \in [Peer -> Places] /\ job[p] \in JobType
        /\ job' = [job EXCEPT ![p] = [job[p] EXCEPT !.i = 1]]
    BY <1>5 DEF IInv, Consistent, TypeOK
  <2>3. [job[p] EXCEPT !.i = 1] \in JobType
    BY <2>2, JobFields
  <2>4. job' \in [Peer -> JobType] /\ pc' \in [Peer -> Places]
    BY <1>5, <2>2, <2>3 DEF Goto, Places, Critical
  <2>5. TypeOK'
    BY <1>5, <2>1, <2>4 DEF IInv, Consistent, TypeOK, RepType
  <2>6. job'[p].blocks = job[p].blocks /\ job'[p].i = 1 /\ pc'[p] = "spend"
    BY <1>5, <2>2 DEF Goto, JobType
  <2>7. Vetted(p)'
    <3>1. Current(p)' = Current(p)
      BY <2>6 DEF Current
    <3>2. Current(p) \in Block
      BY <1>5, OwnJob DEF IInv, Consistent
    <3>3. \A k \in DOMAIN TxsOf[Current(p)] : ~(k < 1)
      BY <3>2, BlocksAssumption
    <3>4. Raised(chain, Current(p))' = ""
      BY <1>5, <2>1, <3>1, Zenon DEF Current
    <3> QED
      BY <1>5, <2>6, <3>1, <3>3, <3>4 DEF Vetted
  <2>8. WorkingAt(p)'
    BY <1>2, <2>1, <2>6, <2>7 DEF WorkingAt
  <2>9. Working' /\ LocksHeld'
    BY <1>1, <1>2, <1>5, <2>5, <2>8, OwnWork DEF Critical
  <2>10. TipsAgree' /\ LedgerSound' /\ PoolAffordable'
    BY <1>5, <2>1 DEF IInv, Consistent, TipsAgree, LedgerSound, PoolAffordable, pending
  <2> QED
    BY <2>5, <2>9, <2>10 DEF IInv, Consistent
<1> QED
  BY <1>3, <1>4, <1>5, Zenon DEF JudgeBlock

(* Transactions leave the pool one by one; those looked at so far are affordable. *)
LEMMA SpendInv ==
  ASSUME IInv, NEW p \in Peer, process_transaction(p)
  PROVE  IInv'
<1>1. pc[p] = "spend" /\ pc[p] \in Critical /\ job[p].i <= Len(TxsOf[Current(p)])
  BY DEF process_transaction, Critical
<1>2. last_block = Len(chain) /\ db_lock = p /\ Vetted(p)
  BY <1>1 DEF IInv, Consistent, LocksHeld, Working, WorkingAt
<1>3. CASE Fail(p, "overspend") /\ UNCHANGED projected
  BY <1>1, <1>3, FailInv
<1>4. CASE /\ SpendAllowed(p)
           /\ mempool' = mempool \ {TxsOf[Current(p)][job[p].i]} /\ expired' = expired
           /\ job' = [job EXCEPT ![p].i = @ + 1]
           /\ UNCHANGED <<pc, node, db_lock, mempool_lock, rep, stopping>>
  <2>1. UNCHANGED <<pc, chain, last_block, hdd_block, projected, score, warnings, banlist>>
    BY <1>4, Zenon DEF node, rep
  <2>2. /\ job \in [Peer -> JobType] /\ pc \in [Peer -> Places] /\ job[p] \in JobType
        /\ job[p].i \in Nat /\ job[p].i + 1 \in Nat
        /\ job' = [job EXCEPT ![p] = [job[p] EXCEPT !.i = job[p].i + 1]]
    <3>1. job[p].i \in Nat /\ job[p] \in JobType
      BY OwnJob DEF IInv, Consistent
    <3>2. job \in [Peer -> JobType] /\ pc \in [Peer -> Places]
      BY DEF IInv, Consistent, TypeOK
    <3>3. job' = [job EXCEPT ![p] = [job[p] EXCEPT !.i = job[p].i + 1]]
      BY <1>4, Zenon
    <3> QED
      BY <3>1, <3>2, <3>3
  <2>3. [job[p] EXCEPT !.i = job[p].i + 1] \in JobType
    BY <2>2, JobFields
  <2>4. job' \in [Peer -> JobType] /\ mempool' \subseteq Tx
    BY <1>4, <2>2, <2>3 DEF IInv, Consistent, TypeOK
  <2>5. TypeOK'
    BY <1>4, <2>1, <2>4 DEF IInv, Consistent, TypeOK, RepType
  <2>6. job'[p].blocks = job[p].blocks /\ job'[p].i = job[p].i + 1 /\ pc'[p] = "spend"
    BY <1>1, <2>1, <2>2 DEF JobType
  <2>7. Vetted(p)'
    <3>1. Current(p)' = Current(p)
      BY <2>6 DEF Current
    <3>2. Current(p) \in Block
      BY <1>2, OwnJob DEF IInv, Consistent, Vetted
    <3>3. DOMAIN TxsOf[Current(p)] \subseteq Nat
      BY <3>2, BlocksAssumption
    <3>4. \A k \in DOMAIN TxsOf[Current(p)] : k < job[p].i + 1 => k < job[p].i \/ k = job[p].i
      BY <2>2, <3>3
    <3>5. \A k \in DOMAIN TxsOf[Current(p)] :
            k < job[p].i + 1 => Affordable(chain, Current(p), k)
      BY <1>2, <1>4, <3>4 DEF Vetted, SpendAllowed
    <3>6. Raised(chain, Current(p))' = "" /\ (job[p].blocks)' # <<>>
      BY <1>2, <2>1, <2>6, <3>1, Zenon DEF Vetted
    <3>7. \A k : Affordable(chain, Current(p), k)' <=> Affordable(chain, Current(p), k)
      BY <2>1, <3>1, Zenon DEF Affordable
    <3> QED
      BY <2>6, <3>1, <3>5, <3>6, <3>7 DEF Vetted
  <2>8. WorkingAt(p)'
    BY <1>2, <2>1, <2>6, <2>7 DEF WorkingAt
  <2>9. Goto(p, "spend")
    BY <1>1, <2>1, <2>2 DEF Goto
  <2>10. Working' /\ LocksHeld'
    BY <1>1, <1>2, <1>4, <2>5, <2>8, <2>9, OwnWork DEF Critical
  <2>11. TipsAgree' /\ LedgerSound' /\ PoolAffordable'
    BY <1>4, <2>1 DEF IInv, Consistent, TipsAgree, LedgerSound, PoolAffordable, pending
  <2> QED
    BY <2>5, <2>10, <2>11 DEF IInv, Consistent
<1> QED
  BY <1>3, <1>4, Zenon DEF process_transaction

LEMMA HooksInv ==
  ASSUME IInv, NEW p \in Peer, execute_block_hooks(p)
  PROVE  IInv'
<1>1. /\ pc[p] = "spend" /\ pc[p] \in Critical /\ job[p].i > Len(TxsOf[Current(p)])
      /\ last_block' = last_block + 1 /\ projected' = projected \cup {Current(p)}
      /\ Goto(p, "commit")
      /\ UNCHANGED <<job, chain, hdd_block, mempool, expired, db_lock, mempool_lock, stopping>>
      /\ UNCHANGED <<score, warnings, banlist>>
  BY Zenon DEF execute_block_hooks, Dispatch, Critical, rep
<1>2. last_block = Len(chain) /\ db_lock = p /\ Vetted(p)
  BY <1>1 DEF IInv, Consistent, LocksHeld, Working, WorkingAt
<1>3. /\ Current(p) \in Block /\ pc \in [Peer -> Places] /\ chain \in Seq(Block)
      /\ Len(chain) \in Nat
  <2>1. Current(p) \in Block
    BY <1>2, OwnJob DEF IInv, Consistent, Vetted
  <2> QED
    BY <2>1 DEF IInv, Consistent, TypeOK
<1>4. pc' \in [Peer -> Places] /\ pc'[p] = "commit"
  BY <1>1, <1>3 DEF Goto, Places, Critical
<1>5. TypeOK'
  BY <1>1, <1>3, <1>4 DEF IInv, Consistent, TypeOK, RepType
<1>6. WorkingAt(p)'
  <2>1. Current(p)' = Current(p) /\ (Vetted(p)' <=> Vetted(p))
    BY <1>1, Zenon DEF Vetted, Current
  <2> QED
    BY <1>1, <1>2, <1>4, <2>1 DEF WorkingAt
<1>7. Working' /\ LocksHeld'
  BY <1>1, <1>2, <1>5, <1>6, OwnWork DEF Critical
<1>8. TipsAgree'
  <2>1. db_lock' # Free
    BY <1>1, <1>2, IngestAssumption
  <2> QED
    BY <1>1, <1>2, <1>3, <2>1 DEF IInv, Consistent, TipsAgree
<1>9. LedgerSound' /\ PoolAffordable'
  BY <1>1 DEF IInv, LedgerSound, PoolAffordable, pending
<1> QED
  BY <1>5, <1>7, <1>8, <1>9 DEF IInv, Consistent

(* The commit: only a block that is valid on this very chain is appended. *)
LEMMA CommitInv ==
  ASSUME IInv, NEW p \in Peer, commit_block(p)
  PROVE  IInv'
<1>1. pc[p] = "commit" /\ pc[p] \in Critical
  BY DEF commit_block, Critical
<1>2. /\ last_block = Len(chain) + 1 /\ db_lock = p /\ Vetted(p)
      /\ job[p].i > Len(TxsOf[Current(p)]) /\ Current(p) \in projected
  BY <1>1 DEF IInv, Consistent, LocksHeld, Working, WorkingAt
<1>3. CASE Fail(p, "post-fork-only sender") /\ UNCHANGED projected
  BY <1>1, <1>3, FailInv
<1>4. CASE /\ Fault[Current(p)] # "sender"
           /\ chain' = Append(chain, Current(p)) /\ Unban(p)
           /\ job' = [job EXCEPT ![p].blocks = Tail(@)] /\ Goto(p, "judge")
           /\ UNCHANGED <<last_block, hdd_block, projected, mempool, expired, db_lock, mempool_lock, stopping>>
  <2>1. /\ job \in [Peer -> JobType] /\ pc \in [Peer -> Places] /\ job[p] \in JobType
        /\ job[p].blocks \in Seq(Block) /\ job[p].blocks # <<>> /\ job[p].i \in Nat
        /\ chain \in Seq(Block) /\ chain # <<>> /\ Len(chain) \in Nat
    <3>1. /\ job[p].blocks \in Seq(Block) /\ job[p].i \in Nat /\ job[p] \in JobType
          /\ job[p].blocks # <<>>
      BY <1>2, OwnJob DEF IInv, Consistent, Vetted
    <3> QED
      BY <3>1 DEF IInv, Consistent, TypeOK
  <2>2. Current(p) \in Block /\ Tail(job[p].blocks) \in Seq(Block)
    BY <2>1 DEF Current
  <2>3. [job[p] EXCEPT !.blocks = Tail(job[p].blocks)] \in JobType
    BY <2>1, <2>2, JobFields
  <2>4. job' \in [Peer -> JobType] /\ pc' \in [Peer -> Places] /\ pc'[p] = "judge"
    BY <1>4, <2>1, <2>3 DEF Goto, Places, Critical
  <2>5. chain' \in Seq(Block) /\ chain' # <<>> /\ Len(chain') = Len(chain) + 1
    BY <1>4, <2>1, <2>2, AppendProperties
  <2>6. RepType'
    BY <1>4, UnbanType DEF IInv, Consistent, TypeOK
  <2>7. TypeOK'
    BY <1>4, <2>4, <2>5, <2>6 DEF IInv, Consistent, TypeOK
  <2>8. WorkingAt(p)'
    BY <1>2, <1>4, <2>4, <2>5 DEF WorkingAt
  <2>9. Working' /\ LocksHeld'
    BY <1>1, <1>2, <1>4, <2>7, <2>8, OwnWork DEF Critical
  <2>10. TipsAgree'
    <3>1. db_lock' # Free
      BY <1>2, <1>4, IngestAssumption
    <3>2. BlocksIn(chain') = BlocksIn(chain) \cup {Current(p)}
      BY <1>4, <2>1, <2>2, OnAppend
    <3>3. BlocksIn(chain') \subseteq projected'
      BY <1>2, <1>4, <3>2 DEF IInv, Consistent, TipsAgree
    <3>4. hdd_block' <= Len(chain')
      BY <1>4, <2>1, <2>5 DEF IInv, Consistent, TipsAgree, TypeOK
    <3>5. last_block' - Len(chain') \in 0..1
      BY <1>2, <1>4, <2>1, <2>5
    <3> QED
      BY <3>1, <3>3, <3>4, <3>5 DEF TipsAgree
  <2>11. Valid(chain, Current(p))
    <3>1. TxsOf[Current(p)] \in Seq(Tx) /\ Len(TxsOf[Current(p)]) \in Nat
      BY <2>2, BlocksAssumption
    <3>2. \A k \in DOMAIN TxsOf[Current(p)] : k < job[p].i
      BY <1>2, <2>1, <3>1
    <3> QED
      BY <1>2, <1>4, <3>2 DEF Vetted, Valid
  <2>12. LedgerSound'
    BY <1>4, <2>1, <2>2, <2>11, SoundAppend DEF IInv, LedgerSound
  <2>13. PoolAffordable'
    BY <1>4 DEF IInv, PoolAffordable, pending
  <2> QED
    BY <2>7, <2>9, <2>10, <2>12, <2>13 DEF IInv, Consistent
<1> QED
  BY <1>3, <1>4, Zenon DEF commit_block

-----------------------------------------------------------------------------
(* The pool.  The merges leave every job but its transaction list alone, and   *)
(* no digest depends on the pool.                                              *)
LEMMA PoolStep ==
  ASSUME IInv, NEW p \in Peer, NEW j \in JobType, job' = [job EXCEPT ![p] = j],
         pc[p] \in {"merge", "merging"}, NEW l \in Places \ Critical, Goto(p, l),
         UNCHANGED <<chain, last_block, hdd_block, projected, db_lock, stopping>>,
         UNCHANGED <<score, warnings, banlist>>,
         mempool' \subseteq Tx, expired' = expired, mempool_lock' \in Peer \cup {Free},
         \A q \in Peer : pc'[q] = "merging" <=> mempool_lock' = q,
         PoolAffordable'
  PROVE  IInv'
<1>1. pc' = [pc EXCEPT ![p] = l] /\ pc \in [Peer -> Places] /\ job \in [Peer -> JobType]
  BY DEF Goto, IInv, Consistent, TypeOK
<1>2. pc' \in [Peer -> Places] /\ job' \in [Peer -> JobType]
  BY <1>1
<1>3. TypeOK'
  BY <1>2 DEF IInv, Consistent, TypeOK, RepType
<1>4. \A q \in Peer : /\ q # p => pc'[q] = pc[q] /\ job'[q] = job[q]
                      /\ q = p => pc'[q] = l
  BY <1>1
<1>5. LocksHeld'
  <2>1. \A q \in Peer : pc'[q] \in Critical <=> pc[q] \in Critical
    BY <1>4 DEF Critical
  <2> QED
    BY <2>1 DEF IInv, Consistent, LocksHeld
<1>6. Working'
  <2> SUFFICES ASSUME NEW q \in Peer
               PROVE  WorkingAt(q)'
    BY DEF Working
  <2>1. CASE q = p
    BY <1>4, <2>1 DEF Critical, WorkingAt
  <2>2. CASE q # p
    <3>1. pc'[q] = pc[q] /\ job'[q] = job[q]
      BY <1>4, <2>2
    <3>2. Current(q)' = Current(q) /\ (Vetted(q)' <=> Vetted(q))
      BY <3>1, Zenon DEF Vetted, Current
    <3> QED
      BY <3>1, <3>2 DEF IInv, Working, WorkingAt
  <2> QED
    BY <2>1, <2>2
<1>7. TipsAgree' /\ LedgerSound'
  BY DEF IInv, Consistent, TipsAgree, LedgerSound
<1> QED
  BY <1>3, <1>5, <1>6, <1>7 DEF IInv, Consistent

(* Pending spends are counted under MEMPOOL.lock. *)
LEMMA PoolShrinks ==
  ASSUME PoolAffordable, mempool' \subseteq mempool, expired \subseteq expired'
  PROVE  PoolAffordable'
<1>1. pending' \subseteq pending
  BY DEF pending
<1> QED
  BY <1>1 DEF PoolAffordable

LEMMA PoolGrows ==
  ASSUME PoolAffordable, mempool \subseteq Tx, NEW t \in Tx, Admitted(t),
         mempool' = mempool \cup {t}, expired' = expired
  PROVE  PoolAffordable'
<1>1. Rivals[t] \cap pending = {} /\ t \notin Rivals[t]
  BY BlocksAssumption DEF Admitted
<1>2. \A u \in pending : t \notin Rivals[u]
  BY <1>1, BlocksAssumption DEF pending
<1>3. pending' \subseteq pending \cup {t}
  BY DEF pending
<1> QED
  BY <1>1, <1>2, <1>3 DEF PoolAffordable

LEMMA MergeInv ==
  ASSUME IInv, NEW p \in Peer, MergeLock(p) \/ MergeTx(p) \/ MergeEnd(p)
  PROVE  IInv'
<1>1. /\ TypeOK /\ LocksHeld /\ PoolAffordable /\ mempool \subseteq Tx
      /\ pc \in [Peer -> Places] /\ job \in [Peer -> JobType]
      /\ job[p] \in JobType /\ job[p].txs \in Seq(Tx)
  BY OwnJob DEF IInv, Consistent, TypeOK
<1>2. /\ UNCHANGED <<chain, last_block, hdd_block, projected, db_lock, stopping>>
      /\ UNCHANGED <<score, warnings, banlist>>
      /\ pc[p] \in {"merge", "merging"}
  BY Zenon DEF MergeLock, MergeTx, MergeEnd, node, rep
<1>3. {"merging", "idle"} \subseteq Places \ Critical
  BY DEF Places, Critical
<1>4. CASE MergeLock(p)
  <2>1. /\ pc[p] = "merge" /\ mempool_lock = Free /\ mempool_lock' = p /\ Goto(p, "merging")
        /\ UNCHANGED <<job, mempool, expired>>
    BY <1>4, Zenon DEF MergeLock
  <2>2. job' = [job EXCEPT ![p] = job[p]]
    BY <1>1, <2>1
  <2>3. \A q \in Peer : pc'[q] = "merging" <=> mempool_lock' = q
    BY <1>1, <2>1, IngestAssumption DEF Goto, LocksHeld
  <2>4. PoolAffordable'
    BY <1>1, <2>1, PoolShrinks
  <2> QED
    BY <1>1, <1>2, <1>3, <2>1, <2>2, <2>3, <2>4, PoolStep
<1>5. CASE MergeTx(p)
  <2> DEFINE t == Head(job[p].txs)
  <2>1. /\ pc[p] = "merging" /\ job[p].txs # <<>> /\ UNCHANGED <<pc, expired, mempool_lock>>
        /\ job' = [job EXCEPT ![p] = [job[p] EXCEPT !.txs = Tail(job[p].txs)]]
    BY <1>5, Zenon DEF MergeTx
  <2>2. \/ mempool' = mempool
        \/ mempool' = mempool \ {t}
        \/ Admitted(t) /\ mempool' = mempool \cup {t}
    BY <1>5, Zenon DEF MergeTx
  <2>3. t \in Tx /\ Tail(job[p].txs) \in Seq(Tx)
    BY <1>1, <2>1
  <2>4. [job[p] EXCEPT !.txs = Tail(job[p].txs)] \in JobType
    BY <1>1, <2>3, JobFields
  <2> HIDE DEF t
  <2>5. mempool' \subseteq Tx
    BY <1>1, <2>2, <2>3
  <2>6. PoolAffordable'
    BY <1>1, <2>1, <2>2, <2>3, PoolShrinks, PoolGrows
  <2>7. Goto(p, "merging")
    BY <1>1, <2>1 DEF Goto
  <2>8. \A q \in Peer : pc'[q] = "merging" <=> mempool_lock' = q
    BY <1>1, <2>1 DEF LocksHeld
  <2>9. mempool_lock' \in Peer \cup {Free}
    BY <1>1, <2>1 DEF TypeOK
  <2> QED
    BY <1>2, <1>3, <2>1, <2>4, <2>5, <2>6, <2>7, <2>8, <2>9, PoolStep
<1>6. CASE MergeEnd(p)
  <2>1. /\ pc[p] = "merging" /\ mempool_lock' = Free /\ Goto(p, "idle") /\ UNCHANGED <<mempool, expired>>
        /\ job' = [job EXCEPT ![p] = NoJob]
    BY <1>6, Zenon DEF MergeEnd, End
  <2>2. \A q \in Peer : pc'[q] = "merging" <=> mempool_lock' = q
    BY <1>1, <2>1, IngestAssumption DEF Goto, LocksHeld
  <2>3. PoolAffordable'
    BY <1>1, <2>1, PoolShrinks
  <2> QED
    BY <1>1, <1>2, <1>3, <2>1, <2>2, <2>3, NoJobType, PoolStep
<1> QED
  BY <1>4, <1>5, <1>6

LEMMA RestInv ==
  ASSUME IInv, (\E t \in Tx : Age(t)) \/ Purge \/ Stop \/ UNCHANGED vars
  PROVE  IInv'
<1>1. /\ UNCHANGED <<pc, job, chain, last_block, hdd_block, projected, db_lock, mempool_lock>>
      /\ UNCHANGED <<score, warnings, banlist>>
      /\ mempool' \subseteq mempool /\ expired \subseteq expired' /\ expired' \subseteq Tx
      /\ stopping' = stopping \/ stopping' = TRUE
  <2>0. expired \subseteq Tx
    BY DEF IInv, Consistent, TypeOK
  <2>1. CASE \E t \in Tx : Age(t)
    <3>1. PICK t \in Tx : Age(t)
      BY <2>1
    <3> QED
      BY <2>0, <3>1, Zenon DEF Age, node, rep
  <2>2. CASE Purge
    BY <2>0, <2>2, Zenon DEF Purge, pending, node, rep
  <2>3. CASE Stop
    BY <2>0, <2>3, Zenon DEF Stop, node, rep
  <2>4. CASE UNCHANGED vars
    BY <2>0, <2>4, Zenon DEF vars, node, rep
  <2> QED
    BY <2>1, <2>2, <2>3, <2>4
<1>2. stopping' \in BOOLEAN
  BY <1>1, Zenon DEF IInv, Consistent, TypeOK
<1>3. TypeOK'
  BY <1>1, <1>2 DEF IInv, Consistent, TypeOK, RepType
<1>4. LocksHeld' /\ TipsAgree' /\ LedgerSound'
  BY <1>1 DEF IInv, Consistent, LocksHeld, TipsAgree, LedgerSound
<1>5. PoolAffordable'
  BY <1>1, PoolShrinks DEF IInv
<1>6. Working'
  <2> SUFFICES ASSUME NEW q \in Peer
               PROVE  WorkingAt(q)'
    BY DEF Working
  <2>1. Current(q)' = Current(q) /\ (Vetted(q)' <=> Vetted(q))
    BY <1>1, Zenon DEF Vetted, Current
  <2> QED
    BY <1>1, <2>1 DEF IInv, Working, WorkingAt
<1> QED
  BY <1>3, <1>4, <1>5, <1>6 DEF IInv, Consistent

-----------------------------------------------------------------------------
LEMMA InitInv == Init => IInv
<1> SUFFICES ASSUME Init PROVE IInv
  OBVIOUS
<1>1. /\ pc = [p \in Peer |-> "idle"] /\ job = [p \in Peer |-> NoJob]
      /\ chain = <<Genesis>> /\ last_block = 1 /\ hdd_block = 1
      /\ mempool = {} /\ expired = {} /\ projected = {Genesis}
      /\ db_lock = Free /\ mempool_lock = Free /\ stopping \in BOOLEAN
  BY Zenon DEF Init
<1>2. RepType
  BY ReputationAssumption DEF Init, RepInit, RepType
<1>3. chain \in Seq(Block) /\ chain # <<>> /\ Len(chain) = 1
  BY <1>1, BlocksAssumption
<1>4. TypeOK
  BY <1>1, <1>2, <1>3, NoJobType, BlocksAssumption DEF TypeOK, Places
<1>5. LocksHeld /\ Working
  BY <1>1, IngestAssumption DEF LocksHeld, Working, WorkingAt, Critical
<1>6. TipsAgree /\ LedgerSound
  BY <1>1, <1>3, SoundGenesis DEF TipsAgree, LedgerSound
<1>7. PoolAffordable
  BY <1>1 DEF PoolAffordable, pending
<1> QED
  BY <1>4, <1>5, <1>6, <1>7 DEF IInv, Consistent

LEMMA NextInv == IInv /\ [Next]_vars => IInv'
<1> SUFFICES ASSUME IInv, [Next]_vars PROVE IInv'
  OBVIOUS
<1>1. CASE UNCHANGED vars \/ Stop \/ Purge \/ \E t \in Tx : Age(t)
  BY <1>1, RestInv
<1>2. ASSUME NEW p \in Peer,
             \/ SendHash(p) \/ blocksfnd(p) \/ Receive(p) \/ ReceiveFails(p)
             \/ Digesting(p)
             \/ \E b \in Mined : submit_block(p, b)
             \/ \E txs \in Offers : MergeCheck(p, txs) \/ submit_transaction(p, txs)
             \/ Merging(p)
      PROVE  IInv'
  <2>1. CASE Digesting(p)
    BY <2>1, ExchangeInv, AcquireInv, JudgeInv, SpendInv, HooksInv, CommitInv, Zenon DEF Digesting
  <2>2. CASE Merging(p)
    BY <2>2, ExchangeInv, MergeInv, Zenon DEF Merging
  <2> QED
    BY <1>2, <2>1, <2>2, ExchangeInv, Zenon
<1> QED
  BY <1>1, <1>2, Zenon DEF Next

(* In every interleaving of digests, merges, failed deliveries and a        *)
(* shutdown (digest_block, merge), for any blocks and peers, the digest in  *)
(* progress works on a block that it has judged on the ledger as it stands. *)
THEOREM IngestInvariant == Spec => []IInv
  BY InitInv, NextInv, PTL DEF Spec

(* node.db_lock and MEMPOOL.lock exclude and are always given back, and     *)
(* outside a digest the in-memory tip, the advertised tip and the ledger    *)
(* agree, whatever failed before (digest_block's except and finally).       *)
THEOREM AlwaysConsistent == Spec => []Consistent
  BY IngestInvariant, PTL DEF IInv

(* The ledger is always one chain of proofs of work on which nothing is     *)
(* confirmed twice and nothing is spent twice (process_block_data), although *)
(* blocks arrive for a tip that other threads have moved since.             *)
THEOREM LedgerAlwaysSound == Spec => []LedgerSound
  BY IngestInvariant, PTL DEF IInv

(* Of the pooled transactions young enough to count, no two are ones whose  *)
(* sender can afford only one (merge), however merges, digests and ageing   *)
(* follow one another.                                                      *)
THEOREM PoolAlwaysAffordable == Spec => []PoolAffordable
  BY IngestInvariant, PTL DEF IInv
=============================================================================
