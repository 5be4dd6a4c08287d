---------------------------- MODULE ReorgProofs ----------------------------
(***************************************************************************)
(* Fork resolution for any blocks, peers and chains they serve: what       *)
(* Consistent and DeepNeedsMajority say holds at every step, and the       *)
(* threads together implement Ledger.  The last part is about the search   *)
(* for the common ancestor, for every tip, floor and number of linear      *)
(* probes: what it returns is witnessed by the peer's own answers, exact   *)
(* when the peer stood still, and found in a bounded number of probes.     *)
(***************************************************************************)
EXTENDS Reorg, AncestorSearch, SequenceTheorems, FiniteSetTheorems,
        WellFoundedInduction, TLAPS

(* c and d have the same blocks up to height n. *)
Agree(c, d, n) == n <= Len(c) /\ n <= Len(d) /\ \A h \in 1..n : c[h] = d[h]

(* s is what c has above height n. *)
Follows(s, c, n) == Len(s) = Len(c) - n /\ \A i \in 1..Len(s) : s[i] = c[n + i]

(* A chain that validation accepts, whose timestamps never come back to    *)
(* that of the genesis block.                                              *)
Climbs(c) ==
    /\ c \in Seq(Block) /\ c # <<>> /\ c[1] = Genesis
    /\ \A h \in 2..Len(c) : Valid(SubSeq(c, 1, h - 1), c[h])
    /\ \A h \in 2..Len(c) : Ts[c[h]] > Ts[Genesis]

NoRivals(S) == \A t \in S : Rivals[t] \cap S = {}

-----------------------------------------------------------------------------
(* The rules that Ledger refers to are those of this module. *)
LEMMA SameRules ==
  /\ \A c, b : L!Valid(c, b) <=> Valid(c, b)
  /\ \A c, d : L!IsPrefix(c, d) <=> IsPrefix(c, d)
  /\ \A c : L!Last(c) = Last(c)
<1>1. \A c : L!Last(c) = Last(c)
  BY Zenon DEF L!Last, Last
<1>2. \A c, d : L!IsPrefix(c, d) <=> IsPrefix(c, d)
  BY Zenon DEF L!IsPrefix, IsPrefix
<1>3. \A b : L!TxsIn(b) = TxsIn(b)
  BY Zenon DEF L!TxsIn, TxsIn
<1>4. \A c : L!TxsOn(c) = TxsOn(c)
  BY Zenon DEF L!TxsOn, TxsOn, L!TxsIn, TxsIn
<1>5. \A c, b : L!Raised(c, b) = Raised(c, b)
  <2> SUFFICES ASSUME NEW c, NEW b PROVE L!Raised(c, b) = Raised(c, b)
    OBVIOUS
  <2>1. L!InBlockDuplicate(b) <=> InBlockDuplicate(b)
    BY Zenon DEF L!InBlockDuplicate, InBlockDuplicate
  <2>2. L!ProvenOver(b, c) <=> ProvenOver(b, c)
    BY <1>1, Zenon DEF L!ProvenOver, ProvenOver
  <2> QED
    BY <1>1, <1>3, <1>4, <2>1, <2>2 DEF L!Raised, Raised
<1>6. \A c, b, i : L!Affordable(c, b, i) <=> Affordable(c, b, i)
  BY <1>3, <1>4 DEF L!Affordable, Affordable
<1>7. \A c, b : L!Valid(c, b) <=> Valid(c, b)
  BY <1>5, <1>6 DEF L!Valid, Valid
<1> QED
  BY <1>1, <1>2, <1>7

(* Chains and their parts. *)
LEMMA SameParts ==
  ASSUME NEW c \in Seq(Block), NEW d \in Seq(Block), NEW n \in Nat, Agree(c, d, n)
  PROVE  SubSeq(c, 1, n) = SubSeq(d, 1, n)
<1> DEFINE s == SubSeq(c, 1, n)
           t == SubSeq(d, 1, n)
<1>1. \A h \in 1..n : c[h] \in Block /\ d[h] \in Block /\ c[h] = d[h]
  BY DEF Agree
<1>2. /\ s \in Seq(Block) /\ Len(s) = n /\ \A i \in 1..n : s[i] = c[i]
      /\ t \in Seq(Block) /\ Len(t) = n /\ \A i \in 1..n : t[i] = d[i]
  BY <1>1, SubSeqProperties
<1>3. \A i \in 1..n : s[i] = t[i]
  BY <1>1, <1>2
<1> HIDE DEF s, t
<1>4. s = t
  BY <1>2, <1>3, SeqEqual
<1> QED
  BY <1>4 DEF s, t

LEMMA PartProperties ==
  ASSUME NEW c \in Seq(Block), NEW n \in 0..Len(c)
  PROVE  /\ SubSeq(c, 1, n) \in Seq(Block) /\ Len(SubSeq(c, 1, n)) = n
         /\ Agree(SubSeq(c, 1, n), c, n)
<1>1. \A h \in 1..n : c[h] \in Block
  OBVIOUS
<1>2. n \in Int /\ n <= Len(c)
  OBVIOUS
<1>3. /\ SubSeq(c, 1, n) \in Seq(Block) /\ Len(SubSeq(c, 1, n)) = n
      /\ \A i \in 1..n : SubSeq(c, 1, n)[i] = c[i]
  BY <1>1, <1>2, SubSeqProperties
<1> QED
  BY <1>2, <1>3 DEF Agree

LEMMA UpperPart ==
  ASSUME NEW c \in Seq(Block), NEW n \in Nat, NEW m \in Nat, n <= m, m <= Len(c)
  PROVE  /\ SubSeq(c, n + 1, m) \in Seq(Block) /\ Len(SubSeq(c, n + 1, m)) = m - n
         /\ \A i \in 1..(m - n) : SubSeq(c, n + 1, m)[i] = c[n + i]
<1>1. \A h \in (n + 1)..m : c[h] \in Block
  OBVIOUS
<1>2. n + 1 \in Int /\ m \in Int /\ Len(c) \in Nat
  OBVIOUS
<1> DEFINE f == SubSeq(c, n + 1, m)
<1>3. /\ f \in Seq(Block) /\ Len(f) = IF n + 1 <= m THEN m - (n + 1) + 1 ELSE 0
      /\ \A i \in 1..(m - (n + 1) + 1) : f[i] = c[(n + 1) + i - 1]
  BY <1>1, <1>2, SubSeqProperties
<1> HIDE DEF f
<1>4. m - (n + 1) + 1 = m - n /\ (~(n + 1 <= m) => m - n = 0)
  OBVIOUS
<1>5. \A i \in 1..(m - n) : (n + 1) + i - 1 = n + i
  OBVIOUS
<1>6. Len(f) = m - n
  BY <1>3, <1>4
<1>7. \A i \in 1..(m - n) : f[i] = c[n + i]
  BY <1>3, <1>4, <1>5
<1> QED
  BY <1>3, <1>6, <1>7 DEF f

LEMMA WholePart ==
  ASSUME NEW c \in Seq(Block)
  PROVE  SubSeq(c, 1, Len(c)) = c
<1> DEFINE s == SubSeq(c, 1, Len(c))
<1>1. Len(c) \in 0..Len(c)
  OBVIOUS
<1>2. s \in Seq(Block) /\ Len(s) = Len(c) /\ \A h \in 1..Len(c) : s[h] = c[h]
  BY <1>1, PartProperties DEF Agree
<1> HIDE DEF s
<1>3. s = c
  BY <1>2, SeqEqual
<1> QED
  BY <1>3 DEF s

LEMMA PrefixAgrees ==
  ASSUME NEW c \in Seq(Block), NEW d \in Seq(Block)
  PROVE  IsPrefix(c, d) <=> Agree(c, d, Len(c))
<1>1. ASSUME IsPrefix(c, d) PROVE Agree(c, d, Len(c))
  <2>1. Len(c) \in 0..Len(d)
    BY <1>1 DEF IsPrefix
  <2>2. Agree(SubSeq(d, 1, Len(c)), d, Len(c)) /\ SubSeq(d, 1, Len(c)) = c
    BY <1>1, <2>1, PartProperties DEF IsPrefix
  <2> QED
    BY <2>2
<1>2. ASSUME Agree(c, d, Len(c)) PROVE IsPrefix(c, d)
  <2>1. SubSeq(c, 1, Len(c)) = SubSeq(d, 1, Len(c))
    BY <1>2, SameParts
  <2> QED
    BY <1>2, <2>1, WholePart DEF IsPrefix, Agree
<1> QED
  BY <1>1, <1>2

LEMMA AppendAgrees ==
  ASSUME NEW c \in Seq(Block), NEW b \in Block
  PROVE  /\ Append(c, b) \in Seq(Block) /\ Len(Append(c, b)) = Len(c) + 1
         /\ Append(c, b)[Len(c) + 1] = b
         /\ Agree(c, Append(c, b), Len(c))
<1>1. /\ Append(c, b) \in Seq(Block) /\ Len(Append(c, b)) = Len(c) + 1 /\ Len(c) \in Nat
      /\ Append(c, b)[Len(c) + 1] = b
      /\ \A h \in 1..Len(c) : Append(c, b)[h] = c[h]
  BY AppendProperties
<1> QED
  BY <1>1 DEF Agree

-----------------------------------------------------------------------------
(* A part of a valid chain, and a valid chain with a valid block on top,   *)
(* are valid chains; a valid chain is sound.                               *)
LEMMA ClimbsPart ==
  ASSUME NEW c, Climbs(c), NEW n \in 1..Len(c)
  PROVE  Climbs(SubSeq(c, 1, n))
<1> DEFINE s == SubSeq(c, 1, n)
<1>1. c \in Seq(Block) /\ n \in Nat /\ n >= 1 /\ Len(c) \in Nat
  BY DEF Climbs
<1>2. s \in Seq(Block) /\ Len(s) = n /\ Agree(s, c, n)
  BY <1>1, PartProperties
<1> HIDE DEF s
<1>3. \A h \in 1..n : s[h] = c[h]
  BY <1>2 DEF Agree
<1>4. s # <<>> /\ s[1] = Genesis
  BY <1>1, <1>2, <1>3 DEF Climbs
<1>5. ASSUME NEW h \in 2..n
      PROVE  Valid(SubSeq(s, 1, h - 1), s[h]) /\ Ts[s[h]] > Ts[Genesis]
  <2>1. h - 1 \in Nat /\ h \in 2..Len(c) /\ s[h] = c[h] /\ Agree(s, c, h - 1)
    BY <1>1, <1>2, <1>3 DEF Agree
  <2>2. SubSeq(s, 1, h - 1) = SubSeq(c, 1, h - 1)
    BY <1>1, <1>2, <2>1, SameParts
  <2> QED
    BY <2>1, <2>2 DEF Climbs
<1>6. Climbs(s)
  BY <1>2, <1>4, <1>5 DEF Climbs
<1> QED
  BY <1>6 DEF s

LEMMA Passed ==
  ASSUME NEW c, NEW b, Raised(c, b) = ""
  PROVE  /\ ProvenOver(b, c) /\ TxsIn(b) \cap TxsOn(c) = {}
         /\ ~(Ts[b] <= Ts[Last(c)])
  BY DEF Raised

LEMMA ClimbsAppend ==
  ASSUME NEW c, Climbs(c), NEW b \in Block, Valid(c, b)
  PROVE  Climbs(Append(c, b))
<1> DEFINE d == Append(c, b)
<1>1. c \in Seq(Block) /\ Len(c) \in Nat /\ c # <<>> /\ Len(c) >= 1 /\ c[1] = Genesis
  BY DEF Climbs
<1>2. d \in Seq(Block) /\ Len(d) = Len(c) + 1 /\ d[Len(c) + 1] = b /\ Agree(c, d, Len(c))
  BY <1>1, AppendAgrees
<1> HIDE DEF d
<1>3. \A h \in 1..Len(c) : d[h] = c[h]
  BY <1>2 DEF Agree
<1>4. d # <<>> /\ d[1] = Genesis
  BY <1>1, <1>2, <1>3
<1>5. Ts[b] > Ts[Genesis]
  <2>1. Last(c) \in Block /\ Last(c) = c[Len(c)]
    BY <1>1 DEF Last
  <2>2. Ts[b] \in Nat /\ Ts[Last(c)] \in Nat /\ Ts[Genesis] \in Nat
    BY <2>1, BlocksAssumption
  <2>3. ~(Ts[b] <= Ts[Last(c)])
    <3>1. Raised(c, b) = ""
      BY Zenon DEF Valid
    <3> QED
      BY <3>1, Passed, Zenon
  <2>4. Len(c) # 1 => Len(c) \in 2..Len(c)
    <3>1. \A n \in Nat : n >= 1 /\ n # 1 => n \in 2..n
      OBVIOUS
    <3> QED
      BY <1>1, <3>1, Zenon
  <2>5. Len(c) \in 2..Len(c) => Ts[Last(c)] > Ts[Genesis]
    BY <2>1 DEF Climbs
  <2>6. Len(c) = 1 => Last(c) = Genesis
    BY <1>1, <2>1
  <2> QED
    BY <2>2, <2>3, <2>4, <2>5, <2>6
<1>6. ASSUME NEW h \in 2..Len(d)
      PROVE  Valid(SubSeq(d, 1, h - 1), d[h]) /\ Ts[d[h]] > Ts[Genesis]
  <2>1. h - 1 \in Nat /\ Agree(c, d, h - 1)
    BY <1>1, <1>2, <1>3 DEF Agree
  <2>2. SubSeq(d, 1, h - 1) = SubSeq(c, 1, h - 1)
    BY <1>1, <1>2, <2>1, SameParts
  <2>3. CASE h = Len(c) + 1
    <3>1. SubSeq(c, 1, h - 1) = c
      <4>1. h - 1 = Len(c)
        BY <1>1, <2>3
      <4> QED
        BY <1>1, <4>1, WholePart
    <3> QED
      BY <1>2, <1>5, <2>2, <2>3, <3>1
  <2>4. CASE h # Len(c) + 1
    <3>1. h \in 2..Len(c) /\ d[h] = c[h]
      BY <1>1, <1>2, <1>3, <2>4
    <3> QED
      BY <2>2, <3>1 DEF Climbs
  <2> QED
    BY <2>3, <2>4
<1>7. Climbs(d)
  BY <1>2, <1>4, <1>6 DEF Climbs
<1> QED
  BY <1>7 DEF d

LEMMA TxsTyped ==
  ASSUME NEW s \in Seq(Block)
  PROVE  TxsOn(s) \subseteq Tx
<1> SUFFICES ASSUME NEW t \in TxsOn(s) PROVE t \in Tx
  OBVIOUS
<1>1. PICK h \in DOMAIN s : t \in TxsIn(s[h])
  BY DEF TxsOn
<1>2. PICK i \in DOMAIN TxsOf[s[h]] : t = TxsOf[s[h]][i]
  BY <1>1 DEF TxsIn
<1>3. TxsOf[s[h]] \in Seq(Tx)
  BY BlocksAssumption
<1> QED
  BY <1>2, <1>3

LEMMA ClimbsSound ==
  ASSUME NEW c, Climbs(c)
  PROVE  Sound(c)
<1>1. c \in Seq(Block) /\ Len(c) \in Nat /\ DOMAIN c = 1..Len(c) /\ Len(c) >= 1 /\ c[1] = Genesis
  BY DEF Climbs
<1>2. ASSUME NEW h \in 2..Len(c)
      PROVE  /\ Parent[c[h]] = c[h - 1]
             /\ \A k \in 1..(h - 1) : TxsIn(c[h]) \cap TxsIn(c[k]) = {}
             /\ \A t \in TxsIn(c[h]) : \A k \in 1..h : Rivals[t] \cap TxsIn(c[k]) = {}
  <2> DEFINE s == SubSeq(c, 1, h - 1)
  <2>1. h - 1 \in 0..Len(c) /\ h - 1 \in Nat /\ h - 1 >= 1 /\ h \in Nat
    BY <1>1
  <2>2. s \in Seq(Block) /\ Len(s) = h - 1 /\ \A k \in 1..(h - 1) : s[k] = c[k]
    BY <1>1, <2>1, PartProperties DEF Agree
  <2>3. Valid(s, c[h])
    BY DEF Climbs
  <2> HIDE DEF s
  <2>4. /\ Parent[c[h]] = s[Len(s)] /\ TxsIn(c[h]) \cap TxsOn(s) = {}
        /\ \A i \in DOMAIN TxsOf[c[h]] : Rivals[TxsOf[c[h]][i]] \cap (TxsOn(s) \cup TxsIn(c[h])) = {}
    BY <2>3, Passed DEF Valid, ProvenOver, Last, Affordable
  <2>5. \A k \in 1..(h - 1) : TxsIn(c[k]) \subseteq TxsOn(s)
    <3>1. \A k \in DOMAIN s : TxsIn(s[k]) \subseteq TxsOn(s)
      BY DEF TxsOn
    <3>2. \A k \in 1..(h - 1) : k \in DOMAIN s
      BY <2>2
    <3> QED
      BY <2>2, <3>1, <3>2
  <2>6. s[Len(s)] = c[h - 1]
    BY <2>1, <2>2
  <2>7. \A t \in TxsIn(c[h]) : Rivals[t] \cap (TxsOn(s) \cup TxsIn(c[h])) = {}
    BY <2>4 DEF TxsIn
  <2>8. \A t \in TxsIn(c[h]) : \A k \in 1..h : Rivals[t] \cap TxsIn(c[k]) = {}
    <3> SUFFICES ASSUME NEW t \in TxsIn(c[h]), NEW k \in 1..h PROVE Rivals[t] \cap TxsIn(c[k]) = {}
      OBVIOUS
    <3>1. CASE k = h
      BY <2>7, <3>1
    <3>2. CASE k # h
      <4>1. k \in 1..(h - 1)
        BY <2>1, <3>2
      <4> QED
        BY <2>5, <2>7, <4>1
    <3> QED
      BY <3>1, <3>2
  <2> QED
    BY <2>4, <2>5, <2>6, <2>8
<1>3. TxsIn(c[1]) = {}
  BY <1>1, BlocksAssumption DEF TxsIn
<1>4. ASSUME NEW h \in DOMAIN c, NEW k \in DOMAIN c, k < h
      PROVE  TxsIn(c[h]) \cap TxsIn(c[k]) = {}
  <2>1. h \in 2..Len(c) /\ k \in 1..(h - 1)
    BY <1>1, <1>4
  <2> QED
    BY <1>2, <2>1
<1>5. \A h, k \in DOMAIN c : h # k => TxsIn(c[h]) \cap TxsIn(c[k]) = {}
  <2> SUFFICES ASSUME NEW h \in DOMAIN c, NEW k \in DOMAIN c, h # k
               PROVE  TxsIn(c[h]) \cap TxsIn(c[k]) = {}
    OBVIOUS
  <2>1. h < k \/ k < h
    BY <1>1
  <2> QED
    BY <1>4, <2>1
<1>6. ASSUME NEW h \in DOMAIN c, NEW k \in DOMAIN c, NEW t \in TxsIn(c[h]), NEW u \in TxsIn(c[k])
      PROVE  u \notin Rivals[t]
  <2>1. t \in TxsOn(c) /\ u \in TxsOn(c)
    BY DEF TxsOn
  <2>2. t \in Tx /\ u \in Tx
    BY <1>1, <2>1, TxsTyped
  <2>3. h # 1 /\ k # 1
    BY <1>3
  <2>4. h \in 2..Len(c) /\ k \in 2..Len(c) /\ (k \in 1..h \/ h \in 1..k)
    BY <1>1, <2>3
  <2>5. u \in Rivals[t] => t \in Rivals[u]
    BY <2>2, BlocksAssumption
  <2> QED
    BY <1>2, <2>4, <2>5
<1>7. \A t \in TxsOn(c) : Rivals[t] \cap TxsOn(c) = {}
  BY <1>6 DEF TxsOn
<1> QED
  BY <1>2, <1>5, <1>7 DEF Sound

(* Transactions of one branch of a valid chain are not rivals. *)
LEMMA BranchNoRivals ==
  ASSUME NEW c, Climbs(c), NEW s \in Seq(Block), NEW n \in Nat, Follows(s, c, n)
  PROVE  NoRivals(TxsOn(s))
<1>1. c \in Seq(Block) /\ Len(c) \in Nat /\ DOMAIN c = 1..Len(c) /\ DOMAIN s = 1..Len(s) /\ Len(s) \in Nat
  BY DEF Climbs
<1>2. \A i \in DOMAIN s : n + i \in DOMAIN c /\ s[i] = c[n + i]
  BY <1>1 DEF Follows
<1>3. TxsOn(s) \subseteq TxsOn(c)
  BY <1>2 DEF TxsOn
<1>4. \A t \in TxsOn(c) : Rivals[t] \cap TxsOn(c) = {}
  BY ClimbsSound DEF Sound
<1> QED
  BY <1>3, <1>4 DEF NoRivals

-----------------------------------------------------------------------------
(* What holds of a thread p at label l with local data j, when the ledger  *)
(* is c, fork_resolution is r and stop says whether the node is stopping.  *)
Sanctioned(j) ==
    \/ j.anc + 1 >= j.checkpoint
    \/ 2 * Cardinality({q \in Peer : Denies(q, j.tip, j.hash)}) > MinAnswersDeep

Aimed(j) == j.src \in Peer /\ j.anc \in 1..(j.tip - 1) /\ Sanctioned(j)
Tied(j) == j.claim = j.tip

(* Before the rollback: the ledger still has what was measured, and a tie  *)
(* is with another block.                                                  *)
Measured(j, c) == Aimed(j) /\ j.tip <= Len(c)
Grabbed(j, c) == Tied(j) => j.held # <<>> /\ j.held[1] # c[j.anc + 1]

(* After it: was is the ledger of before, and backup its upper part. *)
Saved(j, c) ==
    /\ Aimed(j) /\ Climbs(j.was) /\ j.tip <= Len(j.was)
    /\ Agree(c, j.was, j.anc) /\ Follows(j.backup, j.was, j.anc)

Trying(j, c) ==
    Tied(j) => /\ Len(c) > j.anc => c[j.anc + 1] # j.was[j.anc + 1]
               /\ Len(c) = j.anc /\ j.todo # <<>> => j.todo[1] # j.was[j.anc + 1]

Restoring(j, c) == Agree(c, j.was, Len(c)) /\ Follows(j.todo, j.was, Len(c))

Place(p, l, j, c, r, stop) ==
    /\ l \in Resolving \cup {"gate"} => r = "measured" /\ Denies(p, j.tip, j.hash)
    /\ l \in {"legacy", "giveback"} => r = "legacy"
    /\ l = "legacy" => j.hash # Genesis
    /\ l \in {"fetch", "lock", "acquire"} => Measured(j, c)
    /\ l \in {"lock", "acquire"} => Grabbed(j, c)
    /\ l \in Adopting => Saved(j, c)
    /\ l \in {"apply", "decide"} => Trying(j, c)
    /\ l = "restore" => Restoring(j, c)
    /\ l = "blame" => j.src \in Peer /\ (~stop => Agree(j.was, c, Len(j.was)))
    /\ l \in {"return", "giveback"} => NoRivals(TxsOn(j.backup))
    /\ l = "digest" => j.todo # <<>>

Threads == \A p \in Peer : Place(p, pc[p], job[p], chain, config.resolution, stopping)

IInv == TypeOK /\ LocksHeld /\ Climbs(chain) /\ PoolAffordable /\ Threads

Labels == Resolving \cup {"idle", "gate", "digest", "legacy", "giveback"}
Holding == Adopting \cup {"digest"}

-----------------------------------------------------------------------------
LEMMA JobFields ==
  ASSUME NEW j \in JobType
  PROVE  /\ j.tip \in Nat /\ j.hash \in Block /\ j.claim \in Nat /\ j.checkpoint \in Int
         /\ j.src \in Peer \cup {Free} /\ j.anc \in Nat /\ j.held \in Seq(Block)
         /\ j.backup \in Seq(Block) /\ j.todo \in Seq(Block) /\ j.was \in Seq(Block)
  BY DEF JobType

LEMMA NoJobType == NoJob \in JobType
  BY BlocksAssumption DEF NoJob, JobType

(* A digest leaves a thread that is not inside the lock as it was. *)
LEMMA PlaceGrows ==
  ASSUME NEW p \in Peer, NEW l, NEW j \in JobType, NEW c \in Seq(Block), NEW d \in Seq(Block),
         NEW r, NEW stop, Place(p, l, j, c, r, stop), l \notin Adopting,
         Len(d) = Len(c) + 1, Agree(c, d, Len(c))
  PROVE  Place(p, l, j, d, r, stop)
<1>1. /\ j.tip \in Nat /\ j.anc \in Nat /\ Len(c) \in Nat /\ Len(d) \in Nat
      /\ j.was \in Seq(Block) /\ Len(j.was) \in Nat
  BY JobFields
<1>2. \A h \in 1..Len(c) : c[h] = d[h]
  BY DEF Agree
<1>3. Measured(j, c) => Measured(j, d)
  BY <1>1 DEF Measured
<1>4. Measured(j, c) /\ Grabbed(j, c) => Grabbed(j, d)
  <2> SUFFICES ASSUME Measured(j, c) PROVE c[j.anc + 1] = d[j.anc + 1]
    BY DEF Grabbed
  <2>1. j.anc + 1 \in 1..Len(c)
    BY <1>1 DEF Measured, Aimed
  <2> QED
    BY <1>2, <2>1
<1>5. Agree(j.was, c, Len(j.was)) => Agree(j.was, d, Len(j.was))
  BY <1>1, <1>2 DEF Agree
<1>6. l \notin {"apply", "decide", "restore"}
  BY DEF Adopting
<1>7. l \in {"lock", "acquire"} => l \in {"fetch", "lock", "acquire"}
  OBVIOUS
<1> QED
  BY <1>3, <1>4, <1>5, <1>6, <1>7, Zenon DEF Place

(* Nor does a thread without the fork lock depend on the ledger. *)
LEMMA PlaceApart ==
  ASSUME NEW p \in Peer, NEW l, NEW j, NEW c, NEW d,
         NEW r, NEW stop, Place(p, l, j, c, r, stop), l \notin Resolving
  PROVE  Place(p, l, j, d, r, stop)
<1>1. l \notin {"fetch", "lock", "acquire", "apply", "decide", "restore", "blame"}
  BY DEF Resolving, Adopting
<1>2. l \notin Adopting /\ l \notin {"lock", "acquire"} /\ l \notin {"apply", "decide"}
  BY <1>1 DEF Adopting
<1> QED
  BY <1>1, <1>2 DEF Place

(* A step of thread p, as far as the invariant is concerned. *)
LEMMA Step ==
  ASSUME IInv, NEW p \in Peer, NEW l \in Labels, NEW j \in JobType,
         pc' = [pc EXCEPT ![p] = l], job' = [job EXCEPT ![p] = j],
         UNCHANGED <<config, stopping>>, RepType', checkpoint' \in Int,
         verdicts' \subseteq Block \X Peer, mempool' \subseteq Tx, expired' \subseteq Tx, PoolAffordable', Climbs(chain'),
         \/ (l \in Holding <=> pc[p] \in Holding) /\ UNCHANGED db_lock
         \/ l \in Holding /\ db_lock = Free /\ db_lock' = p
         \/ l \notin Holding /\ pc[p] \in Holding /\ db_lock' = Free,
         \/ (l \in Resolving <=> pc[p] \in Resolving) /\ UNCHANGED fork_lock
         \/ l \in Resolving /\ fork_lock = Free /\ fork_lock' = p
         \/ l \notin Resolving /\ pc[p] \in Resolving /\ fork_lock' = Free,
         \/ chain' = chain
         \/ pc[p] \in Holding /\ Len(chain') = Len(chain) + 1 /\ Agree(chain, chain', Len(chain))
         \/ pc[p] \in Resolving
         \/ config.resolution = "legacy",
         Place(p, l, j, chain', config.resolution, stopping)
  PROVE  IInv'
<1>1. /\ pc \in [Peer -> Labels] /\ job \in [Peer -> JobType] /\ config \in Configs
      /\ chain \in Seq(Block) /\ db_lock \in Peer \cup {Free} /\ fork_lock \in Peer \cup {Free}
      /\ LocksHeld /\ Threads /\ Free \notin Peer
  BY ReorgAssumption DEF IInv, TypeOK, Labels
<1>2. pc' \in [Peer -> Labels] /\ job' \in [Peer -> JobType]
  BY <1>1
<1>3. db_lock' \in Peer \cup {Free} /\ fork_lock' \in Peer \cup {Free}
  BY <1>1
<1>4. stopping' \in BOOLEAN /\ config' \in Configs
  BY Zenon DEF IInv, TypeOK
<1>5. chain' \in Seq(Block) /\ chain' # <<>>
  BY DEF Climbs
<1>6. TypeOK'
  BY <1>2, <1>3, <1>4, <1>5 DEF TypeOK, Labels
<1>7. \A q \in Peer : /\ q # p => pc'[q] = pc[q] /\ job'[q] = job[q]
                      /\ q = p => pc'[q] = l /\ job'[q] = j
  BY <1>1
<1>8. \A q \in Peer : pc[q] \in Holding <=> db_lock = q
  BY <1>1 DEF LocksHeld, Holding
<1>9. \A q \in Peer : pc[q] \in Resolving <=> fork_lock = q
  BY <1>1 DEF LocksHeld
<1>10. \A q \in Peer : pc'[q] \in Holding <=> db_lock' = q
  BY <1>1, <1>7, <1>8
<1>11. \A q \in Peer : pc'[q] \in Resolving <=> fork_lock' = q
  BY <1>1, <1>7, <1>9
<1>12. LocksHeld'
  BY <1>10, <1>11 DEF LocksHeld, Holding
<1>13. Threads'
  <2> SUFFICES ASSUME NEW q \in Peer
               PROVE  Place(q, pc'[q], job'[q], chain', config'.resolution, stopping')
    BY Zenon DEF Threads
  <2>1. CASE q = p
    BY <1>7, <2>1
  <2>2. CASE q # p
    <3>1. /\ pc'[q] = pc[q] /\ job'[q] = job[q] /\ config' = config /\ stopping' = stopping
          /\ job[q] \in JobType
      BY <1>1, <1>7, <2>2
    <3>2. Place(q, pc[q], job[q], chain, config.resolution, stopping)
      BY <1>1 DEF Threads
    <3>3. Place(q, pc[q], job[q], chain', config.resolution, stopping)
      <4>1. CASE chain' = chain
        BY <3>2, <4>1
      <4>2. CASE pc[p] \in Holding /\ Len(chain') = Len(chain) + 1 /\ Agree(chain, chain', Len(chain))
        <5>1. pc[q] \notin Adopting
          BY <1>8, <2>2, <4>2 DEF Holding
        <5> QED
          BY <1>1, <1>5, <3>1, <3>2, <4>2, <5>1, PlaceGrows
      <4>3. CASE pc[q] \notin Resolving
        BY <3>2, <4>3, PlaceApart
      <4>4. CASE pc[p] \in Resolving
        BY <1>9, <2>2, <4>3, <4>4
      <4>5. CASE config.resolution = "legacy"
        <5>1. pc[q] \notin Resolving
          BY <3>2, <4>5 DEF Place
        <5> QED
          BY <4>3, <5>1
      <4> QED
        BY <4>1, <4>2, <4>4, <4>5
    <3> QED
      BY <3>1, <3>3
  <2> QED
    BY <2>1, <2>2
<1> QED
  BY <1>6, <1>12, <1>13 DEF IInv

-----------------------------------------------------------------------------
(* Scores stay clamped. *)
LEMMA ClampType ==
  ASSUME NEW x \in Int
  PROVE  Clamp(x) \in (-RepLimit)..RepLimit
  BY ReputationAssumption DEF Clamp

LEMMA PunishType ==
  ASSUME RepType, NEW q \in Peer, NEW points \in Nat, NEW count \in Nat, Punish(q, points, count)
  PROVE  RepType'
<1>1. score[q] \in Int /\ warnings[q] + count \in Nat
  BY ReputationAssumption DEF RepType
<1>2. score' \in [Peer -> (-RepLimit)..RepLimit] /\ warnings' \in [Peer -> Nat]
  BY <1>1, ClampType DEF RepType, Punish, rep
<1>3. banlist' \subseteq Peer
  BY DEF RepType, Punish, rep
<1> QED
  BY <1>2, <1>3 DEF RepType

(* Reward and Unban, and both at once as a digest does it. *)
LEMMA CreditType ==
  ASSUME RepType, NEW q \in Peer, banlist' = banlist,
         \/ score' = score
         \/ score' = [score EXCEPT ![q] = IF q \in Whitelist THEN @ ELSE Clamp(@ + RewardValidBlock)],
         \/ warnings' = warnings
         \/ warnings' = [warnings EXCEPT ![q] = 0]
  PROVE  RepType'
<1>1. score[q] + RewardValidBlock \in Int
  BY ReputationAssumption DEF RepType
<1>2. score' \in [Peer -> (-RepLimit)..RepLimit]
  BY <1>1, ClampType DEF RepType
<1> QED
  BY <1>2 DEF RepType

LEMMA SameRep ==
  ASSUME RepType, UNCHANGED rep
  PROVE  RepType'
  BY DEF RepType, rep

-----------------------------------------------------------------------------
(* What a thread can count on before it steps. *)
LEMMA Before ==
  ASSUME IInv, NEW p \in Peer
  PROVE  /\ pc \in [Peer -> Labels] /\ job \in [Peer -> JobType] /\ job[p] \in JobType
         /\ chain \in Seq(Block) /\ chain # <<>> /\ Len(chain) \in Nat /\ Len(chain) >= 1
         /\ Climbs(chain) /\ checkpoint \in Int /\ mempool \subseteq Tx /\ expired \subseteq Tx
         /\ verdicts \subseteq Block \X Peer /\ RepType /\ PoolAffordable
         /\ config \in Configs
         /\ (pc[p] \in Holding <=> db_lock = p) /\ (pc[p] \in Resolving <=> fork_lock = p)
<1>1. chain \in Seq(Block) /\ chain # <<>>
  BY DEF IInv, TypeOK
<1>2. Len(chain) \in Nat /\ Len(chain) >= 1
  BY <1>1
<1> QED
  BY <1>1, <1>2 DEF IInv, TypeOK, LocksHeld, Labels, Holding

LEMMA LastBlock ==
  ASSUME NEW c \in Seq(Block), c # <<>>
  PROVE  Last(c) \in Block
  BY DEF Last

LEMMA Now ==
  ASSUME IInv, NEW p \in Peer
  PROVE  Place(p, pc[p], job[p], chain, config.resolution, stopping)
  BY DEF IInv, Threads

LEMMA IdlePlace ==
  ASSUME NEW p, NEW j, NEW c, NEW r, NEW stop
  PROVE  Place(p, "idle", j, c, r, stop)
  BY DEF Place, Resolving, Adopting

(* A step that leaves the ledger and the pool alone. *)
LEMMA Still ==
  ASSUME IInv, NEW p \in Peer, NEW l \in Labels, NEW j \in JobType,
         pc' = [pc EXCEPT ![p] = l], job' = [job EXCEPT ![p] = j],
         UNCHANGED <<config, stopping, chain, mempool, expired>>, RepType', checkpoint' \in Int,
         verdicts' \subseteq Block \X Peer,
         \/ (l \in Holding <=> pc[p] \in Holding) /\ UNCHANGED db_lock
         \/ l \in Holding /\ db_lock = Free /\ db_lock' = p
         \/ l \notin Holding /\ pc[p] \in Holding /\ db_lock' = Free,
         \/ (l \in Resolving <=> pc[p] \in Resolving) /\ UNCHANGED fork_lock
         \/ l \in Resolving /\ fork_lock = Free /\ fork_lock' = p
         \/ l \notin Resolving /\ pc[p] \in Resolving /\ fork_lock' = Free,
         Place(p, l, j, chain, config.resolution, stopping)
  PROVE  IInv'
<1>1. PoolAffordable' /\ Climbs(chain') /\ mempool' \subseteq Tx /\ expired' \subseteq Tx
  BY Before DEF PoolAffordable, pending
<1>2. Place(p, l, j, chain', config.resolution, stopping)
  OBVIOUS
<1> QED
  BY <1>1, <1>2, Step

LEMMA EndInv ==
  ASSUME IInv, NEW p \in Peer, pc[p] \notin Holding, End(p),
         UNCHANGED <<config, stopping, chain, mempool, expired, db_lock>>, RepType', checkpoint' \in Int,
         verdicts' \subseteq Block \X Peer,
         \/ pc[p] \notin Resolving /\ UNCHANGED fork_lock
         \/ pc[p] \in Resolving /\ fork_lock' = Free
  PROVE  IInv'
<1>1. pc' = [pc EXCEPT ![p] = "idle"] /\ job' = [job EXCEPT ![p] = NoJob]
  BY DEF End, Goto
<1>2. "idle" \in Labels /\ "idle" \notin Holding /\ "idle" \notin Resolving
  BY DEF Labels, Holding, Resolving, Adopting
<1> QED
  BY <1>1, <1>2, NoJobType, IdlePlace, Still

LEMMA SkipInv ==
  ASSUME IInv, NEW p \in Peer, pc[p] \in Resolving, pc[p] \notin Holding, Skip(p), RepType'
  PROVE  IInv'
<1>1. /\ verdicts' = verdicts \cup {<<job[p].hash, p>>} /\ End(p) /\ fork_lock' = Free
      /\ UNCHANGED <<config, stopping, chain, mempool, expired, db_lock, checkpoint>>
  BY Zenon DEF Skip, Leave, mode
<1>2. job[p].hash \in Block
  BY Before, JobFields
<1>3. verdicts' \subseteq Block \X Peer
  BY <1>1, <1>2, Before
<1>4. checkpoint' \in Int
  BY <1>1, Before
<1> QED
  BY <1>1, <1>3, <1>4, EndInv

LEMMA GateInv ==
  ASSUME IInv, NEW p \in Peer, (\E n \in Claims : blocknf(p, n)) \/ Enter(p)
  PROVE  IInv'
<1>1. CASE \E n \in Claims : blocknf(p, n)
  <2> PICK n \in Claims : blocknf(p, n)
    BY <1>1
  <2> DEFINE j == [job[p] EXCEPT !.tip = Len(chain), !.hash = Last(chain), !.claim = n]
  <2>1. /\ pc[p] = "idle" /\ config.resolution = "measured" /\ Denies(p, Len(chain), Last(chain))
        /\ pc' = [pc EXCEPT ![p] = "gate"]
        /\ job' = [job EXCEPT ![p].tip = Len(chain), ![p].hash = Last(chain), ![p].claim = n]
        /\ UNCHANGED <<config, stopping, chain, mempool, expired, db_lock, fork_lock, checkpoint, verdicts>>
        /\ UNCHANGED rep
    BY Zenon DEF blocknf, Goto, mode
  <2>2. n \in Nat /\ Last(chain) \in Block
    <3>1. n \in Nat
      BY ReorgAssumption, Zenon
    <3> QED
      BY <3>1, Before, LastBlock
  <2>3. /\ j \in JobType /\ j.tip = Len(chain) /\ j.hash = Last(chain)
        /\ job' = [job EXCEPT ![p] = j]
    BY <2>1, <2>2, Before DEF JobType
  <2> HIDE DEF j
  <2>4. "gate" \in Labels /\ "gate" \notin Holding /\ "gate" \notin Resolving
        /\ "idle" \notin Holding /\ "idle" \notin Resolving
    BY DEF Labels, Holding, Resolving, Adopting
  <2>5. Place(p, "gate", j, chain, config.resolution, stopping)
    BY <2>1, <2>3, <2>4 DEF Place, Holding
  <2>6. RepType' /\ checkpoint' \in Int /\ verdicts' \subseteq Block \X Peer
    BY <2>1, Before, SameRep
  <2> QED
    BY <2>1, <2>3, <2>4, <2>5, <2>6, Still
<1>2. CASE Enter(p)
  <2>1. /\ pc[p] = "gate"
        /\ UNCHANGED <<config, stopping, chain, mempool, expired, db_lock, checkpoint, verdicts>>
        /\ UNCHANGED rep
    BY <1>2, Zenon DEF Enter, mode
  <2>2. /\ "gate" \notin Holding /\ "gate" \notin Resolving /\ "measure" \in Labels
        /\ "measure" \in Resolving /\ "measure" \notin Holding
    BY DEF Labels, Holding, Resolving, Adopting
  <2>3. RepType' /\ checkpoint' \in Int /\ verdicts' \subseteq Block \X Peer
    BY <2>1, Before, SameRep
  <2>4. CASE fork_lock # Free
    <3>1. End(p) /\ UNCHANGED fork_lock
      BY <1>2, <2>4, Zenon DEF Enter
    <3> QED
      BY <2>1, <2>2, <2>3, <3>1, EndInv
  <2>5. CASE fork_lock = Free
    <3> DEFINE j == [job[p] EXCEPT !.checkpoint = checkpoint]
    <3>1. fork_lock' = p /\ pc' = [pc EXCEPT ![p] = "measure"] /\ job' = [job EXCEPT ![p] = j]
      BY <1>2, <2>5, Zenon DEF Enter, Goto
    <3>2. j \in JobType /\ j.tip = job[p].tip /\ j.hash = job[p].hash
      BY Before DEF JobType
    <3> HIDE DEF j
    <3>3. config.resolution = "measured" /\ Denies(p, job[p].tip, job[p].hash)
      BY <2>1, Now DEF Place
    <3>4. Place(p, "measure", j, chain, config.resolution, stopping)
      BY <3>2, <3>3 DEF Place, Adopting
    <3> QED
      BY <2>1, <2>2, <2>3, <2>5, <3>1, <3>2, <3>4, Still
  <2> QED
    BY <2>4, <2>5
<1> QED
  BY <1>1, <1>2

-----------------------------------------------------------------------------
(* Corroboration: with the advertiser, more than half of the answers. *)
LEMMA CorroboratedCount ==
  ASSUME NEW p \in Peer, Denies(p, job[p].tip, job[p].hash), Corroborated(p)
  PROVE  2 * Cardinality({q \in Peer : Denies(q, job[p].tip, job[p].hash)}) > MinAnswersDeep
<1> DEFINE S == {q \in Peer : Denies(q, job[p].tip, job[p].hash)}
<1>1. PICK A \in SUBSET (Peer \ {p}) : \E D \in SUBSET A :
        /\ \A q \in D : Denies(q, job[p].tip, job[p].hash)
        /\ Cardinality(A) + 1 >= MinAnswersDeep
        /\ (Cardinality(D) + 1) * 2 > Cardinality(A) + 1
  BY Zenon DEF Corroborated
<1>2. PICK D \in SUBSET A :
        /\ \A q \in D : Denies(q, job[p].tip, job[p].hash)
        /\ Cardinality(A) + 1 >= MinAnswersDeep
        /\ (Cardinality(D) + 1) * 2 > Cardinality(A) + 1
  BY <1>1
<1>3. IsFiniteSet(Peer) /\ MinAnswersDeep \in Nat
  BY ReorgAssumption, Zenon
<1>4. IsFiniteSet(A) /\ IsFiniteSet(D) /\ IsFiniteSet(S)
  BY <1>1, <1>2, <1>3, FS_Subset
<1>5. Cardinality(A) \in Nat /\ Cardinality(D) \in Nat /\ Cardinality(S) \in Nat
  BY <1>4, FS_CardinalityType
<1>6. Cardinality(D \cup {p}) = Cardinality(D) + 1 /\ IsFiniteSet(D \cup {p})
  <2>1. p \notin D
    BY <1>1, <1>2
  <2> QED
    BY <1>4, <2>1, FS_AddElement
<1>7. D \cup {p} \subseteq S
  BY <1>1, <1>2
<1>8. Cardinality(D \cup {p}) <= Cardinality(S)
  BY <1>4, <1>7, FS_Subset
<1> HIDE DEF S
<1>9. 2 * Cardinality(S) > MinAnswersDeep
  BY <1>2, <1>3, <1>5, <1>6, <1>8
<1> QED
  BY <1>9 DEF S

LEMMA MeasureInv ==
  ASSUME IInv, NEW p \in Peer, MeasureReorg(p)
  PROVE  IInv'
<1>1. /\ pc[p] = "measure" /\ Len(chain) >= job[p].tip
      /\ pc' = [pc EXCEPT ![p] = "fetch"]
      /\ UNCHANGED <<config, stopping, chain, mempool, expired, db_lock, fork_lock, checkpoint, verdicts>>
      /\ UNCHANGED rep
  BY Zenon DEF MeasureReorg, Goto, mode
<1>0. PICK s \in Donors(p) : \E c \in Serves[s] :
        LET x == Ancestor(c, job[p].tip)
        IN  Permitted(p, x) /\ job' = [job EXCEPT ![p].src = s, ![p].anc = x]
  BY Zenon DEF MeasureReorg
<1>2. PICK a : Permitted(p, a) /\ job' = [job EXCEPT ![p].src = s, ![p].anc = a]
  BY <1>0, Zenon
<1> DEFINE j == [job[p] EXCEPT !.src = s, !.anc = a]
<1>3. s \in Peer /\ job[p].tip \in Nat /\ job[p].checkpoint \in Int /\ MaxProbeDepth \in Nat
  <2>1. s \in Peer
    BY <1>0 DEF Donors
  <2>2. MaxProbeDepth \in Nat
    BY ReorgAssumption, Zenon
  <2> QED
    BY <2>1, <2>2, Before, JobFields
<1>4. a \in Nat /\ a \in 1..(job[p].tip - 1)
  BY <1>2, <1>3 DEF Permitted, Floor
<1>5. /\ j \in JobType /\ j.src = s /\ j.anc = a /\ j.tip = job[p].tip
      /\ j.hash = job[p].hash /\ j.checkpoint = job[p].checkpoint
      /\ job' = [job EXCEPT ![p] = j]
  BY <1>2, <1>3, <1>4, Before DEF JobType
<1> HIDE DEF j
<1>6. config.resolution = "measured" /\ Denies(p, job[p].tip, job[p].hash)
  BY <1>1, Now DEF Place, Resolving
<1>7. Sanctioned(j)
  <2>1. CASE floor_ok(p, a)
    BY <1>5, <2>1 DEF floor_ok, Sanctioned
  <2>2. CASE Corroborated(p)
    BY <1>5, <1>6, <2>2, CorroboratedCount DEF Sanctioned
  <2> QED
    BY <1>2, <2>1, <2>2 DEF Permitted
<1>8. Measured(j, chain)
  BY <1>1, <1>3, <1>4, <1>5, <1>7, Before DEF Measured, Aimed
<1>9. "fetch" \in Labels /\ "fetch" \in Resolving /\ "fetch" \notin Holding
      /\ "measure" \in Resolving /\ "measure" \notin Holding
  BY DEF Labels, Holding, Resolving, Adopting
<1>10. Place(p, "fetch", j, chain, config.resolution, stopping)
  BY <1>5, <1>6, <1>8 DEF Place, Adopting
<1>11. RepType' /\ checkpoint' \in Int /\ verdicts' \subseteq Block \X Peer
  BY <1>1, Before, SameRep
<1> QED
  BY <1>1, <1>5, <1>9, <1>10, <1>11, Still

(* The refusals. *)
LEMMA RefuseInv ==
  ASSUME IInv, NEW p \in Peer,
         MeasureOther(p) \/ LosesTie(p) \/ ServesNothing(p) \/ FetchShort(p) \/ Blame(p)
  PROVE  IInv'
<1>1. pc[p] \in {"measure", "fetch", "blame"} /\ Skip(p)
  BY Zenon DEF MeasureOther, LosesTie, ServesNothing, FetchShort, Blame
<1>2. pc[p] \in Resolving /\ pc[p] \notin Holding
  BY <1>1 DEF Resolving, Holding, Adopting
<1>3. \/ UNCHANGED rep
      \/ Punish(p, 0, 2)
      \/ pc[p] = "blame" /\ Punish(job[p].src, PenaltyInvalidBlock, 5)
  BY Zenon DEF MeasureOther, LosesTie, ServesNothing, FetchShort, Blame
<1>4. pc[p] = "blame" => job[p].src \in Peer
  BY Now DEF Place
<1>5. RepType'
  <2>1. PenaltyInvalidBlock \in Nat
    BY ReputationAssumption
  <2> QED
    BY <1>3, <1>4, <2>1, Before, SameRep, PunishType
<1> QED
  BY <1>1, <1>2, <1>5, SkipInv

LEMMA FetchInv ==
  ASSUME IInv, NEW p \in Peer, FetchLonger(p)
  PROVE  IInv'
<1>1. /\ pc[p] = "fetch" /\ pc' = [pc EXCEPT ![p] = "lock"]
      /\ UNCHANGED <<config, stopping, chain, mempool, expired, db_lock, fork_lock, checkpoint, verdicts>>
      /\ UNCHANGED rep
  BY Zenon DEF FetchLonger, Goto, mode
<1>0. PICK c \in Serves[job[p].src] : \E i \in 1..Len(c) :
        Holds(p, c, i) /\ job' = [job EXCEPT ![p].held = SubSeq(c, job[p].anc + 1, i)]
  BY Zenon DEF FetchLonger
<1>2. PICK k \in 1..Len(c) :
        /\ Holds(p, c, k)
        /\ job' = [job EXCEPT ![p] = [job[p] EXCEPT !.held = SubSeq(c, job[p].anc + 1, k)]]
  BY <1>0, Zenon
<1>3. /\ config.resolution = "measured" /\ Denies(p, job[p].tip, job[p].hash)
      /\ Measured(job[p], chain)
  BY <1>1, Now DEF Place, Resolving
<1>4. c \in Seq(Block) /\ Len(c) \in Nat
  <2>1. job[p].src \in Peer
    BY <1>3 DEF Measured, Aimed
  <2>2. c \in Seq(Block)
    BY <1>0, <2>1, ReorgAssumption, Zenon
  <2> QED
    BY <2>2
<1>5. job[p].anc \in Nat /\ job[p].tip \in Nat /\ k \in (job[p].anc + 1)..Len(c)
      /\ (Tie(p) => TheirsWinsTie(p, c))
  BY <1>2, Before, JobFields DEF Holds
<1> DEFINE a == job[p].anc
           s == SubSeq(c, a + 1, k)
           j == [job[p] EXCEPT !.held = s]
<1>6. s \in Seq(Block) /\ s # <<>> /\ s[1] = c[a + 1]
  <2>1. k \in Nat /\ a <= k /\ k <= Len(c) /\ 1 \in 1..(k - a)
    BY <1>4, <1>5
  <2>2. s \in Seq(Block) /\ Len(s) = k - a /\ \A i \in 1..(k - a) : s[i] = c[a + i]
    BY <1>4, <1>5, <2>1, UpperPart
  <2> HIDE DEF s
  <2> QED
    BY <1>5, <2>1, <2>2
<1>7. /\ j \in JobType /\ j.held = s /\ j.tip = job[p].tip /\ j.anc = a /\ j.src = job[p].src
      /\ j.hash = job[p].hash /\ j.checkpoint = job[p].checkpoint /\ j.claim = job[p].claim
  BY <1>6, Before DEF JobType
<1>8. job' = [job EXCEPT ![p] = j]
  BY <1>2
<1>9. Tied(j) => j.held[1] # chain[a + 1]
  <2> SUFFICES ASSUME Tied(j) PROVE c[a + 1] # chain[a + 1]
    BY <1>6, <1>7
  <2>1. a + 1 <= Len(c) /\ Rank[c[a + 1]] < Rank[chain[a + 1]]
    BY <1>5, <1>7 DEF Tied, Tie, TheirsWinsTie
  <2>2. c[a + 1] \in Block
    BY <1>4, <1>5, <2>1
  <2>3. Rank[c[a + 1]] \in Nat
    BY <2>2, ReorgAssumption
  <2> QED
    BY <2>1, <2>3
<1> HIDE DEF j, s
<1>10. Measured(j, chain)
  BY <1>3, <1>7 DEF Measured, Aimed, Sanctioned
<1>11. Grabbed(j, chain)
  BY <1>6, <1>7, <1>9 DEF Grabbed
<1>12. "lock" \in Labels /\ "lock" \in Resolving /\ "lock" \notin Holding
       /\ "fetch" \in Resolving /\ "fetch" \notin Holding
  BY DEF Labels, Holding, Resolving, Adopting
<1>13. Place(p, "lock", j, chain, config.resolution, stopping)
  BY <1>3, <1>7, <1>10, <1>11 DEF Place, Adopting
<1>14. RepType' /\ checkpoint' \in Int /\ verdicts' \subseteq Block \X Peer
  BY <1>1, Before, SameRep
<1> QED
  BY <1>1, <1>7, <1>8, <1>12, <1>13, <1>14, Still

LEMMA CheckInv ==
  ASSUME IInv, NEW p \in Peer, CheckLock(p)
  PROVE  IInv'
<1>1. /\ pc[p] = "lock"
      /\ UNCHANGED <<config, stopping, chain, mempool, expired, db_lock, checkpoint, verdicts>>
      /\ UNCHANGED rep
      /\ \/ pc' = [pc EXCEPT ![p] = "acquire"] /\ UNCHANGED <<job, fork_lock>>
         \/ End(p) /\ fork_lock' = Free
  BY Zenon DEF CheckLock, Leave, Goto, mode
<1>2. "acquire" \in Labels /\ "acquire" \in Resolving /\ "acquire" \notin Holding
      /\ "lock" \in Resolving /\ "lock" \notin Holding
  BY DEF Labels, Holding, Resolving, Adopting
<1>3. RepType' /\ checkpoint' \in Int /\ verdicts' \subseteq Block \X Peer
  BY <1>1, Before, SameRep
<1>4. CASE End(p) /\ fork_lock' = Free
  BY <1>1, <1>2, <1>3, <1>4, EndInv
<1>5. CASE pc' = [pc EXCEPT ![p] = "acquire"] /\ UNCHANGED <<job, fork_lock>>
  <2>1. job' = [job EXCEPT ![p] = job[p]]
    BY <1>5, Before
  <2>2. Place(p, "lock", job[p], chain, config.resolution, stopping)
    BY <1>1, Now
  <2>3. Place(p, "acquire", job[p], chain, config.resolution, stopping)
    BY <2>2 DEF Place, Resolving, Adopting
  <2> QED
    BY <1>1, <1>2, <1>3, <1>5, <2>1, <2>3, Before, Still
<1> QED
  BY <1>1, <1>4, <1>5

-----------------------------------------------------------------------------
(* The reorganisation. *)
LEMMA RollInv ==
  ASSUME IInv, NEW p \in Peer, RollToLocked(p)
  PROVE  IInv'
<1> DEFINE a == job[p].anc
           j == [job[p] EXCEPT !.backup = Backup(p), !.todo = job[p].held, !.was = chain]
<1>1. /\ pc[p] = "acquire" /\ db_lock = Free /\ db_lock' = p
      /\ pc' = [pc EXCEPT ![p] = "apply"] /\ chain' = SubSeq(chain, 1, a) /\ verdicts' = {}
      /\ job' = [job EXCEPT ![p].backup = Backup(p), ![p].todo = job[p].held, ![p].was = chain]
      /\ UNCHANGED <<config, stopping, mempool, expired, fork_lock, checkpoint>>
      /\ UNCHANGED rep
  BY Zenon DEF RollToLocked, Goto, mode
<1>2. /\ config.resolution = "measured" /\ Denies(p, job[p].tip, job[p].hash)
      /\ Measured(job[p], chain) /\ Grabbed(job[p], chain)
  BY <1>1, Now DEF Place, Resolving
<1>3. a \in Nat /\ job[p].tip \in Nat /\ job[p].held \in Seq(Block)
  BY Before, JobFields
<1>4. a \in 1..Len(chain) /\ a \in 0..Len(chain) /\ a <= Len(chain) /\ job[p].tip <= Len(chain)
  BY <1>2, <1>3, Before DEF Measured, Aimed
<1>5. Backup(p) \in Seq(Block) /\ Follows(Backup(p), chain, a)
  <2>1. /\ Backup(p) \in Seq(Block) /\ Len(Backup(p)) = Len(chain) - a
        /\ \A i \in 1..(Len(chain) - a) : Backup(p)[i] = chain[a + i]
    <3>1. chain \in Seq(Block) /\ Len(chain) \in Nat /\ Len(chain) <= Len(chain)
      BY Before
    <3> HIDE DEF a
    <3>2. /\ SubSeq(chain, a + 1, Len(chain)) \in Seq(Block)
          /\ Len(SubSeq(chain, a + 1, Len(chain))) = Len(chain) - a
          /\ \A i \in 1..(Len(chain) - a) : SubSeq(chain, a + 1, Len(chain))[i] = chain[a + i]
      BY <1>3, <1>4, <3>1, UpperPart
    <3> QED
      BY <3>2, Zenon DEF Backup, a
  <2> QED
    BY <2>1 DEF Follows
<1>6. /\ j \in JobType /\ j.backup = Backup(p) /\ j.todo = job[p].held /\ j.was = chain
      /\ j.tip = job[p].tip /\ j.anc = a /\ j.src = job[p].src /\ j.held = job[p].held
      /\ j.hash = job[p].hash /\ j.checkpoint = job[p].checkpoint /\ j.claim = job[p].claim
      /\ job' = [job EXCEPT ![p] = j]
  BY <1>1, <1>3, <1>5, Before DEF JobType
<1> HIDE DEF j
<1>7. Climbs(chain') /\ Len(chain') = a /\ Agree(chain', chain, a)
  BY <1>1, <1>4, Before, ClimbsPart, PartProperties
<1>8. Saved(j, chain')
  <2>1. Aimed(j)
    BY <1>2, <1>6 DEF Measured, Aimed, Sanctioned
  <2> QED
    BY <1>4, <1>5, <1>6, <1>7, <2>1, Before DEF Saved
<1>9. Trying(j, chain')
  <2>1. ~(Len(chain') > a)
    BY <1>3, <1>7
  <2>2. Tied(j) => j.todo[1] # chain[a + 1]
    BY <1>2, <1>6 DEF Tied, Grabbed
  <2> QED
    BY <1>6, <2>1, <2>2 DEF Trying
<1>10. "apply" \in Labels /\ "apply" \in Resolving /\ "apply" \in Holding
       /\ "acquire" \in Resolving /\ "acquire" \notin Holding
  BY DEF Labels, Holding, Resolving, Adopting
<1>11. Place(p, "apply", j, chain', config.resolution, stopping)
  BY <1>2, <1>6, <1>8, <1>9 DEF Place
<1>12. /\ RepType' /\ checkpoint' \in Int /\ verdicts' \subseteq Block \X Peer
       /\ mempool' \subseteq Tx /\ expired' \subseteq Tx /\ PoolAffordable'
  BY <1>1, Before, SameRep DEF PoolAffordable, pending
<1>13. /\ pc[p] \in Resolving /\ pc[p] \notin Holding /\ db_lock = Free /\ db_lock' = p
       /\ pc' = [pc EXCEPT ![p] = "apply"] /\ UNCHANGED <<config, stopping, fork_lock>>
  BY <1>1, <1>10
<1>14. j \in JobType /\ job' = [job EXCEPT ![p] = j]
  BY <1>6
<1> QED
  BY <1>7, <1>10, <1>11, <1>12, <1>13, <1>14, Step

(* The pool only shrinks while blocks are applied. *)
LEMMA PoolShrinks ==
  ASSUME IInv, mempool' \subseteq mempool, expired \subseteq expired', expired' \subseteq Tx
  PROVE  PoolAffordable' /\ mempool' \subseteq Tx /\ expired' \subseteq Tx
  BY DEF IInv, TypeOK, PoolAffordable, pending

LEMMA CheckpointType ==
  ASSUME config \in Configs, NEW n \in Nat
  PROVE  Checkpoint(n) \in Int
<1>1. config.depth \in Nat \ {0}
  BY ReorgAssumption
<1> DEFINE d == config.depth
           k == n \div d
<1>2. d \in Int /\ k \in Int
  BY <1>1
<1> HIDE DEF d, k
<1>3. k * d - d \in Int
  BY <1>2
<1> QED
  BY <1>3 DEF Checkpoint, d, k

(* What is left to do after the first block of a branch. *)
LEMMA RestType ==
  ASSUME NEW s \in Seq(Block), s # <<>>
  PROVE  /\ Head(s) \in Block /\ Head(s) = s[1] /\ Tail(s) \in Seq(Block)
         /\ Len(s) \in Nat /\ Len(s) >= 1
         /\ Len(Tail(s)) = Len(s) - 1 /\ \A i \in 1..(Len(s) - 1) : Tail(s)[i] = s[i + 1]
<1>1. Head(s) \in Block /\ Head(s) = s[1] /\ Tail(s) \in Seq(Block) /\ Len(s) \in Nat /\ Len(s) >= 1
  OBVIOUS
<1>2. Len(Tail(s)) = Len(s) - 1 /\ \A i \in 1..Len(Tail(s)) : Tail(s)[i] = s[i + 1]
  BY HeadTailProperties
<1> QED
  BY <1>1, <1>2

LEMMA CommitChain ==
  ASSUME IInv, NEW p \in Peer, job[p].todo # <<>>, Commit(p, Head(job[p].todo))
  PROVE  LET b == Head(job[p].todo)
             j == [job[p] EXCEPT !.todo = Tail(job[p].todo)]
         IN  /\ b \in Block /\ b = job[p].todo[1]
             /\ Climbs(chain') /\ Len(chain') = Len(chain) + 1 /\ Agree(chain, chain', Len(chain))
             /\ chain'[Len(chain) + 1] = b
             /\ j \in JobType /\ job' = [job EXCEPT ![p] = j]
             /\ j.todo = Tail(job[p].todo) /\ j.was = job[p].was /\ j.backup = job[p].backup
             /\ j.tip = job[p].tip /\ j.anc = job[p].anc /\ j.src = job[p].src
             /\ j.hash = job[p].hash /\ j.checkpoint = job[p].checkpoint /\ j.claim = job[p].claim
             /\ pc' = [pc EXCEPT ![p] = pc[p]]
             /\ UNCHANGED <<config, stopping, db_lock, fork_lock>>
             /\ checkpoint' \in Int /\ verdicts' \subseteq Block \X Peer
             /\ PoolAffordable' /\ mempool' \subseteq Tx /\ expired' \subseteq Tx
<1> DEFINE b == Head(job[p].todo)
           j == [job[p] EXCEPT !.todo = Tail(job[p].todo)]
<1>1. /\ Valid(chain, b) /\ chain' = Append(chain, b) /\ mempool' = mempool \ TxsIn(b)
      /\ job' = [job EXCEPT ![p] = [job[p] EXCEPT !.todo = Tail(job[p].todo)]]
      /\ UNCHANGED <<pc, checkpoint, expired, verdicts, db_lock, fork_lock, config, stopping>>
  BY Zenon DEF Commit, Accepted, mode
<1>2. job[p].todo \in Seq(Block)
  BY Before, JobFields
<1>3. b \in Block /\ b = job[p].todo[1] /\ Tail(job[p].todo) \in Seq(Block)
  BY <1>2, RestType
<1>4. Climbs(chain') /\ Len(chain') = Len(chain) + 1 /\ Agree(chain, chain', Len(chain))
      /\ chain'[Len(chain) + 1] = b
  BY <1>1, <1>3, Before, ClimbsAppend, AppendAgrees
<1>5. /\ j \in JobType
      /\ j.todo = Tail(job[p].todo) /\ j.was = job[p].was /\ j.backup = job[p].backup
      /\ j.tip = job[p].tip /\ j.anc = job[p].anc /\ j.src = job[p].src
      /\ j.hash = job[p].hash /\ j.checkpoint = job[p].checkpoint /\ j.claim = job[p].claim
  BY <1>3, Before DEF JobType
<1>6. pc' = [pc EXCEPT ![p] = pc[p]] /\ checkpoint' \in Int /\ verdicts' \subseteq Block \X Peer
  BY <1>1, Before
<1>7. PoolAffordable' /\ mempool' \subseteq Tx /\ expired' \subseteq Tx
  BY <1>1, Before, PoolShrinks
<1> QED
  BY <1>1, <1>3, <1>4, <1>5, <1>6, <1>7

LEMMA AgreesOn ==
  ASSUME NEW c \in Seq(Block), NEW d \in Seq(Block), NEW w \in Seq(Block), NEW n \in Nat,
         Agree(c, w, n), Agree(c, d, Len(c))
  PROVE  Agree(d, w, n)
<1>1. Len(c) \in Nat /\ Len(d) \in Nat /\ Len(w) \in Nat
  OBVIOUS
<1> QED
  BY <1>1 DEF Agree

LEMMA ApplyInv ==
  ASSUME IInv, NEW p \in Peer, ApplyHeld(p)
  PROVE  IInv'
<1>1. pc[p] = "apply"
  BY Zenon DEF ApplyHeld
<1>2. /\ config.resolution = "measured" /\ Denies(p, job[p].tip, job[p].hash)
      /\ Saved(job[p], chain) /\ Trying(job[p], chain)
  BY <1>1, Now DEF Place, Resolving, Adopting
<1>3. /\ job[p].src \in Peer /\ job[p].anc \in Nat /\ job[p].was \in Seq(Block)
      /\ job[p].anc <= Len(chain) /\ Agree(chain, job[p].was, job[p].anc)
  BY <1>2, Before, JobFields DEF Saved, Aimed, Agree
<1>4. /\ "apply" \in Labels /\ "apply" \in Resolving /\ "apply" \in Holding
      /\ "decide" \in Labels /\ "decide" \in Resolving /\ "decide" \in Holding
  BY DEF Labels, Holding, Resolving, Adopting
<1>5. CASE job[p].todo = <<>> \/ stopping
  <2>1. /\ Reward(job[p].src) /\ checkpoint' = Checkpoint(Len(chain))
        /\ pc' = [pc EXCEPT ![p] = "decide"]
        /\ UNCHANGED <<job, chain, mempool, expired, verdicts, db_lock, fork_lock, config, stopping>>
    BY <1>5, Zenon DEF ApplyHeld, Goto, mode
  <2>2. RepType'
    BY <1>3, <2>1, Before, CreditType DEF Reward
  <2>3. checkpoint' \in Int /\ verdicts' \subseteq Block \X Peer
    BY <2>1, Before, CheckpointType
  <2>4. job' = [job EXCEPT ![p] = job[p]]
    BY <2>1, Before
  <2>5. Place(p, "decide", job[p], chain, config.resolution, stopping)
    BY <1>2 DEF Place
  <2> QED
    BY <1>1, <1>4, <2>1, <2>2, <2>3, <2>4, <2>5, Before, Still
<1> DEFINE b == Head(job[p].todo)
<1>6. CASE job[p].todo # <<>> /\ Commit(p, b) /\ Unban(job[p].src)
  <2> DEFINE j == [job[p] EXCEPT !.todo = Tail(job[p].todo)]
  <2>1. /\ b = job[p].todo[1]
        /\ Climbs(chain') /\ Len(chain') = Len(chain) + 1 /\ Agree(chain, chain', Len(chain))
        /\ chain'[Len(chain) + 1] = b
        /\ j \in JobType /\ job' = [job EXCEPT ![p] = j]
        /\ j.todo = Tail(job[p].todo) /\ j.was = job[p].was /\ j.backup = job[p].backup
        /\ j.tip = job[p].tip /\ j.anc = job[p].anc /\ j.src = job[p].src
        /\ j.hash = job[p].hash /\ j.checkpoint = job[p].checkpoint /\ j.claim = job[p].claim
        /\ pc' = [pc EXCEPT ![p] = pc[p]]
        /\ UNCHANGED <<config, stopping, db_lock, fork_lock>>
        /\ checkpoint' \in Int /\ verdicts' \subseteq Block \X Peer
        /\ PoolAffordable' /\ mempool' \subseteq Tx /\ expired' \subseteq Tx
    BY <1>6, CommitChain
  <2> HIDE DEF j, b
  <2>2. RepType'
    BY <1>3, <1>6, Before, CreditType DEF Unban
  <2>3. chain' \in Seq(Block) /\ Agree(chain', job[p].was, job[p].anc)
    BY <1>3, <2>1, Before, AgreesOn DEF Climbs
  <2>4. Saved(j, chain')
    BY <1>2, <2>1, <2>3 DEF Saved, Aimed, Sanctioned
  <2>5. Trying(j, chain')
    <3> SUFFICES ASSUME Tied(j) PROVE chain'[job[p].anc + 1] # job[p].was[job[p].anc + 1]
      BY <1>3, <2>1, Before DEF Trying
    <3>1. Tied(job[p])
      BY <2>1 DEF Tied
    <3>2. CASE Len(chain) > job[p].anc
      <4>1. job[p].anc + 1 \in 1..Len(chain)
        BY <1>3, <3>2, Before
      <4>2. chain'[job[p].anc + 1] = chain[job[p].anc + 1]
        BY <2>1, <4>1 DEF Agree
      <4> QED
        BY <1>2, <3>1, <3>2, <4>2 DEF Trying
    <3>3. CASE Len(chain) = job[p].anc
      BY <1>2, <1>6, <2>1, <3>1, <3>3 DEF Trying
    <3> QED
      BY <1>3, <3>2, <3>3, Before
  <2>6. Place(p, "apply", j, chain', config.resolution, stopping)
    BY <1>2, <2>1, <2>4, <2>5 DEF Place
  <2> QED
    BY <1>1, <1>4, <2>1, <2>2, <2>6, Step
<1>7. CASE /\ Reject(p, b) /\ Punish(job[p].src, 0, 2) /\ Goto(p, "decide")
           /\ UNCHANGED <<chain, checkpoint, expired, verdicts, db_lock, fork_lock, mode>>
  <2> DEFINE j == [job[p] EXCEPT !.todo = <<>>]
  <2>1. /\ mempool' \subseteq mempool /\ pc' = [pc EXCEPT ![p] = "decide"]
        /\ job' = [job EXCEPT ![p] = j]
        /\ UNCHANGED <<chain, checkpoint, expired, verdicts, db_lock, fork_lock, config, stopping>>
    BY <1>7, Zenon DEF Reject, Goto, mode
  <2>2. /\ j \in JobType
        /\ j.todo = <<>> /\ j.was = job[p].was /\ j.backup = job[p].backup
        /\ j.tip = job[p].tip /\ j.anc = job[p].anc /\ j.src = job[p].src
        /\ j.hash = job[p].hash /\ j.checkpoint = job[p].checkpoint /\ j.claim = job[p].claim
    <3>1. <<>> \in Seq(Block)
      OBVIOUS
    <3> QED
      BY <3>1, Before DEF JobType
  <2> HIDE DEF j
  <2>3. RepType'
    BY <1>3, <1>7, Before, PunishType
  <2>4. Saved(j, chain')
    BY <1>2, <2>1, <2>2 DEF Saved, Aimed, Sanctioned
  <2>5. Trying(j, chain')
    BY <1>2, <2>1, <2>2 DEF Trying, Tied
  <2>6. Place(p, "decide", j, chain', config.resolution, stopping)
    BY <1>2, <2>2, <2>4, <2>5 DEF Place
  <2>7. /\ checkpoint' \in Int /\ verdicts' \subseteq Block \X Peer /\ Climbs(chain')
        /\ PoolAffordable' /\ mempool' \subseteq Tx /\ expired' \subseteq Tx
    BY <2>1, Before, PoolShrinks
  <2> QED
    BY <1>1, <1>4, <2>1, <2>2, <2>3, <2>6, <2>7, Step
<1>8. \/ job[p].todo = <<>> \/ stopping
      \/ job[p].todo # <<>> /\ Commit(p, b) /\ Unban(job[p].src)
      \/ /\ Reject(p, b) /\ Punish(job[p].src, 0, 2) /\ Goto(p, "decide")
         /\ UNCHANGED <<chain, checkpoint, expired, verdicts, db_lock, fork_lock, mode>>
  BY Zenon DEF ApplyHeld
<1> QED
  BY <1>5, <1>6, <1>7, <1>8

LEMMA AdoptInv ==
  ASSUME IInv, NEW p \in Peer, Adopt(p)
  PROVE  IInv'
<1>1. /\ pc[p] = "decide" /\ db_lock' = Free /\ pc' = [pc EXCEPT ![p] = "return"]
      /\ UNCHANGED <<job, chain, checkpoint, mempool, expired, verdicts, fork_lock, config, stopping>>
      /\ UNCHANGED rep
  BY Zenon DEF Adopt, Goto, mode
<1>2. /\ config.resolution = "measured" /\ Denies(p, job[p].tip, job[p].hash)
      /\ Saved(job[p], chain)
  BY <1>1, Now DEF Place, Resolving, Adopting
<1>3. "decide" \in Resolving /\ "decide" \in Holding
      /\ "return" \in Labels /\ "return" \in Resolving /\ "return" \notin Holding
  BY DEF Labels, Holding, Resolving, Adopting
<1>4. job' = [job EXCEPT ![p] = job[p]]
  BY <1>1, Before
<1>5. NoRivals(TxsOn(job[p].backup))
  BY <1>2, Before, JobFields, BranchNoRivals DEF Saved
<1>6. Place(p, "return", job[p], chain, config.resolution, stopping)
  BY <1>2, <1>5 DEF Place, Adopting
<1>7. RepType' /\ checkpoint' \in Int /\ verdicts' \subseteq Block \X Peer
  BY <1>1, Before, SameRep
<1> QED
  BY <1>1, <1>3, <1>4, <1>6, <1>7, Before, Still

LEMMA GiveUpInv ==
  ASSUME IInv, NEW p \in Peer, GiveUp(p)
  PROVE  IInv'
<1> DEFINE a == job[p].anc
           j == [job[p] EXCEPT !.todo = job[p].backup]
<1>1. /\ pc[p] = "decide" /\ pc' = [pc EXCEPT ![p] = "restore"]
      /\ chain' = SubSeq(chain, 1, a) /\ verdicts' = {} /\ job' = [job EXCEPT ![p] = j]
      /\ UNCHANGED <<checkpoint, mempool, expired, db_lock, fork_lock, config, stopping>>
      /\ UNCHANGED rep
  BY Zenon DEF GiveUp, Goto, mode
<1>2. /\ config.resolution = "measured" /\ Denies(p, job[p].tip, job[p].hash)
      /\ Saved(job[p], chain)
  BY <1>1, Now DEF Place, Resolving, Adopting
<1>3. a \in Nat /\ job[p].tip \in Nat /\ job[p].backup \in Seq(Block) /\ job[p].was \in Seq(Block)
  BY Before, JobFields
<1>4. a \in 1..Len(chain) /\ a \in 0..Len(chain) /\ Agree(chain, job[p].was, a)
  BY <1>2, <1>3, Before DEF Saved, Aimed, Agree
<1>5. /\ j \in JobType
      /\ j.todo = job[p].backup /\ j.was = job[p].was /\ j.backup = job[p].backup
      /\ j.tip = job[p].tip /\ j.anc = a /\ j.src = job[p].src
      /\ j.hash = job[p].hash /\ j.checkpoint = job[p].checkpoint
  BY <1>3, Before DEF JobType
<1>6. Climbs(chain') /\ Len(chain') = a /\ Agree(chain', chain, a)
  BY <1>1, <1>4, Before, ClimbsPart, PartProperties
<1> HIDE DEF j, a
<1>7. Agree(chain', job[p].was, a)
  BY <1>4, <1>6 DEF Agree
<1>8. Saved(j, chain')
  BY <1>2, <1>5, <1>7 DEF Saved, Aimed, Sanctioned, a
<1>9. Restoring(j, chain')
  BY <1>2, <1>5, <1>6, <1>7 DEF Saved, Restoring, a
<1>10. "restore" \in Labels /\ "restore" \in Resolving /\ "restore" \in Holding
       /\ "decide" \in Resolving /\ "decide" \in Holding
  BY DEF Labels, Holding, Resolving, Adopting
<1>11. Place(p, "restore", j, chain', config.resolution, stopping)
  BY <1>2, <1>5, <1>8, <1>9 DEF Place
<1>12. /\ RepType' /\ checkpoint' \in Int /\ verdicts' \subseteq Block \X Peer
       /\ mempool' \subseteq Tx /\ expired' \subseteq Tx /\ PoolAffordable'
  BY <1>1, Before, SameRep DEF PoolAffordable, pending
<1> QED
  BY <1>1, <1>5, <1>6, <1>10, <1>11, <1>12, Step

(* Our own blocks pass validation again, one after the other. *)
LEMMA OwnValid ==
  ASSUME IInv, NEW p \in Peer, pc[p] = "restore", job[p].todo # <<>>
  PROVE  /\ Accepted(Head(job[p].todo))
         /\ Len(chain) + 1 <= Len(job[p].was)
         /\ Head(job[p].todo) = job[p].was[Len(chain) + 1]
<1> DEFINE w == job[p].was
<1>1. Saved(job[p], chain) /\ Restoring(job[p], chain)
  BY Now DEF Place, Adopting
<1>2. w \in Seq(Block) /\ job[p].todo \in Seq(Block) /\ Len(w) \in Nat
  BY Before, JobFields
<1>3. Head(job[p].todo) = job[p].todo[1] /\ Len(job[p].todo) \in Nat /\ Len(job[p].todo) >= 1
  BY <1>2, RestType
<1>4. Len(chain) + 1 \in 2..Len(w) /\ Len(chain) + 1 <= Len(w) /\ job[p].todo[1] = w[Len(chain) + 1]
  BY <1>1, <1>2, <1>3, Before DEF Restoring, Follows
<1>5. SubSeq(w, 1, Len(chain)) = chain
  <2>1. SubSeq(chain, 1, Len(chain)) = SubSeq(w, 1, Len(chain))
    BY <1>1, <1>2, Before, SameParts DEF Restoring
  <2> QED
    BY <2>1, Before, WholePart
<1>6. Valid(SubSeq(w, 1, Len(chain) + 1 - 1), w[Len(chain) + 1])
  BY <1>1, <1>4 DEF Saved, Climbs
<1>7. Len(chain) + 1 - 1 = Len(chain)
  BY Before
<1> QED
  BY <1>3, <1>4, <1>5, <1>6, <1>7 DEF Accepted

LEMMA RestoreInv ==
  ASSUME IInv, NEW p \in Peer, Restore(p)
  PROVE  IInv'
<1> DEFINE b == Head(job[p].todo)
<1>1. pc[p] = "restore" /\ UNCHANGED rep
  BY Zenon DEF Restore
<1>2. /\ config.resolution = "measured" /\ Denies(p, job[p].tip, job[p].hash)
      /\ Saved(job[p], chain) /\ Restoring(job[p], chain)
  BY <1>1, Now DEF Place, Resolving, Adopting
<1>3. /\ job[p].src \in Peer /\ job[p].anc \in Nat /\ job[p].was \in Seq(Block)
      /\ Len(job[p].was) \in Nat /\ job[p].todo \in Seq(Block)
      /\ Agree(chain, job[p].was, job[p].anc)
  BY <1>2, Before, JobFields DEF Saved, Aimed
<1>4. /\ "restore" \in Labels /\ "restore" \in Resolving /\ "restore" \in Holding
      /\ "blame" \in Labels /\ "blame" \in Resolving /\ "blame" \notin Holding
  BY DEF Labels, Holding, Resolving, Adopting
<1>5. RepType'
  BY <1>1, Before, SameRep
<1>6. CASE job[p].todo = <<>> \/ stopping
  <2>1. /\ checkpoint' = Checkpoint(Len(chain)) /\ db_lock' = Free
        /\ pc' = [pc EXCEPT ![p] = "blame"]
        /\ UNCHANGED <<job, chain, mempool, expired, verdicts, fork_lock, config, stopping>>
    BY <1>6, Zenon DEF Restore, Goto, mode
  <2>2. checkpoint' \in Int /\ verdicts' \subseteq Block \X Peer
    BY <2>1, Before, CheckpointType
  <2>3. job' = [job EXCEPT ![p] = job[p]]
    BY <2>1, Before
  <2>4. ~stopping => Agree(job[p].was, chain, Len(job[p].was))
    <3> SUFFICES ASSUME job[p].todo = <<>> PROVE Agree(job[p].was, chain, Len(job[p].was))
      BY <1>6
    <3>1. Len(job[p].was) = Len(chain)
      BY <1>2, <1>3, Before DEF Restoring, Follows
    <3> QED
      BY <1>2, <3>1 DEF Restoring, Agree
  <2>5. Place(p, "blame", job[p], chain, config.resolution, stopping)
    BY <1>2, <1>3, <2>4 DEF Place, Adopting
  <2> QED
    BY <1>1, <1>4, <1>5, <2>1, <2>2, <2>3, <2>5, Before, Still
<1>7. CASE job[p].todo # <<>> /\ Commit(p, b)
  <2> DEFINE j == [job[p] EXCEPT !.todo = Tail(job[p].todo)]
  <2>1. /\ b = job[p].todo[1]
        /\ Climbs(chain') /\ Len(chain') = Len(chain) + 1 /\ Agree(chain, chain', Len(chain))
        /\ chain'[Len(chain) + 1] = b
        /\ j \in JobType /\ job' = [job EXCEPT ![p] = j]
        /\ j.todo = Tail(job[p].todo) /\ j.was = job[p].was /\ j.backup = job[p].backup
        /\ j.tip = job[p].tip /\ j.anc = job[p].anc /\ j.src = job[p].src
        /\ j.hash = job[p].hash /\ j.checkpoint = job[p].checkpoint /\ j.claim = job[p].claim
        /\ pc' = [pc EXCEPT ![p] = pc[p]]
        /\ UNCHANGED <<config, stopping, db_lock, fork_lock>>
        /\ checkpoint' \in Int /\ verdicts' \subseteq Block \X Peer
        /\ PoolAffordable' /\ mempool' \subseteq Tx /\ expired' \subseteq Tx
    BY <1>7, CommitChain
  <2>2. Len(chain) + 1 <= Len(job[p].was) /\ b = job[p].was[Len(chain) + 1]
    BY <1>1, <1>7, OwnValid
  <2>3. chain' \in Seq(Block) /\ Agree(chain', job[p].was, job[p].anc)
    BY <1>3, <2>1, Before, AgreesOn DEF Climbs
  <2>4. Saved(j, chain')
    BY <1>2, <2>1, <2>3 DEF Saved, Aimed, Sanctioned
  <2>5. Agree(chain', job[p].was, Len(chain'))
    <3>1. \A h \in 1..Len(chain) : chain'[h] = job[p].was[h]
      BY <1>2, <2>1 DEF Restoring, Agree
    <3>2. \A h \in 1..(Len(chain) + 1) : h \in 1..Len(chain) \/ h = Len(chain) + 1
      BY Before
    <3>3. Len(chain') <= Len(chain')
      BY <2>1, Before
    <3> QED
      BY <2>1, <2>2, <3>1, <3>2, <3>3 DEF Agree
  <2>6. Follows(j.todo, job[p].was, Len(chain'))
    <3> DEFINE s == job[p].todo
               w == job[p].was
               n == Len(chain)
    <3>1. /\ Len(Tail(s)) = Len(s) - 1 /\ Len(s) \in Nat /\ Len(s) >= 1
          /\ \A i \in 1..(Len(s) - 1) : Tail(s)[i] = s[i + 1]
      BY <1>3, <1>7, RestType
    <3>2. Len(s) = Len(w) - n /\ \A i \in 1..Len(s) : s[i] = w[n + i]
      BY <1>2 DEF Restoring, Follows
    <3>3. n \in Nat /\ Len(w) \in Nat
      BY <1>3, Before
    <3> HIDE DEF s, w, n
    <3>4. \A i \in 1..(Len(s) - 1) : i + 1 \in 1..Len(s) /\ n + (i + 1) = (n + 1) + i
      BY <3>1, <3>3
    <3>5. \A i \in 1..(Len(s) - 1) : Tail(s)[i] = w[(n + 1) + i]
      BY <3>1, <3>2, <3>4
    <3>6. Len(Tail(s)) = Len(w) - (n + 1)
      BY <3>1, <3>2, <3>3
    <3>7. Follows(Tail(s), w, n + 1)
      BY <3>1, <3>5, <3>6 DEF Follows
    <3> QED
      BY <2>1, <3>7 DEF s, w, n
  <2>7. Restoring(j, chain')
    BY <2>1, <2>5, <2>6 DEF Restoring
  <2> HIDE DEF j, b
  <2>8. Place(p, "restore", j, chain', config.resolution, stopping)
    BY <1>2, <2>1, <2>4, <2>7 DEF Place
  <2> QED
    BY <1>1, <1>4, <1>5, <2>1, <2>8, Step
<1>8. \/ job[p].todo = <<>> \/ stopping
      \/ job[p].todo # <<>> /\ (Commit(p, b) \/ Reject(p, b))
  BY Zenon DEF Restore
<1>9. job[p].todo # <<>> => ~Reject(p, b)
  BY <1>1, OwnValid DEF Reject
<1> QED
  BY <1>6, <1>7, <1>8, <1>9

-----------------------------------------------------------------------------
(* Transactions come back: each is admissible, and they are of one branch. *)
LEMMA PoolJoin ==
  ASSUME PoolAffordable, mempool \subseteq Tx, NEW S \in SUBSET Tx, NoRivals(S),
         NEW back \in SUBSET {t \in S : Admissible(t)}, mempool' = mempool \cup back,
         expired \subseteq Tx, expired' = expired
  PROVE  PoolAffordable' /\ mempool' \subseteq Tx /\ expired' \subseteq Tx
<1>1. \A t \in back : t \in Tx /\ Rivals[t] \cap pending = {} /\ Rivals[t] \cap back = {}
  BY DEF Admissible, NoRivals
<1>2. \A u \in pending : Rivals[u] \cap back = {}
  <2> SUFFICES ASSUME NEW u \in pending, NEW t \in back PROVE t \notin Rivals[u]
    OBVIOUS
  <2>1. u \in Tx /\ u \notin Rivals[t]
    BY <1>1 DEF pending
  <2>2. t \in Rivals[u] => u \in Rivals[t]
    BY <2>1, BlocksAssumption
  <2> QED
    BY <2>1, <2>2
<1>3. PoolAffordable'
  <2>1. pending' \subseteq pending \cup back
    BY DEF pending
  <2> QED
    BY <1>1, <1>2, <2>1 DEF PoolAffordable
<1> QED
  BY <1>1, <1>3

LEMMA ReturnInv ==
  ASSUME IInv, NEW p \in Peer, ReturnTxs(p) \/ LegacyReturn(p)
  PROVE  IInv'
<1>1. /\ pc[p] \in {"return", "giveback"} /\ End(p)
      /\ UNCHANGED <<chain, checkpoint, expired, verdicts, db_lock, config, stopping>>
      /\ UNCHANGED rep
      /\ \/ pc[p] = "return" /\ fork_lock' = Free
         \/ pc[p] = "giveback" /\ UNCHANGED fork_lock
  <2>1. CASE ReturnTxs(p)
    BY <2>1, Zenon DEF ReturnTxs, Leave, mode
  <2>2. CASE LegacyReturn(p)
    BY <2>2, Zenon DEF LegacyReturn, mode
  <2> QED
    BY <2>1, <2>2
<1>2. PICK back \in SUBSET {t \in TxsOn(job[p].backup) : Admissible(t)} : mempool' = mempool \cup back
  BY Zenon DEF ReturnTxs, LegacyReturn
<1>3. NoRivals(TxsOn(job[p].backup)) /\ TxsOn(job[p].backup) \subseteq Tx
  BY <1>1, Now, Before, JobFields, TxsTyped DEF Place
<1>4. PoolAffordable' /\ mempool' \subseteq Tx /\ expired' \subseteq Tx
  BY <1>1, <1>2, <1>3, Before, PoolJoin
<1>5. pc' = [pc EXCEPT ![p] = "idle"] /\ job' = [job EXCEPT ![p] = NoJob]
  BY <1>1 DEF End, Goto
<1>6. /\ "idle" \in Labels /\ "idle" \notin Holding /\ "idle" \notin Resolving
      /\ "return" \in Resolving /\ "return" \notin Holding
      /\ "giveback" \notin Resolving /\ "giveback" \notin Holding
  BY DEF Labels, Holding, Resolving, Adopting
<1>7. RepType' /\ checkpoint' \in Int /\ verdicts' \subseteq Block \X Peer /\ Climbs(chain')
  BY <1>1, Before, SameRep
<1> QED
  BY <1>1, <1>4, <1>5, <1>6, <1>7, NoJobType, IdlePlace, Step

(* The last block of a chain of two or more, alone. *)
LEMMA LastFollows ==
  ASSUME NEW c \in Seq(Block), Len(c) >= 1
  PROVE  <<Last(c)>> \in Seq(Block) /\ Follows(<<Last(c)>>, c, Len(c) - 1)
<1>1. Last(c) \in Block /\ Len(c) \in Nat
  BY DEF Last
<1>2. <<Last(c)>> \in Seq(Block) /\ Len(<<Last(c)>>) = 1 /\ <<Last(c)>>[1] = c[Len(c)]
  BY <1>1 DEF Last
<1>3. Len(c) - (Len(c) - 1) = 1 /\ (Len(c) - 1) + 1 = Len(c)
  BY <1>1
<1>4. \A i \in 1..1 : i = 1
  OBVIOUS
<1> QED
  BY <1>2, <1>3, <1>4 DEF Follows

LEMMA AboveOne ==
  ASSUME NEW n \in Nat, n >= 1, n # 1
  PROVE  n > 1 /\ n >= 2 /\ n \in 2..n /\ n - 1 \in Nat /\ n - 1 \in 1..n
OBVIOUS

(* A peer that denies our tip denies a block above genesis. *)
LEMMA DeniesAbove ==
  ASSUME IInv, NEW p \in Peer, Denies(p, Len(chain), Last(chain))
  PROVE  Last(chain) # Genesis /\ Len(chain) >= 2
<1>1. chain[1] = Genesis /\ chain \in Seq(Block) /\ Len(chain) \in Nat /\ Len(chain) >= 1
  BY Before DEF Climbs
<1>2. Len(chain) # 1
  <2> SUFFICES ASSUME Len(chain) = 1 PROVE FALSE
    OBVIOUS
  <2>1. Last(chain) = Genesis
    BY <1>1 DEF Last
  <2>2. PICK c \in Serves[p] : ~Knows(c, 1, Genesis)
    BY <2>1 DEF Denies
  <2>3. c \in Seq(Block) /\ c # <<>> /\ Head(c) = Genesis
    BY <2>2, ReorgAssumption, Zenon
  <2>4. 1 <= Len(c) /\ c[1] = Genesis
    BY <2>3
  <2> QED
    BY <2>2, <2>4 DEF Knows
<1>3. Len(chain) >= 2 /\ Len(chain) \in 2..Len(chain)
  BY <1>1, <1>2, AboveOne
<1>4. Ts[Last(chain)] > Ts[Genesis]
  BY <1>3, Before DEF Climbs, Last
<1>5. Ts[Genesis] \in Nat
  BY BlocksAssumption
<1> QED
  BY <1>3, <1>4, <1>5

LEMMA LegacyInv ==
  ASSUME IInv, NEW p \in Peer, blocknf_legacy(p) \/ LegacySkip(p) \/ LegacyRoll(p)
  PROVE  IInv'
<1>1. /\ UNCHANGED <<checkpoint, mempool, expired, verdicts, db_lock, fork_lock, config, stopping>>
      /\ UNCHANGED rep
  BY Zenon DEF blocknf_legacy, LegacySkip, LegacyRoll, mode
<1>2. RepType' /\ checkpoint' \in Int /\ verdicts' \subseteq Block \X Peer
  BY <1>1, Before, SameRep
<1>3. /\ "legacy" \in Labels /\ "legacy" \notin Holding /\ "legacy" \notin Resolving
      /\ "giveback" \in Labels /\ "giveback" \notin Holding /\ "giveback" \notin Resolving
      /\ "idle" \notin Holding /\ "idle" \notin Resolving
  BY DEF Labels, Holding, Resolving, Adopting
<1>4. CASE blocknf_legacy(p)
  <2> DEFINE j == [job[p] EXCEPT !.hash = Last(chain)]
  <2>1. /\ config.resolution = "legacy" /\ pc[p] = "idle" /\ Denies(p, Len(chain), Last(chain))
        /\ pc' = [pc EXCEPT ![p] = "legacy"] /\ job' = [job EXCEPT ![p] = j]
        /\ UNCHANGED chain
    BY <1>4, Zenon DEF blocknf_legacy, Goto
  <2>2. Last(chain) \in Block /\ Last(chain) # Genesis
    BY <2>1, Before, LastBlock, DeniesAbove
  <2>3. j \in JobType /\ j.hash = Last(chain)
    BY <2>2, Before DEF JobType
  <2> HIDE DEF j
  <2>4. Place(p, "legacy", j, chain, config.resolution, stopping)
    BY <2>1, <2>2, <2>3 DEF Place, Resolving, Adopting
  <2> QED
    BY <1>1, <1>2, <1>3, <2>1, <2>3, <2>4, Still
<1>5. CASE LegacySkip(p)
  <2>1. pc[p] = "legacy" /\ End(p) /\ UNCHANGED chain
    BY <1>5, Zenon DEF LegacySkip
  <2> QED
    BY <1>1, <1>2, <1>3, <2>1, EndInv
<1>6. CASE LegacyRoll(p)
  <2> DEFINE j == [job[p] EXCEPT !.backup = <<Last(chain)>>]
             n == Len(chain) - 1
  <2>1. /\ pc[p] = "legacy" /\ ~MovedAway(p) /\ chain' = SubSeq(chain, 1, n)
        /\ pc' = [pc EXCEPT ![p] = "giveback"] /\ job' = [job EXCEPT ![p] = j]
    BY <1>6, Zenon DEF LegacyRoll, Goto
  <2>2. config.resolution = "legacy" /\ job[p].hash # Genesis
    BY <2>1, Now DEF Place
  <2>3. n \in 1..Len(chain) /\ n \in Nat
    <3>1. Last(chain) # Genesis /\ chain[1] = Genesis
      BY <2>1, <2>2, Before DEF MovedAway, Climbs
    <3>2. Len(chain) # 1
      BY <3>1 DEF Last
    <3> QED
      BY <3>2, Before, AboveOne
  <2>4. <<Last(chain)>> \in Seq(Block) /\ Follows(<<Last(chain)>>, chain, n)
    BY Before, LastFollows
  <2>5. j \in JobType /\ j.backup = <<Last(chain)>>
    BY <2>4, Before DEF JobType
  <2>6. NoRivals(TxsOn(<<Last(chain)>>))
    BY <2>3, <2>4, Before, BranchNoRivals
  <2>7. Climbs(chain')
    BY <2>1, <2>3, Before, ClimbsPart
  <2> HIDE DEF j, n
  <2>8. Place(p, "giveback", j, chain', config.resolution, stopping)
    BY <2>2, <2>5, <2>6 DEF Place, Resolving, Adopting
  <2>9. mempool' \subseteq Tx /\ expired' \subseteq Tx /\ PoolAffordable'
    BY <1>1, Before, PoolShrinks
  <2> QED
    BY <1>1, <1>2, <1>3, <2>1, <2>2, <2>5, <2>7, <2>8, <2>9, Step
<1> QED
  BY <1>4, <1>5, <1>6

-----------------------------------------------------------------------------
(* Forward sync. *)
LEMMA DigestLockInv ==
  ASSUME IInv, NEW p \in Peer, DigestLock(p)
  PROVE  IInv'
<1>1. /\ pc[p] = "idle" /\ db_lock = Free /\ db_lock' = p /\ pc' = [pc EXCEPT ![p] = "digest"]
      /\ UNCHANGED <<chain, checkpoint, mempool, expired, verdicts, fork_lock, config, stopping>>
      /\ UNCHANGED rep
  BY Zenon DEF DigestLock, Goto, mode
<1>2. PICK c \in Serves[p] :
        /\ Len(c) > Len(chain)
        /\ job' = [job EXCEPT ![p] = [job[p] EXCEPT !.todo = <<c[Len(chain) + 1]>>]]
  BY Zenon DEF DigestLock
<1>3. c \in Seq(Block)
  BY <1>2, ReorgAssumption, Zenon
<1> DEFINE b == c[Len(chain) + 1]
           j == [job[p] EXCEPT !.todo = <<b>>]
<1>4. b \in Block
  BY <1>2, <1>3, Before
<1>5. <<b>> \in Seq(Block) /\ <<b>> # <<>>
  BY <1>4
<1>6. j \in JobType /\ j.todo # <<>> /\ job' = [job EXCEPT ![p] = j]
  BY <1>2, <1>5, Before DEF JobType
<1> HIDE DEF j, b
<1>7. Place(p, "digest", j, chain, config.resolution, stopping)
  BY <1>6 DEF Place, Resolving, Adopting
<1>8. /\ "digest" \in Labels /\ "digest" \in Holding /\ "digest" \notin Resolving
      /\ "idle" \notin Holding /\ "idle" \notin Resolving
  BY DEF Labels, Holding, Resolving, Adopting
<1>9. RepType' /\ checkpoint' \in Int /\ verdicts' \subseteq Block \X Peer
  BY <1>1, Before, SameRep
<1> QED
  BY <1>1, <1>6, <1>7, <1>8, <1>9, Still

LEMMA DigestInv ==
  ASSUME IInv, NEW p \in Peer, Digest(p)
  PROVE  IInv'
<1> DEFINE b == Head(job[p].todo)
<1>1. /\ pc[p] = "digest" /\ db_lock' = Free
      /\ pc' = [pc EXCEPT ![p] = "idle"] /\ job' = [job EXCEPT ![p] = NoJob]
      /\ UNCHANGED <<expired, verdicts, fork_lock, config, stopping>>
  BY Zenon DEF Digest, End, Goto, mode
<1>2. \/ /\ Valid(chain, b) /\ chain' = Append(chain, b) /\ mempool' = mempool \ TxsIn(b)
         /\ checkpoint' = Checkpoint(Len(chain) + 1)
         /\ warnings' = [warnings EXCEPT ![p] = 0]
         /\ score' = [score EXCEPT ![p] = IF p \in Whitelist THEN @ ELSE Clamp(@ + RewardValidBlock)]
         /\ banlist' = banlist
      \/ /\ mempool' = mempool \ Evicted(b)
         /\ Punish(p, 0, 2) \/ Punish(p, PenaltyInvalidBlock, 2)
         /\ UNCHANGED <<chain, checkpoint>>
  BY Zenon DEF Digest, Accepted
<1>3. b \in Block
  <2>1. job[p].todo # <<>>
    BY <1>1, Now DEF Place
  <2> QED
    BY <2>1, Before, JobFields, RestType
<1> HIDE DEF b
<1>4. RepType'
  <2>1. PenaltyInvalidBlock \in Nat
    BY ReputationAssumption
  <2>2. CASE Punish(p, 0, 2) \/ Punish(p, PenaltyInvalidBlock, 2)
    BY <2>1, <2>2, Before, PunishType
  <2>3. CASE /\ warnings' = [warnings EXCEPT ![p] = 0]
             /\ score' = [score EXCEPT ![p] = IF p \in Whitelist THEN @ ELSE Clamp(@ + RewardValidBlock)]
             /\ banlist' = banlist
    BY <2>3, Before, CreditType
  <2> QED
    BY <1>2, <2>2, <2>3
<1>5. /\ Climbs(chain')
      /\ chain' = chain \/ (Len(chain') = Len(chain) + 1 /\ Agree(chain, chain', Len(chain)))
  <2>1. CASE Valid(chain, b) /\ chain' = Append(chain, b)
    BY <2>1, <1>3, Before, ClimbsAppend, AppendAgrees
  <2>2. CASE chain' = chain
    BY <2>2, Before
  <2> QED
    BY <1>2, <2>1, <2>2
<1>6. checkpoint' \in Int
  <2>1. Checkpoint(Len(chain) + 1) \in Int
    BY Before, CheckpointType
  <2> QED
    BY <1>2, <2>1, Before
<1>7. verdicts' \subseteq Block \X Peer /\ PoolAffordable' /\ mempool' \subseteq Tx /\ expired' \subseteq Tx
  <2>1. mempool' \subseteq mempool
    BY <1>2
  <2> QED
    BY <1>1, <2>1, Before, PoolShrinks
<1>8. /\ "digest" \in Holding /\ "digest" \notin Resolving
      /\ "idle" \in Labels /\ "idle" \notin Holding /\ "idle" \notin Resolving
  BY DEF Labels, Holding, Resolving, Adopting
<1> QED
  BY <1>1, <1>4, <1>5, <1>6, <1>7, <1>8, NoJobType, IdlePlace, Step

-----------------------------------------------------------------------------
(* Steps of no thread. *)
LEMMA OthersInv ==
  ASSUME IInv, \/ \E t \in Tx : Merge(t) \/ Age(t)
               \/ Purge
               \/ \E v \in verdicts : Expire(v)
               \/ Stop
               \/ UNCHANGED vars
  PROVE  IInv'
<1>1. /\ UNCHANGED <<config, pc, job, chain, checkpoint, db_lock, fork_lock>>
      /\ UNCHANGED rep /\ (stopping' = stopping \/ stopping' = TRUE)
      /\ verdicts' \subseteq verdicts
  BY Zenon DEF Merge, Age, Purge, Expire, Stop, vars, mode
<1>2. mempool' \subseteq Tx /\ expired' \subseteq Tx /\ PoolAffordable'
  <2>1. CASE \E t \in Tx : Merge(t)
    <3>1. PICK t \in Tx : Admissible(t) /\ mempool' = mempool \cup {t} /\ expired' = expired
      BY <2>1, Zenon DEF Merge
    <3>2. NoRivals({t}) /\ {t} \in SUBSET Tx /\ {t} \in SUBSET {u \in {t} : Admissible(u)}
      BY <3>1, BlocksAssumption DEF NoRivals
    <3>3. PoolAffordable /\ mempool \subseteq Tx /\ expired \subseteq Tx
      BY DEF IInv, TypeOK
    <3> QED
      BY <3>1, <3>2, <3>3, PoolJoin
  <2>2. expired \subseteq Tx
    BY DEF IInv, TypeOK
  <2>3. CASE \E t \in Tx : Age(t)
    <3>1. PICK t \in Tx : mempool' = mempool /\ expired' = expired \cup {t}
      BY <2>3, Zenon DEF Age
    <3> QED
      BY <2>2, <3>1, PoolShrinks
  <2>4. CASE Purge
    BY <2>2, <2>4, PoolShrinks DEF Purge, pending
  <2>5. CASE mempool' = mempool /\ expired' = expired
    BY <2>2, <2>5, PoolShrinks
  <2> QED
    BY <2>1, <2>3, <2>4, <2>5, Zenon DEF Expire, Stop, vars
<1>3. TypeOK'
  <2>1. RepType'
    BY <1>1, SameRep DEF IInv, TypeOK
  <2>2. stopping' \in BOOLEAN
    BY <1>1, Zenon DEF IInv, TypeOK
  <2>3. verdicts' \subseteq Block \X Peer
    BY <1>1 DEF IInv, TypeOK
  <2> QED
    BY <1>1, <1>2, <2>1, <2>2, <2>3, Zenon DEF IInv, TypeOK
<1>4. LocksHeld' /\ Climbs(chain)'
  BY <1>1, Zenon DEF IInv, LocksHeld, Climbs
<1>5. Threads'
  <2> SUFFICES ASSUME NEW p \in Peer
               PROVE  Place(p, pc[p], job[p], chain, config.resolution, stopping')
    BY <1>1, Zenon DEF Threads
  <2>1. Place(p, pc[p], job[p], chain, config.resolution, stopping)
    BY Now
  <2> QED
    BY <1>1, <2>1, Zenon DEF Place
<1> QED
  BY <1>2, <1>3, <1>4, <1>5 DEF IInv

LEMMA InitInv ==
  ASSUME Init
  PROVE  IInv
<1>1. /\ pc = [p \in Peer |-> "idle"] /\ job = [p \in Peer |-> NoJob] /\ chain = <<Genesis>>
      /\ config \in Configs /\ checkpoint = Checkpoint(1) /\ mempool = {} /\ expired = {}
      /\ verdicts = {}
      /\ db_lock = Free /\ fork_lock = Free /\ stopping = FALSE /\ RepInit
  BY Zenon DEF Init
<1>2. RepType
  <2>1. RepLimit \in Nat /\ 0 \in (-RepLimit)..RepLimit
    BY ReputationAssumption
  <2> QED
    BY <1>1, <2>1 DEF RepInit, RepType
<1>3. TypeOK
  <2>1. checkpoint \in Int
    BY <1>1, CheckpointType
  <2>2. chain \in Seq(Block) /\ chain # <<>>
    BY <1>1, BlocksAssumption
  <2>3. job \in [Peer -> JobType]
    BY <1>1, NoJobType
  <2>4. stopping \in BOOLEAN
    BY <1>1, Zenon
  <2>5. pc \in [Peer -> Resolving \cup {"idle", "gate", "digest", "legacy", "giveback"}]
    BY <1>1
  <2>6. /\ mempool \subseteq Tx /\ expired \subseteq Tx /\ verdicts \subseteq Block \X Peer
        /\ db_lock \in Peer \cup {Free} /\ fork_lock \in Peer \cup {Free}
    BY <1>1
  <2> QED
    BY <1>1, <1>2, <2>1, <2>2, <2>3, <2>4, <2>5, <2>6, Zenon DEF TypeOK
<1>4. LocksHeld
  <2>1. Free \notin Peer
    BY ReorgAssumption, Zenon
  <2> QED
    BY <1>1, <2>1 DEF LocksHeld, Resolving, Adopting
<1>5. Climbs(chain)
  BY <1>1, BlocksAssumption DEF Climbs
<1>6. Threads
  BY <1>1, IdlePlace DEF Threads
<1>7. PoolAffordable
  BY <1>1 DEF PoolAffordable, pending
<1> QED
  BY <1>3, <1>4, <1>5, <1>6, <1>7 DEF IInv

LEMMA NextInv ==
  ASSUME IInv, [Next]_vars
  PROVE  IInv'
<1>1. CASE \E p \in Peer : (\E n \in Claims : blocknf(p, n)) \/ Resolve(p) \/ Legacy(p)
                           \/ DigestLock(p) \/ Digest(p)
  <2>1. PICK p \in Peer : (\E n \in Claims : blocknf(p, n)) \/ Resolve(p) \/ Legacy(p)
                           \/ DigestLock(p) \/ Digest(p)
    BY <1>1
  <2>2. CASE Resolve(p)
    BY <2>2, GateInv, MeasureInv, RefuseInv, FetchInv, CheckInv, RollInv, ApplyInv, AdoptInv,
       GiveUpInv, RestoreInv, ReturnInv, Zenon DEF Resolve
  <2>3. CASE Legacy(p)
    BY <2>3, LegacyInv, ReturnInv, Zenon DEF Legacy
  <2> QED
    BY <2>1, <2>2, <2>3, GateInv, DigestLockInv, DigestInv, Zenon
<1>2. CASE \/ \E t \in Tx : Merge(t) \/ Age(t)
           \/ Purge
           \/ \E v \in verdicts : Expire(v)
           \/ Stop
           \/ UNCHANGED vars
  BY <1>2, OthersInv
<1> QED
  BY <1>1, <1>2, Zenon DEF Next

(* The inductive invariant: what Consistent says of the ledger, the locks  *)
(* and the pool, and what each thread of chain_ops.py may rely on at each  *)
(* of its exchanges, locks and blocks.                                     *)
THEOREM ReorgInvariant == Spec => []IInv
<1>1. Init => IInv
  BY InitInv
<1>2. IInv /\ [Next]_vars => IInv'
  BY NextInv
<1> QED
  BY <1>1, <1>2, PTL DEF Spec

(* At every step of concurrent fork resolutions and digests the ledger is  *)
(* one chain of valid blocks, each lock belongs to the thread inside what  *)
(* it guards, a failed reorganisation has given back every block it took,  *)
(* and the pool stays affordable (chain_ops.py, digest.py).                *)
THEOREM AlwaysConsistent == Spec => []Consistent
<1>1. IInv => Consistent
  <2> SUFFICES ASSUME IInv PROVE Consistent
    OBVIOUS
  <2>1. LedgerSound
    BY ClimbsSound DEF IInv, LedgerSound
  <2>2. Restored
    <3> SUFFICES ASSUME NEW p \in Peer, pc[p] = "blame", ~stopping
                 PROVE  IsPrefix(job[p].was, chain)
      BY Zenon DEF Restored
    <3>1. Agree(job[p].was, chain, Len(job[p].was))
      BY Now, Zenon DEF Place
    <3>2. job[p].was \in Seq(Block) /\ chain \in Seq(Block)
      BY Before, JobFields
    <3> QED
      BY <3>1, <3>2, PrefixAgrees
  <2> QED
    BY <2>1, <2>2, Zenon DEF IInv, Consistent
<1> QED
  BY <1>1, ReorgInvariant, PTL

(* No reorganisation takes blocks below the checkpoint it was measured     *)
(* against unless more than half of MIN_ANSWERS_DEEP peers deny our tip    *)
(* (chain_ops.py, majority_disagrees).                                     *)
THEOREM DeepAlwaysNeedsMajority == Spec => []DeepNeedsMajority
<1>1. IInv => DeepNeedsMajority
  <2> SUFFICES ASSUME IInv, NEW p \in Peer, pc[p] \in Adopting, ~floor_ok(p, job[p].anc)
               PROVE  2 * Cardinality({q \in Peer : Denies(q, job[p].tip, job[p].hash)})
                        > MinAnswersDeep
    BY Zenon DEF DeepNeedsMajority
  <2>1. Sanctioned(job[p])
    BY Now, Zenon DEF Place, Saved, Aimed
  <2> QED
    BY <2>1, Zenon DEF Sanctioned, floor_ok
<1> QED
  BY <1>1, ReorgInvariant, PTL

-----------------------------------------------------------------------------
(* The refinement of Ledger.  At most one thread is inside Adopting, the   *)
(* owner of node.db_lock; while there is one, the ledger of Ledger is the  *)
(* chain it found.                                                         *)
LEMMA TheOnlyOne ==
  ASSUME NEW pcs, NEW p \in Peer, pcs[p] \in Adopting, \A q \in Peer : pcs[q] \in Adopting => q = p
  PROVE  /\ \E q \in Peer : pcs[q] \in Adopting
         /\ (CHOOSE q \in Peer : pcs[q] \in Adopting) = p
OBVIOUS

LEMMA InsideBefore ==
  ASSUME LocksHeld, NEW p \in Peer, pc[p] \in Adopting
  PROVE  Busy /\ ledger = job[p].was /\ Current.tip = job[p].tip
<1>1. \A q \in Peer : pc[q] \in Adopting => q = p
  BY Zenon DEF LocksHeld
<1> QED
  BY <1>1, TheOnlyOne DEF ledger, Busy, Current

LEMMA InsideAfter ==
  ASSUME LocksHeld', NEW p \in Peer, pc'[p] \in Adopting
  PROVE  ledger' = job'[p].was
<1>1. \A q \in Peer : pc'[q] \in Adopting => q = p
  BY Zenon DEF LocksHeld
<1> QED
  BY <1>1, TheOnlyOne DEF ledger, Busy, Current

LEMMA OutsideBefore ==
  ASSUME LocksHeld, db_lock = Free \/ \E q \in Peer : pc[q] = "digest" /\ db_lock = q
  PROVE  ~Busy /\ ledger = chain
<1>1. Free \notin Peer
  BY ReorgAssumption, Zenon
<1>2. "digest" \notin Adopting
  BY DEF Adopting
<1>3. ~Busy
  BY <1>1, <1>2 DEF Busy, LocksHeld
<1> QED
  BY <1>3 DEF ledger

LEMMA OutsideAfter ==
  ASSUME LocksHeld', db_lock' = Free
  PROVE  ledger' = chain'
<1>1. Free \notin Peer
  BY ReorgAssumption, Zenon
<1>2. ~Busy'
  BY <1>1 DEF Busy, LocksHeld
<1> QED
  BY <1>2 DEF ledger

(* A step that takes no thread into Adopting or out of it, nor changes     *)
(* what the thread inside found, leaves the ledger alone; so does one of a *)
(* thread that stays outside, if the chain is as it was.                   *)
LEMMA Within ==
  ASSUME IInv, IInv', NEW p \in Peer, pc[p] \in Adopting, pc'[p] \in Adopting,
         job'[p].was = job[p].was
  PROVE  ledger' = ledger
BY InsideBefore, InsideAfter DEF IInv

LEMMA Aside ==
  ASSUME IInv, IInv', NEW p \in Peer, pc[p] \notin Adopting, pc'[p] \notin Adopting,
         \A q \in Peer \ {p} : pc'[q] = pc[q] /\ job'[q] = job[q], chain' = chain
  PROVE  ledger' = ledger
<1>1. CASE \E q \in Peer : pc[q] \in Adopting
  <2>1. PICK q \in Peer : pc[q] \in Adopting
    BY <1>1
  <2>2. q # p /\ pc'[q] \in Adopting /\ job'[q].was = job[q].was
    BY <2>1
  <2> QED
    BY <2>1, <2>2, Within
<1>2. CASE ~\E q \in Peer : pc[q] \in Adopting
  <2>1. \A q \in Peer : pc'[q] \notin Adopting
    BY <1>2
  <2>2. ~Busy /\ ~Busy'
    BY <1>2, <2>1 DEF Busy
  <2> QED
    BY <2>2 DEF ledger
<1> QED
  BY <1>1, <1>2

(* The pieces of a thread's steps that Aside needs. *)
LEMMA Elsewhere ==
  ASSUME IInv, NEW p \in Peer, NEW l, NEW j,
         pc' = [pc EXCEPT ![p] = l], job' = [job EXCEPT ![p] = j]
  PROVE  pc'[p] = l /\ job'[p] = j /\ \A q \in Peer \ {p} : pc'[q] = pc[q] /\ job'[q] = job[q]
<1>1. pc \in [Peer -> Labels] /\ job \in [Peer -> JobType]
  BY Before
<1> QED
  BY <1>1

LEMMA AsideStep ==
  ASSUME IInv, IInv', NEW p \in Peer, NEW l, NEW j, pc[p] \notin Adopting, l \notin Adopting,
         pc' = [pc EXCEPT ![p] = l], job' = [job EXCEPT ![p] = j], chain' = chain
  PROVE  ledger' = ledger
BY Elsewhere, Aside

LEMMA EndAside ==
  ASSUME IInv, IInv', NEW p \in Peer, pc[p] \notin Adopting, End(p), chain' = chain
  PROVE  ledger' = ledger
<1>1. "idle" \notin Adopting
  BY DEF Adopting
<1>2. pc' = [pc EXCEPT ![p] = "idle"] /\ job' = [job EXCEPT ![p] = NoJob]
  BY DEF End, Goto
<1> QED
  BY <1>1, <1>2, AsideStep

(* Labels outside Adopting. *)
LEMMA OutsideLabels ==
  {"idle", "gate", "measure", "fetch", "lock", "acquire", "return", "blame",
   "digest", "legacy", "giveback"} \cap Adopting = {}
BY DEF Adopting

(* All that a thread does before it has node.db_lock and after it let go. *)
LEMMA QuietSteps ==
  ASSUME IInv, IInv', NEW p \in Peer,
         \/ (\E n \in Claims : blocknf(p, n)) \/ Enter(p) \/ MeasureReorg(p) \/ MeasureOther(p)
         \/ LosesTie(p) \/ ServesNothing(p) \/ FetchShort(p) \/ FetchLonger(p) \/ CheckLock(p)
         \/ ReturnTxs(p) \/ Blame(p)
         \/ blocknf_legacy(p) \/ LegacySkip(p) \/ LegacyReturn(p) \/ DigestLock(p)
  PROVE  ledger' = ledger
<1>1. CASE \/ MeasureOther(p) \/ LosesTie(p) \/ ServesNothing(p) \/ FetchShort(p)
           \/ ReturnTxs(p) \/ Blame(p) \/ LegacySkip(p) \/ LegacyReturn(p)
  <2>1. /\ pc[p] \in {"measure", "fetch", "return", "blame", "legacy", "giveback"}
        /\ End(p) /\ chain' = chain
    BY <1>1, Zenon DEF MeasureOther, LosesTie, ServesNothing, FetchShort, ReturnTxs, Blame,
       LegacySkip, LegacyReturn, Skip, Leave
  <2>2. pc[p] \notin Adopting
    BY <2>1, OutsideLabels
  <2> QED
    BY <2>1, <2>2, EndAside
<1>2. CASE \E n \in Claims : blocknf(p, n)
  <2>1. PICK n \in Claims :
          /\ pc[p] = "idle" /\ pc' = [pc EXCEPT ![p] = "gate"] /\ chain' = chain
          /\ job' = [job EXCEPT ![p].tip = Len(chain), ![p].hash = Last(chain), ![p].claim = n]
    BY <1>2, Zenon DEF blocknf, Goto
  <2>2. job' = [job EXCEPT ![p] = job'[p]]
    BY <2>1, Before
  <2> QED
    BY <2>1, <2>2, OutsideLabels, AsideStep
<1>3. CASE Enter(p)
  <2>1. pc[p] = "gate" /\ chain' = chain
    BY <1>3, Zenon DEF Enter
  <2>2. CASE End(p)
    BY <2>1, <2>2, OutsideLabels, EndAside
  <2>3. CASE /\ job' = [job EXCEPT ![p] = [job[p] EXCEPT !.checkpoint = checkpoint]]
             /\ pc' = [pc EXCEPT ![p] = "measure"]
    BY <2>1, <2>3, OutsideLabels, AsideStep
  <2> QED
    BY <1>3, <2>2, <2>3, Zenon DEF Enter, Goto
<1>4. CASE MeasureReorg(p)
  <2>1. pc[p] = "measure" /\ pc' = [pc EXCEPT ![p] = "fetch"] /\ chain' = chain
    BY <1>4, Zenon DEF MeasureReorg, Goto
  <2>2. \E s, a : job' = [job EXCEPT ![p].src = s, ![p].anc = a]
    BY <1>4, Zenon DEF MeasureReorg
  <2>3. job' = [job EXCEPT ![p] = job'[p]]
    BY <2>2, Before
  <2> QED
    BY <2>1, <2>3, OutsideLabels, AsideStep
<1>5. CASE FetchLonger(p)
  <2>1. pc[p] = "fetch" /\ pc' = [pc EXCEPT ![p] = "lock"] /\ chain' = chain
    BY <1>5, Zenon DEF FetchLonger, Goto
  <2>2. \E s : job' = [job EXCEPT ![p] = [job[p] EXCEPT !.held = s]]
    BY <1>5, Zenon DEF FetchLonger
  <2> QED
    BY <2>1, <2>2, OutsideLabels, AsideStep
<1>6. CASE CheckLock(p)
  <2>1. pc[p] = "lock" /\ chain' = chain
    BY <1>6, Zenon DEF CheckLock
  <2>2. CASE End(p)
    BY <2>1, <2>2, OutsideLabels, EndAside
  <2>3. CASE pc' = [pc EXCEPT ![p] = "acquire"] /\ job' = job
    <3>1. pc'[p] = "acquire" /\ \A q \in Peer \ {p} : pc'[q] = pc[q] /\ job'[q] = job[q]
      BY <2>3, Before
    <3> QED
      BY <2>1, <3>1, OutsideLabels, Aside
  <2> QED
    BY <1>6, <2>2, <2>3, Zenon DEF CheckLock, Goto, Leave
<1>7. CASE blocknf_legacy(p)
  <2>1. /\ pc[p] = "idle" /\ pc' = [pc EXCEPT ![p] = "legacy"] /\ chain' = chain
        /\ job' = [job EXCEPT ![p] = [job[p] EXCEPT !.hash = Last(chain)]]
    BY <1>7, Zenon DEF blocknf_legacy, Goto
  <2> QED
    BY <2>1, OutsideLabels, AsideStep
<1>8. CASE DigestLock(p)
  <2>1. pc[p] = "idle" /\ pc' = [pc EXCEPT ![p] = "digest"] /\ chain' = chain
    BY <1>8, Zenon DEF DigestLock, Goto
  <2>2. \E s : job' = [job EXCEPT ![p] = [job[p] EXCEPT !.todo = s]]
    BY <1>8, Zenon DEF DigestLock
  <2> QED
    BY <2>1, <2>2, OutsideLabels, AsideStep
<1> QED
  BY <1>1, <1>2, <1>3, <1>4, <1>5, <1>6, <1>7, <1>8

(* The rollback, and blocks applied or given back, under node.db_lock. *)
LEMMA HiddenSteps ==
  ASSUME IInv, IInv', NEW p \in Peer, RollToLocked(p) \/ ApplyHeld(p) \/ GiveUp(p)
  PROVE  ledger' = ledger
<1>1. {"apply", "decide", "restore"} \subseteq Adopting
  BY DEF Adopting
<1>2. CASE RollToLocked(p)
  <2>1. /\ db_lock = Free /\ pc' = [pc EXCEPT ![p] = "apply"]
        /\ job' = [job EXCEPT ![p].backup = Backup(p), ![p].todo = job[p].held, ![p].was = chain]
    BY <1>2, Zenon DEF RollToLocked, Goto
  <2>2. pc'[p] = "apply" /\ job'[p].was = chain
    BY <2>1, Before DEF JobType
  <2>3. ledger' = chain
    BY <1>1, <2>2, InsideAfter DEF IInv
  <2> QED
    BY <2>1, <2>3, OutsideBefore DEF IInv
<1>3. CASE ApplyHeld(p)
  <2>1. pc[p] = "apply"
    BY <1>3, Zenon DEF ApplyHeld
  <2>2. CASE pc' = [pc EXCEPT ![p] = "decide"] /\ job' = job
    <3>1. pc'[p] = "decide" /\ job'[p].was = job[p].was
      BY <2>2, Before
    <3> QED
      BY <1>1, <2>1, <3>1, Within
  <2>3. CASE job[p].todo # <<>> /\ Commit(p, Head(job[p].todo))
    <3>1. job'[p].was = job[p].was
      BY <2>3, CommitChain, Before
    <3>2. pc' = pc
      BY <2>3, Zenon DEF Commit
    <3> QED
      BY <1>1, <2>1, <3>1, <3>2, Within
  <2>4. CASE /\ pc' = [pc EXCEPT ![p] = "decide"]
             /\ job' = [job EXCEPT ![p] = [job[p] EXCEPT !.todo = <<>>]]
    <3>1. pc'[p] = "decide" /\ job'[p].was = job[p].was
      BY <2>4, Before DEF JobType
    <3> QED
      BY <1>1, <2>1, <3>1, Within
  <2> QED
    BY <1>3, <2>2, <2>3, <2>4, Zenon DEF ApplyHeld, Reject, Goto
<1>4. CASE GiveUp(p)
  <2>1. /\ pc[p] = "decide" /\ pc' = [pc EXCEPT ![p] = "restore"]
        /\ job' = [job EXCEPT ![p] = [job[p] EXCEPT !.todo = job[p].backup]]
    BY <1>4, Zenon DEF GiveUp, Goto
  <2>2. pc'[p] = "restore" /\ job'[p].was = job[p].was
    BY <2>1, Before DEF JobType
  <2> QED
    BY <1>1, <2>1, <2>2, Within
<1> QED
  BY <1>2, <1>3, <1>4

LEMMA ClimbsValid ==
  ASSUME NEW c, Climbs(c)
  PROVE  L!ValidChain(c)
BY SameRules DEF Climbs, L!ValidChain

LEMMA AdoptStep ==
  ASSUME IInv, IInv', NEW p \in Peer, Adopt(p)
  PROVE  L!Next
<1>1. /\ pc[p] = "decide" /\ adopted(p) /\ db_lock' = Free
      /\ UNCHANGED <<chain, config, checkpoint>>
  BY Zenon DEF Adopt, mode
<1>2. pc[p] \in Adopting /\ pc[p] \in Resolving
  BY <1>1 DEF Adopting, Resolving
<1>3. Busy /\ ledger = job[p].was /\ Current.tip = job[p].tip
  BY <1>2, InsideBefore DEF IInv
<1>4. ledger' = chain
  BY <1>1, OutsideAfter DEF IInv
<1>5. /\ config.resolution = "measured" /\ Saved(job[p], chain) /\ Trying(job[p], chain)
  BY <1>1, <1>2, Now DEF Place
<1>6. L!ValidChain(chain)
  BY Before, ClimbsValid
<1>7. /\ job[p].was \in Seq(Block) /\ chain \in Seq(Block) /\ Len(chain) \in Nat
      /\ job[p].anc \in Nat /\ job[p].tip \in Nat
  BY Before, JobFields
<1>8. Len(chain) > job[p].tip \/ (Len(chain) = job[p].tip /\ ~IsPrefix(chain, job[p].was))
  <2>1. CASE Len(chain) > job[p].tip
    BY <2>1
  <2>2. CASE Tie(p) /\ Len(chain) = job[p].tip /\ Len(chain) > job[p].anc
    <3>1. chain[job[p].anc + 1] # job[p].was[job[p].anc + 1]
      BY <1>5, <2>2 DEF Trying, Tied, Tie
    <3>2. job[p].anc + 1 \in 1..Len(chain)
      BY <1>7, <2>2
    <3>3. ~Agree(chain, job[p].was, Len(chain))
      BY <3>1, <3>2 DEF Agree
    <3> QED
      BY <1>7, <2>2, <3>3, PrefixAgrees
  <2> QED
    BY <1>1, <2>1, <2>2, Zenon DEF adopted
<1>9. L!Beats(chain, job[p].tip)
  BY <1>3, <1>8, SameRules DEF L!Beats
<1>10. CASE job[p].tip < Len(job[p].was)
  <2>1. L!Overtaken
    BY <1>3, <1>4, <1>5, <1>6, <1>9, <1>10 DEF L!Overtaken
  <2> QED
    BY <1>1, <2>1 DEF L!Next
<1>11. CASE job[p].tip >= Len(job[p].was)
  <2>1. L!Beats(chain, Len(job[p].was))
    <3>1. Len(job[p].was) \in Nat
      BY <1>7
    <3> QED
      BY <1>3, <1>7, <1>8, <1>11, <3>1, SameRules DEF L!Beats
  <2>2. L!Switch
    BY <1>3, <1>4, <1>5, <1>6, <2>1 DEF L!Switch
  <2> QED
    BY <1>1, <2>2 DEF L!Next
<1>12. Len(job[p].was) \in Nat
  BY <1>7
<1> QED
  BY <1>7, <1>10, <1>11, <1>12

LEMMA RestoreStep ==
  ASSUME IInv, IInv', NEW p \in Peer, Restore(p)
  PROVE  L!Next \/ ledger' = ledger
<1>1. pc[p] = "restore" /\ UNCHANGED config
  BY Zenon DEF Restore, Commit, mode
<1>2. pc[p] \in Adopting /\ pc[p] \in Resolving
  BY <1>1 DEF Adopting, Resolving
<1>3. Busy /\ ledger = job[p].was
  BY <1>2, InsideBefore DEF IInv
<1>4. config.resolution = "measured" /\ Restoring(job[p], chain)
  BY <1>1, <1>2, Now DEF Place
<1>5. /\ job[p].was \in Seq(Block) /\ chain \in Seq(Block) /\ Len(chain) \in Nat
      /\ chain # <<>> /\ Len(job[p].was) \in Nat
  BY Before, JobFields
<1>6. CASE job[p].todo = <<>> \/ stopping
  <2>1. db_lock' = Free /\ chain' = chain
    BY <1>6, Zenon DEF Restore
  <2>2. ledger' = chain
    BY <2>1, OutsideAfter DEF IInv
  <2>3. CASE job[p].todo = <<>>
    <3>1. Len(chain) = Len(job[p].was) /\ \A h \in 1..Len(chain) : chain[h] = job[p].was[h]
      BY <1>4, <1>5, <2>3 DEF Restoring, Agree, Follows
    <3>2. chain = job[p].was
      BY <1>5, <3>1, SeqEqual
    <3> QED
      BY <1>3, <2>2, <3>2
  <2>4. CASE stopping
    <3>1. IsPrefix(chain, job[p].was)
      BY <1>4, <1>5, PrefixAgrees DEF Restoring
    <3>2. L!Lose
      BY <1>3, <1>4, <1>5, <2>2, <2>4, <3>1, SameRules DEF L!Lose
    <3> QED
      BY <1>1, <3>2 DEF L!Next
  <2> QED
    BY <1>6, <2>3, <2>4
<1>7. CASE ~(job[p].todo = <<>> \/ stopping)
  <2>1. Commit(p, Head(job[p].todo))
    <3>1. Accepted(Head(job[p].todo))
      BY <1>1, <1>7, OwnValid
    <3> QED
      BY <1>7, <3>1, Zenon DEF Restore, Reject
  <2>2. pc' = pc
    BY <2>1, Zenon DEF Commit
  <2>3. job'[p].was = job[p].was
    BY <1>7, <2>1, CommitChain, Before
  <2> QED
    BY <1>2, <2>2, <2>3, Within
<1> QED
  BY <1>6, <1>7

LEMMA DigestStep ==
  ASSUME IInv, IInv', NEW p \in Peer, Digest(p)
  PROVE  L!Next \/ ledger' = ledger
<1> DEFINE b == Head(job[p].todo)
<1>1. pc[p] = "digest" /\ db_lock' = Free /\ UNCHANGED config
  BY Zenon DEF Digest, mode
<1>2. db_lock = p
  BY <1>1, Before DEF Holding
<1>3. ledger = chain /\ ledger' = chain'
  BY <1>1, <1>2, OutsideBefore, OutsideAfter DEF IInv
<1>4. (Valid(chain, b) /\ chain' = Append(chain, b)) \/ chain' = chain
  BY Zenon DEF Digest, Accepted
<1>5. b \in Block
  <2>1. job[p].todo # <<>>
    BY <1>1, Now DEF Place
  <2> QED
    BY <2>1, Before, JobFields, RestType
<1> HIDE DEF b
<1>6. CASE Valid(chain, b) /\ chain' = Append(chain, b)
  <2>1. /\ chain' \in Seq(Block) /\ chain \in Seq(Block) /\ Len(chain') = Len(chain) + 1
        /\ chain'[Len(chain) + 1] = b /\ Agree(chain, chain', Len(chain))
    BY <1>5, <1>6, Before, AppendAgrees
  <2>2. IsPrefix(chain, chain') /\ Last(chain') = b
    BY <2>1, PrefixAgrees DEF Last
  <2>3. L!Extend
    BY <1>3, <1>6, <2>1, <2>2, SameRules DEF L!Extend
  <2> QED
    BY <1>1, <2>3 DEF L!Next
<1> QED
  BY <1>3, <1>4, <1>6

LEMMA DropStep ==
  ASSUME IInv, IInv', NEW p \in Peer, LegacyRoll(p)
  PROVE  L!Next
<1>1. /\ pc[p] = "legacy" /\ db_lock = Free /\ rollback_allowed(Len(chain)) /\ ~MovedAway(p)
      /\ chain' = SubSeq(chain, 1, Len(chain) - 1) /\ UNCHANGED <<db_lock, config>>
  BY Zenon DEF LegacyRoll, mode
<1>2. ledger = chain /\ ledger' = chain'
  BY <1>1, OutsideBefore, OutsideAfter DEF IInv
<1>3. config.resolution = "legacy" /\ job[p].hash # Genesis
  BY <1>1, Now DEF Place
<1>4. Len(chain) > 1
  <2>1. Last(chain) # Genesis /\ chain[1] = Genesis
    BY <1>1, <1>3, Before DEF MovedAway, Climbs
  <2>2. Len(chain) # 1
    BY <2>1 DEF Last
  <2> QED
    BY <2>2, Before, AboveOne
<1>5. L!Drop
  BY <1>1, <1>2, <1>3, <1>4 DEF L!Drop, rollback_allowed
<1> QED
  BY <1>1, <1>5 DEF L!Next

LEMMA NextStep ==
  ASSUME IInv, IInv', [Next]_vars
  PROVE  L!Next \/ ledger' = ledger
<1>1. CASE \E p \in Peer : (\E n \in Claims : blocknf(p, n)) \/ Resolve(p) \/ Legacy(p)
                           \/ DigestLock(p) \/ Digest(p)
  <2>1. PICK p \in Peer : (\E n \in Claims : blocknf(p, n)) \/ Resolve(p) \/ Legacy(p)
                           \/ DigestLock(p) \/ Digest(p)
    BY <1>1
  <2>2. CASE Resolve(p)
    BY <2>2, QuietSteps, HiddenSteps, AdoptStep, RestoreStep, Zenon DEF Resolve
  <2>3. CASE Legacy(p)
    BY <2>3, QuietSteps, DropStep, Zenon DEF Legacy
  <2> QED
    BY <2>1, <2>2, <2>3, QuietSteps, DigestStep, Zenon
<1>2. CASE \/ \E t \in Tx : Merge(t) \/ Age(t)
           \/ Purge
           \/ \E v \in verdicts : Expire(v)
           \/ Stop
           \/ UNCHANGED vars
  <2>1. pc' = pc /\ job' = job /\ chain' = chain
    BY <1>2, Zenon DEF Merge, Age, Purge, Expire, Stop, vars
  <2> QED
    BY <2>1 DEF ledger, Busy, Current
<1> QED
  BY <1>1, <1>2, Zenon DEF Next

(* Fork resolution and forward sync, however their threads interleave,     *)
(* implement Ledger: a branch that fails halfway leaves no trace, and one  *)
(* that is adopted is valid as a whole and not shorter than the ledger it  *)
(* replaces, unless the ledger grew after it was measured (chain_ops.py).  *)
THEOREM ReorgImplementsLedger == Spec => ImplementsLedger
<1>1. Init => L!Init
  <2> SUFFICES ASSUME Init PROVE ledger = <<Genesis>>
    BY DEF L!Init
  <2>1. LocksHeld /\ db_lock = Free /\ chain = <<Genesis>>
    BY InitInv, Zenon DEF Init, IInv
  <2> QED
    BY <2>1, OutsideBefore
<1>2. IInv /\ IInv' /\ [Next]_vars => [L!Next]_ledger
  BY NextStep
<1> QED
  BY <1>1, <1>2, ReorgInvariant, PTL DEF Spec, L!Spec, ImplementsLedger

-----------------------------------------------------------------------------
(* find_common_ancestor, probe by probe (module AncestorSearch).           *)

(* The loop invariants that the source states in its comments: "disagree   *)
(* at hi", and "agree at lo, disagree at hi".                              *)
Interval ==
    /\ probing \in {"linear", "bottom", "binary"} => heard[hi] = "no"
    /\ probing = "bottom" => floor < hi
    /\ probing = "binary" => lo < hi /\ heard[lo] = "yes"

(* Answers are the truth about a peer that has not moved. *)
Truthful ==
    ~moved => \A h \in Heights : /\ heard[h] = "yes" => h <= shared
                                 /\ heard[h] = "no" => shared < h

SearchInv == SearchTypeOK /\ Interval /\ Truthful /\ Witnessed

(* The first probe has not been sent: there is nothing to witness. *)
LEMMA InitSearchInv == SearchInit => SearchInv
<1> SUFFICES ASSUME SearchInit PROVE SearchInv
  OBVIOUS
<1> USE SearchAssumption DEF SearchInit, Heights, None
<1>a. moved \in BOOLEAN
  BY Zenon
<1>b. heard \in [Heights -> {"none", "yes", "no"}]
  BY Zenon
<1>1. SearchTypeOK
  BY <1>a, <1>b, SMT DEF SearchTypeOK
<1>2. Interval /\ Truthful /\ Witnessed
  BY SMT DEF Interval, Truthful, Witnessed
<1> QED
  BY <1>1, <1>2 DEF SearchInv

(* The midpoint of an interval that is not settled lies strictly inside it, *)
(* so a probe there never overwrites what was heard at either end.          *)
LEMMA MidInside ==
  ASSUME SearchTypeOK, lo < hi, ~Settled
  PROVE  Mid \in Heights /\ lo < Mid /\ Mid < hi /\ Mid \in floor..Tip
  BY SearchAssumption, SMT DEF SearchTypeOK, Settled, Mid, Heights

(* Every probe, and every move of the peer, keeps the evidence. *)
LEMMA NextSearchInv == SearchInv /\ [SearchNext]_searchVars => SearchInv'
<1> SUFFICES ASSUME SearchInv, [SearchNext]_searchVars PROVE SearchInv'
  OBVIOUS
<1> USE SearchAssumption DEF SearchInv, Heights
<1>1. CASE Top
  <2>1. SearchTypeOK'
    BY <1>1, SMT DEF Top, Answers, Hear, Return, SearchTypeOK, None
  <2>2. Interval'
    BY <1>1, SMT DEF Top, Answers, Hear, Return, SearchTypeOK, Interval
  <2>3. Truthful'
    BY <1>1, SMT DEF Top, Answers, Hear, Return, SearchTypeOK, Truthful
  <2>4. Witnessed'
    BY <1>1, SMT DEF Top, Answers, Hear, Return, SearchTypeOK, Witnessed, None
  <2> QED
    BY <2>1, <2>2, <2>3, <2>4
<1>2. CASE Walk
  <2> USE DEF Walk, Answers, Hear, Return, BelowFloor
  <2>1. SearchTypeOK'
    BY <1>2, SMT DEF SearchTypeOK, None
  <2>2. Interval'
    BY <1>2, SMT DEF SearchTypeOK, Interval
  <2>3. Truthful'
    BY <1>2, SMT DEF SearchTypeOK, Truthful
  <2>4. Witnessed'
    BY <1>2, SMT DEF SearchTypeOK, Interval, Witnessed, None
  <2> QED
    BY <2>1, <2>2, <2>3, <2>4
<1>3. CASE Bottom
  <2> USE DEF Bottom, Answers, Hear, Return
  <2>1. SearchTypeOK'
    BY <1>3, SMT DEF SearchTypeOK, None
  <2>2. Interval'
    BY <1>3, SMT DEF SearchTypeOK, Interval
  <2>3. Truthful'
    BY <1>3, SMT DEF SearchTypeOK, Truthful
  <2>4. Witnessed'
    BY <1>3, SMT DEF SearchTypeOK, Interval, Witnessed, None
  <2> QED
    BY <2>1, <2>2, <2>3, <2>4
<1>4. CASE Bisect
  <2>0. ~Settled => Mid \in Heights /\ lo < Mid /\ Mid < hi /\ Mid \in floor..Tip
    BY <1>4, MidInside DEF Bisect, Interval
  <2> USE DEF Bisect, Answers, Hear, Return
  <2>1. SearchTypeOK'
    BY <1>4, <2>0, SMT DEF SearchTypeOK, None
  <2>2. Interval'
    BY <1>4, <2>0, SMT DEF SearchTypeOK, Interval
  <2>3. Truthful'
    BY <1>4, <2>0, SMT DEF SearchTypeOK, Truthful
  <2>4. Witnessed'
    BY <1>4, <2>0, SMT DEF SearchTypeOK, Interval, Witnessed, Settled, None
  <2> QED
    BY <2>1, <2>2, <2>3, <2>4
<1>5. CASE PeerMoves
  BY <1>5, SMT DEF PeerMoves, SearchTypeOK, Interval, Truthful, Witnessed
<1>6. CASE UNCHANGED searchVars
  BY <1>6, SMT DEF searchVars, SearchTypeOK, Interval, Truthful, Witnessed
<1> QED
  BY <1>1, <1>2, <1>3, <1>4, <1>5, <1>6 DEF SearchNext, Search

(* The invariant holds in every state of every search. *)
THEOREM SearchInvariant == SearchSpec => []SearchInv
<1> QED
  BY InitSearchInv, NextSearchInv, PTL DEF SearchSpec

(* find_common_ancestor probes only heights between the floor and the tip. *)
THEOREM SearchTypeCorrect == SearchSpec => []SearchTypeOK
<1>1. SearchInv => SearchTypeOK
  BY DEF SearchInv
<1> QED
  BY <1>1, SearchInvariant, PTL

(* The ancestor that find_common_ancestor returns was confirmed by the     *)
(* peer, and the block above it denied, even if the peer moved meanwhile.  *)
THEOREM AlwaysWitnessed == SearchSpec => []Witnessed
<1>1. SearchInv => Witnessed
  BY DEF SearchInv
<1> QED
  BY <1>1, SearchInvariant, PTL

(* Against a peer that stood still find_common_ancestor is exact: no       *)
(* block the two chains share is ever rolled back.                         *)
THEOREM AlwaysExact == SearchSpec => []Exact
<1>1. SearchInv => Exact
  BY SearchAssumption, SMT DEF SearchInv, SearchTypeOK, Truthful, Witnessed, Exact, Heights, None
<1> QED
  BY <1>1, SearchInvariant, PTL
-----------------------------------------------------------------------------
(* The cost of a search.  Powers of two are counted as sets of subsets.    *)

(* Every nonempty set of naturals has a least element. *)
LEMMA LeastNatural ==
  ASSUME NEW T \in SUBSET Nat, T # {}
  PROVE  \E x \in T : \A y \in T : x <= y
<1>1. PICK x \in T : \A y \in T : ~ (<<y, x>> \in OpToRel(<, Nat))
  BY NatLessThanWellFounded, WFMin
<1>2. \A y \in T : ~ (y < x)
  BY <1>1 DEF OpToRel
<1> QED
  BY <1>2

LEMMA PowerCounts ==
  ASSUME NEW n \in Nat
  PROVE  /\ IsFiniteSet(SUBSET (1..n)) /\ Cardinality(SUBSET (1..n)) = 2^n
         /\ 2^n \in Nat
<1>1. IsFiniteSet(1..n) /\ Cardinality(1..n) = n
  BY FS_Interval
<1>2. IsFiniteSet(SUBSET (1..n)) /\ Cardinality(SUBSET (1..n)) = 2^n
  BY <1>1, FS_SUBSET
<1> QED
  BY <1>2, FS_CardinalityType

(* Half of the subsets of 1..(n + 1) hold n + 1. *)
LEMMA PowerDoubles ==
  ASSUME NEW n \in Nat
  PROVE  2^(n + 1) = 2 * 2^n
<1> DEFINE A == SUBSET (1..n)
           B == {T \in SUBSET (1..(n + 1)) : n + 1 \in T}
           f == [T \in A |-> T \cup {n + 1}]
<1>1. SUBSET (1..(n + 1)) = A \cup B
  <2>1. ASSUME NEW T \in SUBSET (1..(n + 1)), n + 1 \notin T PROVE T \in A
    BY <2>1
  <2>2. A \subseteq SUBSET (1..(n + 1))
    OBVIOUS
  <2> QED
    BY <2>1, <2>2
<1>2. A \cap B = {}
  <2>1. n + 1 \notin 1..n
    OBVIOUS
  <2> QED
    BY <2>1
<1>3. f \in Bijection(A, B)
  <2>1. ASSUME NEW T \in A PROVE f[T] \in B
    BY 1..n \subseteq 1..(n + 1), n + 1 \in 1..(n + 1)
  <2>2. ASSUME NEW T \in A, NEW U \in A, f[T] = f[U] PROVE T = U
    <3>1. n + 1 \notin T /\ n + 1 \notin U
      OBVIOUS
    <3> QED
      BY <2>2, <3>1
  <2>3. ASSUME NEW U \in B PROVE \E T \in A : f[T] = U
    <3>1. U \ {n + 1} \in A
      OBVIOUS
    <3>2. f[U \ {n + 1}] = U
      BY <3>1
    <3> QED
      BY <3>1, <3>2
  <2>4. f \in [A -> B]
    BY <2>1
  <2> HIDE DEF A, B, f
  <2> QED
    BY <2>2, <2>3, <2>4 DEF Bijection, Injection, Surjection, IsInjective
<1>4. IsFiniteSet(B) /\ Cardinality(B) = Cardinality(A)
  <2>1. ExistsBijection(A, B)
    BY <1>3 DEF ExistsBijection
  <2> QED
    BY <2>1, PowerCounts, FS_Bijection
<1>5. Cardinality(A \cup B) = Cardinality(A) + Cardinality(B) - Cardinality(A \cap B)
  BY <1>4, PowerCounts, FS_Union
<1>6. Cardinality(A) = 2^n /\ 2^n \in Nat
  BY PowerCounts
<1>7. Cardinality(SUBSET (1..(n + 1))) = 2^(n + 1)
  BY n + 1 \in Nat, PowerCounts
<1>8. Cardinality(A \cap B) = 0
  BY <1>2, FS_EmptySet
<1> DEFINE x == 2^n
           y == 2^(n + 1)
<1>9. Cardinality(A \cup B) = y /\ Cardinality(A) = x /\ Cardinality(B) = x /\ x \in Nat
  BY <1>1, <1>4, <1>6, <1>7
<1> HIDE DEF A, B, x, y
<1>10. y = 2 * x
  BY <1>5, <1>8, <1>9
<1> QED
  BY <1>10 DEF x, y

(* There are more sets than members. *)
LEMMA PowerExceeds ==
  ASSUME NEW n \in Nat
  PROVE  2^n >= n
<1> DEFINE T == {k \in Nat : ~ (2^k >= k)}
<1>1. CASE T = {}
  BY <1>1
<1>2. CASE T # {}
  <2>1. PICK k \in T : \A j \in T : k <= j
    BY <1>2, LeastNatural
  <2>2. k \in Nat /\ 2^k \in Nat /\ ~ (2^k >= k)
    BY <2>1, PowerCounts
  <2>3. k # 0
    BY <2>2
  <2>4. k - 1 \in Nat /\ 2^(k - 1) >= k - 1 /\ 2^(k - 1) \in Nat
    BY <2>1, <2>2, <2>3, PowerCounts
  <2>5. 2^k = 2 * 2^(k - 1)
    BY <2>2, <2>4, PowerDoubles, (k - 1) + 1 = k
  <2>6. k - 1 = 0
    BY <2>2, <2>4, <2>5
  <2>7. 2^1 = 2 * 2^0 /\ 2^0 = 1
    BY PowerDoubles, 0 + 1 = 1
  <2> QED
    BY <2>2, <2>6, <2>7
<1> QED
  BY <1>1, <1>2

(* An interval of more than one height takes a halving, and that is half   *)
(* of what r halvings settle.                                              *)
LEMMA Halving ==
  ASSUME NEW r \in Nat, NEW d \in Int, d > 1, 2^r >= d
  PROVE  r - 1 \in Nat /\ 2^r = 2 * 2^(r - 1) /\ 2^(r - 1) \in Nat
<1>1. r # 0
  <2>1. 2^0 = 1
    OBVIOUS
  <2>2. SUFFICES ASSUME r = 0 PROVE FALSE
    OBVIOUS
  <2>3. 2^r = 1
    BY <2>1, <2>2
  <2> QED
    BY <2>3
<1>2. r - 1 \in Nat /\ (r - 1) + 1 = r
  BY <1>1
<1>3. 2^((r - 1) + 1) = 2 * 2^(r - 1)
  BY <1>2, PowerDoubles
<1>4. 2^(r - 1) \in Nat
  BY <1>2, PowerCounts
<1> QED
  BY <1>2, <1>3, <1>4, Zenon

(* CeilLog2 is the number of halvings: enough of them, and never more. *)
LEMMA CeilLog2Is ==
  ASSUME NEW n \in Nat
  PROVE  CeilLog2(n) \in 0..n /\ 2^CeilLog2(n) >= n
<1> DEFINE T == {k \in 0..n : 2^k >= n}
<1>1. n \in T
  BY PowerExceeds
<1>t. T \in SUBSET Nat /\ T # {}
  BY <1>1
<1>2. PICK k \in T : \A j \in T : k <= j
  <2> HIDE DEF T
  <2> QED
    BY <1>t, LeastNatural
<1>3. \E i \in 0..n : 2^i >= n /\ \A j \in 0..n : 2^j >= n => i <= j
  BY <1>2
<1> QED
  BY <1>3 DEF CeilLog2

(* What has been spent, and what the rest can still cost: r halvings       *)
(* settle an interval of up to 2^r heights.                                *)
Cost ==
    /\ probing = "top" => probes = 0
    /\ probing = "linear" => probes + left = 1 + Linear
    /\ probing = "bottom" => probes <= 1 + Linear
    /\ probing = "binary" =>
         \E r \in Nat : 2^r >= hi - lo /\ probes + r <= Linear + 2 + CeilLog2(Tip - floor)
    /\ ProbesBounded

SearchCost == SearchInv /\ Cost

LEMMA NextCost == SearchCost /\ [SearchNext]_searchVars => Cost'
<1> SUFFICES ASSUME SearchCost, [SearchNext]_searchVars PROVE Cost'
  OBVIOUS
<1> DEFINE most == Linear + 2 + CeilLog2(Tip - floor)
<1>0. /\ SearchTypeOK /\ Interval /\ Cost
      /\ probes \in Nat /\ left \in Nat /\ hi \in Int /\ lo \in Int /\ Linear \in Nat
      /\ Tip - floor \in Nat /\ probes <= most
  BY SearchAssumption DEF SearchCost, SearchInv, Cost, ProbesBounded, SearchTypeOK, Heights
<1>l. CeilLog2(Tip - floor) \in Nat /\ 2^CeilLog2(Tip - floor) >= Tip - floor
  BY <1>0, CeilLog2Is
<1>s. UNCHANGED floor => most' = most
  OBVIOUS
<1>m. most \in Nat /\ most >= Linear + 2
  BY <1>0, <1>l
<1>1. CASE Top
  <2>1. UNCHANGED floor /\ probes' = 1
    BY <1>0, <1>1 DEF Top, Hear, Cost
  <2> QED
    BY <1>0, <1>m, <1>s, <1>1, <2>1 DEF Top, Return, Cost, ProbesBounded
<1>2. CASE Walk
  <2>1. UNCHANGED floor /\ probes + left = 1 + Linear
    BY <1>0, <1>2 DEF Walk, Cost
  <2>2. probes' <= 1 + Linear /\ probing' \in {"linear", "bottom", "done"}
    BY <1>0, <1>2, <2>1 DEF Walk, Hear, Return
  <2>3. probing' = "linear" => probes' + left' = 1 + Linear
    BY <1>0, <1>2, <2>1 DEF Walk, Hear, Return
  <2>4. probes' \in Nat
    BY <1>0, <1>2 DEF Walk, Hear
  <2> QED
    BY <1>0, <1>m, <1>s, <2>1, <2>2, <2>3, <2>4 DEF Cost, ProbesBounded
<1>3. CASE Bottom
  <2>1. UNCHANGED <<floor, hi>> /\ probes <= 1 + Linear /\ probes' = probes + 1
    BY <1>0, <1>3 DEF Bottom, Hear, Cost
  <2>2. probing' \in {"binary", "done"} /\ (probing' = "binary" => lo' = floor)
    BY <1>3 DEF Bottom, Return
  <2>3. probing' = "binary" => 2^CeilLog2(Tip - floor) >= hi' - lo'
    BY <1>0, <1>l, <2>1, <2>2, PowerCounts, SearchAssumption DEF SearchTypeOK, Heights
  <2>4. probes' + CeilLog2(Tip - floor) <= most
    BY <1>0, <1>l, <2>1
  <2> QED
    BY <1>0, <1>l, <1>m, <1>s, <2>1, <2>2, <2>3, <2>4 DEF Cost, ProbesBounded
<1>4. CASE Bisect
  <2>1. PICK r \in Nat : 2^r >= hi - lo /\ probes + r <= most
    BY <1>0, <1>4 DEF Bisect, Cost
  <2>2. UNCHANGED floor
    BY <1>4 DEF Bisect
  <2>3. CASE Settled
    <3>1. probing' = "done" /\ probes' = probes
      BY <1>4, <2>3 DEF Bisect, Return
    <3> QED
      BY <1>0, <1>s, <2>2, <3>1 DEF Cost, ProbesBounded
  <2>4. CASE ~Settled
    <3>1. hi - lo > 1
      BY <1>0, <2>4 DEF Settled
    <3>2. hi - lo \in Int
      BY <1>0
    <3>3. r - 1 \in Nat /\ 2^r = 2 * 2^(r - 1) /\ 2^(r - 1) \in Nat
      BY <2>1, <3>1, <3>2, Halving
    <3>4. probes' = probes + 1 /\ probing' \in {"binary", "done"}
      BY <1>4, <2>4 DEF Bisect, Hear, Return
    <3>5. probing' = "binary" => \/ lo' = (lo + hi) \div 2 /\ hi' = hi
                                 \/ hi' = (lo + hi) \div 2 /\ lo' = lo
      BY <1>4, <2>4 DEF Bisect, Return, Mid
    <3>6. probing' = "binary" => 2^(r - 1) >= hi' - lo'
      BY <1>0, <2>1, <3>3, <3>5
    <3>7. probes' + (r - 1) <= most /\ probes' <= most
      BY <1>0, <1>m, <2>1, <3>3, <3>4
    <3> HIDE DEF most
    <3>8. probing' = "binary" => \E q \in Nat : 2^q >= hi' - lo' /\ probes' + q <= most'
      BY <1>s, <2>2, <3>3, <3>6, <3>7
    <3> QED
      BY <1>s, <2>2, <3>4, <3>7, <3>8 DEF Cost, ProbesBounded, most
  <2> QED
    BY <2>3, <2>4
<1>5. CASE PeerMoves
  BY <1>0, <1>5 DEF PeerMoves, Cost, ProbesBounded
<1>6. CASE UNCHANGED searchVars
  BY <1>0, <1>6 DEF searchVars, Cost, ProbesBounded
<1> QED
  BY <1>1, <1>2, <1>3, <1>4, <1>5, <1>6 DEF SearchNext, Search

(* find_common_ancestor sends no more probes than the tip, the linear      *)
(* walk, the floor and a bisection of the rest need, whatever the peer     *)
(* answers and however it moves.                                           *)
THEOREM AlwaysProbesBounded == SearchSpec => []ProbesBounded
<1>1. SearchInit => SearchCost
  <2> SUFFICES ASSUME SearchInit PROVE SearchCost
    OBVIOUS
  <2>1. Tip - floor \in Nat /\ probes = 0 /\ probing = "top"
    BY SearchAssumption DEF SearchInit
  <2>2. CeilLog2(Tip - floor) \in Nat
    BY <2>1, CeilLog2Is
  <2> QED
    BY <2>1, <2>2, InitSearchInv, SearchAssumption DEF SearchCost, Cost, ProbesBounded
<1>2. SearchCost /\ [SearchNext]_searchVars => SearchCost'
  BY NextCost, NextSearchInv DEF SearchCost
<1>3. SearchCost => ProbesBounded
  BY DEF SearchCost, Cost
<1> QED
  BY <1>1, <1>2, <1>3, PTL DEF SearchSpec
=============================================================================
