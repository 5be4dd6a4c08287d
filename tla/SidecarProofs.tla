---------------------------- MODULE SidecarProofs ----------------------------
(***************************************************************************)
(* The parts of the node that keep something beside the ledger from one    *)
(* life of the process to the next: two sidecar files and the store of     *)
(* tokens and aliases.                                                     *)
(*                                                                         *)
(* The hard fork, for any window, boundary, burial and reorganisation      *)
(* limit: what the incremental scan computes, that it does not depend on   *)
(* the tip, and that every block is judged by the rules of its ancestors.  *)
(*                                                                         *)
(* The difficulty self-heal, for every number of peers, every threshold,   *)
(* budget, depth and checkpoint and any number of crashes: a minority of   *)
(* the peers never makes the node act, the node does not restart for ever, *)
(* and a heal that was armed is applied once or lost with a crash.         *)
(*                                                                         *)
(* The token and alias index, for any transactions, blocks, names and      *)
(* addresses and any rollbacks, refusals and crashes: every index says     *)
(* what the journal says; and, for finitely many addresses and supplies    *)
(* that are not negative, no holder spends more of a token than it has.    *)
(***************************************************************************)
EXTENDS ForkSchedule, DiffHeal, TokenIndex, FiniteSetTheorems, SequenceTheorems,
        WellFoundedInduction, TLAPS

Item == [sig : BOOLEAN, post : BOOLEAN]

(* Every nonempty set of naturals has a least element. *)
LEMMA LeastNatural ==
  ASSUME NEW T \in SUBSET Nat, T # {}
  PROVE  \E x \in T : \A y \in T : x <= y
<1>1. PICK x \in T : \A y \in T : ~ (<<y, x>> \in OpToRel(<, Nat))
  BY NatLessThanWellFounded, WFMin
<1>2. \A y \in T : ~ (y < x)
  BY <1>1 DEF OpToRel
<1> QED
  BY <1>2

-----------------------------------------------------------------------------
(* The run that ends at h starts above k: the last height without the      *)
(* signal, or 0.                                                           *)
Breaks(c, h, k) == (k = 0 \/ ~c[k].sig) /\ \A j \in (k + 1)..h : c[j].sig

LEMMA BreakExists ==
  ASSUME NEW c \in Seq(Item), NEW h \in 0..Len(c)
  PROVE  \E k \in 0..h : Breaks(c, h, k)
<1> DEFINE T == {d \in 0..h : h - d = 0 \/ ~c[h - d].sig}
<1>1. h \in T /\ T \in SUBSET Nat
  OBVIOUS
<1>2. PICK d \in T : \A e \in T : d <= e
  <2> HIDE DEF T
  <2> QED
    BY <1>1, LeastNatural
<1>3. h - d \in 0..h /\ (h - d = 0 \/ ~c[h - d].sig)
  BY <1>2
<1>4. ASSUME NEW j \in (h - d + 1)..h PROVE c[j].sig
  <2>1. h - j \in 0..h /\ h - j < d /\ h - (h - j) = j /\ j # 0
    BY <1>2
  <2>2. h - j \notin T
    <3>1. d \in Nat /\ h - j \in Nat
      BY <2>1
    <3> HIDE DEF T
    <3> QED
      BY <1>2, <2>1, <3>1
  <2> QED
    BY <2>1, <2>2
<1> QED
  BY <1>3, <1>4 DEF Breaks

LEMMA BreakUnique ==
  ASSUME NEW c \in Seq(Item), NEW h \in 0..Len(c),
         NEW k \in 0..h, NEW j \in 0..h, Breaks(c, h, k), Breaks(c, h, j)
  PROVE  k = j
<1>1. ASSUME k < j PROVE FALSE
  BY <1>1, j \in (k + 1)..h, j # 0 DEF Breaks
<1>2. ASSUME j < k PROVE FALSE
  BY <1>2, k \in (j + 1)..h, k # 0 DEF Breaks
<1> QED
  BY <1>1, <1>2

(* The scan of dynamic_fork_height counts the signalled run that ends at   *)
(* each height.                                                            *)
LEMMA RunsAre ==
  ASSUME NEW c \in Seq(Item), NEW h \in 0..Len(c), NEW k \in 0..h, Breaks(c, h, k)
  PROVE  Runs(c)[h] = h - k
<1> DEFINE n == Len(c)
           Step(r) == [i \in 0..n |-> IF i = 0 THEN 0 ELSE IF c[i].sig THEN r[i - 1] + 1 ELSE 0]
           brk(i) == CHOOSE j \in 0..i : Breaks(c, i, j)
           g == [i \in 0..n |-> i - brk(i)]
<1>1. ASSUME NEW i \in 0..n PROVE brk(i) \in 0..i /\ Breaks(c, i, brk(i))
  BY BreakExists
<1>2. g = Step(g)
  <2> SUFFICES ASSUME NEW i \in 0..n PROVE g[i] = Step(g)[i]
    BY Zenon
  <2>1. CASE i = 0
    BY <1>1, <2>1
  <2>2. CASE i # 0 /\ ~c[i].sig
    <3>1. i \in 0..i /\ Breaks(c, i, i)
      BY <2>2 DEF Breaks
    <3> HIDE DEF brk
    <3>2. brk(i) = i
      BY <1>1, <3>1, BreakUnique
    <3> QED
      BY <2>2, <3>2
  <2>3. CASE i # 0 /\ c[i].sig
    <3>1. i - 1 \in 0..n /\ brk(i - 1) \in 0..(i - 1) /\ Breaks(c, i - 1, brk(i - 1))
      BY <1>1, <2>3
    <3> HIDE DEF brk
    <3>2. Breaks(c, i, brk(i - 1))
      BY <2>3, <3>1 DEF Breaks
    <3>3. brk(i) = brk(i - 1)
      BY <1>1, <3>1, <3>2, BreakUnique
    <3>4. g[i] = i - brk(i - 1) /\ g[i - 1] = (i - 1) - brk(i - 1)
      BY <3>1, <3>3
    <3> QED
      BY <2>3, <3>1, <3>4
  <2> QED
    BY <2>1, <2>2, <2>3
<1>3. Runs(c) = CHOOSE r : r = Step(r)
  BY DEF Runs
<1>4. Runs(c) = Step(Runs(c))
  <2> HIDE DEF Step, g
  <2> QED
    BY <1>2, <1>3
<1>5. ASSUME NEW i \in 0..n
      PROVE  Runs(c)[i] = IF i = 0 THEN 0 ELSE IF c[i].sig THEN Runs(c)[i - 1] + 1 ELSE 0
  <2> DEFINE r == Runs(c)
  <2>1. r[i] = Step(r)[i]
    BY <1>4
  <2> HIDE DEF r
  <2> QED
    BY <2>1 DEF r
<1>6. ASSUME NEW i \in 0..n PROVE Runs(c)[i] = g[i]
  <2> DEFINE r == Runs(c)
             T == {j \in 0..n : r[j] # g[j]}
  <2>1. CASE T = {}
    BY <2>1
  <2>2. CASE T # {}
    <3>1. PICK j \in T : \A m \in T : j <= m
      <4>1. T \in SUBSET Nat
        OBVIOUS
      <4> HIDE DEF T
      <4> QED
        BY <2>2, <4>1, LeastNatural
    <3>2. j \in 0..n /\ r[j] # g[j]
      BY <3>1
    <3>3. r[j] = IF j = 0 THEN 0 ELSE IF c[j].sig THEN r[j - 1] + 1 ELSE 0
      BY <1>5, <3>2
    <3>4. g[j] = IF j = 0 THEN 0 ELSE IF c[j].sig THEN g[j - 1] + 1 ELSE 0
      <4>1. g[j] = Step(g)[j]
        BY <1>2
      <4> HIDE DEF g
      <4> QED
        BY <3>2, <4>1
    <3>5. j # 0 => r[j - 1] = g[j - 1]
      <4>1. ASSUME j # 0 PROVE j - 1 \in 0..n /\ j - 1 < j
        BY <3>2, <4>1
      <4>2. ASSUME j # 0, r[j - 1] # g[j - 1] PROVE FALSE
        <5>1. j - 1 \in T
          BY <4>1, <4>2
        <5>2. j \in Nat
          BY <3>2
        <5> HIDE DEF T
        <5> QED
          BY <3>1, <4>1, <4>2, <5>1, <5>2
      <4> QED
        BY <4>2
    <3> HIDE DEF r, g
    <3> QED
      BY <3>2, <3>3, <3>4, <3>5
  <2> QED
    BY <2>1, <2>2
<1>7. brk(h) = k
  <2> HIDE DEF brk
  <2> QED
    BY <1>1, BreakUnique
<1>8. g[h] = h - k
  BY <1>7
<1> QED
  BY <1>6, <1>8

(* A run of at least Window signalled blocks ends at h, as Closes has it. *)
LEMMA RunCloses ==
  ASSUME NEW c \in Seq(Item), NEW h \in 1..Len(c)
  PROVE  Runs(c)[h] >= Window <=> Closes(c, h)
<1>1. PICK k \in 0..h : Breaks(c, h, k)
  BY BreakExists
<1>2. Runs(c)[h] = h - k
  BY <1>1, RunsAre
<1>3. Window \in Nat \ {0}
  BY ForkScheduleAssumption
<1>4. ASSUME h - k >= Window PROVE Closes(c, h)
  BY <1>1, <1>3, <1>4 DEF Breaks, Closes
<1>5. ASSUME Closes(c, h), ~(h - k >= Window) PROVE FALSE
  <2>1. k \in (h - Window + 1)..h /\ k # 0
    BY <1>3, <1>5 DEF Closes
  <2> QED
    BY <1>1, <1>5, <2>1 DEF Breaks, Closes
<1> QED
  BY <1>2, <1>4, <1>5

(* The height that locks the fork in: the first that closes a window. *)
First(c, h) == h \in 1..Len(c) /\ Closes(c, h) /\ \A k \in 1..(h - 1) : ~Closes(c, k)
Open(c) == \A h \in 1..Len(c) : ~Closes(c, h)

LEMMA FirstExists ==
  ASSUME NEW c \in Seq(Item)
  PROVE  Open(c) \/ \E h \in 1..Len(c) : First(c, h)
<1> DEFINE T == {h \in 1..Len(c) : Closes(c, h)}
<1>1. CASE T = {}
  BY <1>1 DEF Open
<1>2. CASE T # {}
  <2>1. T \in SUBSET Nat
    OBVIOUS
  <2>2. PICK h \in T : \A k \in T : h <= k
    <3> HIDE DEF T
    <3> QED
      BY <1>2, <2>1, LeastNatural
  <2>3. \A k \in 1..(h - 1) : ~Closes(c, k)
    BY <2>2
  <2> QED
    BY <2>2, <2>3 DEF First
<1> QED
  BY <1>1, <1>2

(* The scan stops at that height, and finds nothing on an open chain. *)
LEMMA ScanIs ==
  ASSUME NEW c \in Seq(Item)
  PROVE  /\ Open(c) => dynamic_fork_height(c) = None
         /\ \A h : First(c, h) => dynamic_fork_height(c) = next_fork_boundary(h + Bury)
<1> DEFINE T == {h \in 1..Len(c) : Runs(c)[h] >= Window}
<1>1. \A h \in 1..Len(c) : h \in T <=> Closes(c, h)
  BY RunCloses
<1>2. dynamic_fork_height(c) = IF T = {} THEN None ELSE next_fork_boundary(Min(T) + Bury)
  BY DEF dynamic_fork_height
<1>3. T \subseteq 1..Len(c)
  OBVIOUS
<1> HIDE DEF T
<1>4. ASSUME Open(c) PROVE T = {}
  BY <1>1, <1>3, <1>4 DEF Open
<1>5. ASSUME NEW h, First(c, h) PROVE T # {} /\ Min(T) = h
  <2>1. h \in T /\ h \in Nat
    BY <1>1, <1>5 DEF First
  <2>2. \A k \in T : h <= k
    <3> SUFFICES ASSUME NEW k \in T, k < h PROVE FALSE
      BY <1>3, <2>1
    <3> QED
      BY <1>1, <1>3, <1>5, <2>1 DEF First
  <2>3. \A x \in T : (\A y \in T : x <= y) => x = h
    BY <1>3, <2>1, <2>2
  <2> QED
    BY <2>1, <2>2, <2>3 DEF Min
<1> QED
  BY <1>2, <1>4, <1>5

-----------------------------------------------------------------------------
(* Division with remainder. *)
LEMMA Division ==
  ASSUME NEW h \in Nat, NEW B \in Nat \ {0}
  PROVE  /\ h \div B \in Nat
         /\ B * (h \div B) <= h /\ h < B * (h \div B) + B
         /\ h % B = 0 => h = B * (h \div B)
<1>1. h \div B \in Int /\ h \div B >= 0
  OBVIOUS
<1>2. B * (h \div B) <= h
  OBVIOUS
<1>3. h < B * (h \div B) + B
  OBVIOUS
<1>4. h % B = 0 => h = B * (h \div B)
  OBVIOUS
<1> QED
  BY <1>1, <1>2, <1>3, <1>4

LEMMA Multiple ==
  ASSUME NEW B \in Nat \ {0}, NEW k \in Nat
  PROVE  /\ (B * k) % B = 0 /\ B * k \in Nat
         /\ B * (k + 1) = B * k + B
         /\ \A j \in Nat : j <= k => B * j <= B * k
<1>1. (B * k) % B = 0
  OBVIOUS
<1>2. B * k \in Nat
  OBVIOUS
<1>3. B * (k + 1) = B * k + B
  OBVIOUS
<1>4. ASSUME NEW j \in Nat, j <= k PROVE B * j <= B * k
  BY <1>4
<1> QED
  BY <1>1, <1>2, <1>3, <1>4

(* next_fork_boundary is the first multiple of Boundary above h.           *)
LEMMA BoundaryIs ==
  ASSUME NEW h \in Nat
  PROVE  /\ next_fork_boundary(h) \in (h + 1)..(h + Boundary)
         /\ next_fork_boundary(h) % Boundary = 0
         /\ \A a \in (h + 1)..(h + Boundary) :
              a % Boundary = 0 => a = next_fork_boundary(h)
<1> DEFINE B == Boundary
           q == h \div B
           m == B * q
           a == B * (q + 1)
<1>1. B \in Nat \ {0}
  BY ForkScheduleAssumption
<1> HIDE DEF B
<1>2. q \in Nat /\ q + 1 \in Nat /\ m <= h /\ h < m + B
  BY <1>1, Division
<1>3. next_fork_boundary(h) = a
  <2>1. next_fork_boundary(h) = (q + 1) * B
    BY DEF next_fork_boundary, B
  <2> HIDE DEF q
  <2> QED
    BY <1>1, <1>2, <2>1
<1> HIDE DEF q
<1>4. m \in Nat /\ a = m + B /\ a % B = 0
  BY <1>1, <1>2, Multiple
<1>5. a \in (h + 1)..(h + B)
  <2> HIDE DEF m, a
  <2> QED
    BY <1>1, <1>2, <1>4
<1>6. ASSUME NEW b \in (h + 1)..(h + B), b % B = 0 PROVE b = a
  <2> DEFINE k == b \div B
             l == B * k
  <2>1. k \in Nat /\ b = l
    BY <1>1, <1>6, Division
  <2> HIDE DEF k
  <2>2. k <= q => l <= m
    BY <1>1, <1>2, <2>1, Multiple
  <2>3. k >= q + 2 => l >= a + B
    <3>1. B * (q + 2) = a + B /\ q + 2 \in Nat
      BY <1>1, <1>2, Multiple, (q + 1) + 1 = q + 2
    <3> HIDE DEF a
    <3> QED
      BY <1>1, <2>1, <3>1, Multiple
  <2>4. ~ (k <= q) /\ ~ (k >= q + 2)
    <3> HIDE DEF l, m, a
    <3> QED
      BY <1>1, <1>2, <1>4, <1>5, <1>6, <2>1, <2>2, <2>3
  <2>5. k = q + 1
    BY <1>2, <2>1, <2>4
  <2> QED
    BY <2>1, <2>5
<1> HIDE DEF a
<1> QED
  BY <1>3, <1>4, <1>5, <1>6 DEF B

(* What the scan finds is what Expected asks for.                          *)
THEOREM ScanExpected ==
  ASSUME NEW c \in Seq(Item)
  PROVE  dynamic_fork_height(c) = Expected(c) /\ dynamic_fork_height(c) \in Nat
<1>1. DOMAIN c = 1..Len(c) /\ Bury \in Nat /\ Boundary \in Nat
  BY ForkScheduleAssumption
<1>2. CASE Open(c)
  BY <1>1, <1>2, ScanIs DEF Open, Expected, None
<1>3. ASSUME NEW h \in 1..Len(c), First(c, h)
      PROVE  dynamic_fork_height(c) = Expected(c) /\ dynamic_fork_height(c) \in Nat
  <2>1. \A k \in 1..Len(c) : Closes(c, k) /\ (\A j \in 1..(k - 1) : ~Closes(c, j)) => k = h
    <3> SUFFICES ASSUME NEW k \in 1..Len(c), Closes(c, k), \A j \in 1..(k - 1) : ~Closes(c, j)
                 PROVE  k = h
      OBVIOUS
    <3>1. ~ (k < h) /\ ~ (h < k)
      BY <1>3 DEF First
    <3> QED
      BY <3>1
  <2>2. Closes(c, h) /\ \A j \in 1..(h - 1) : ~Closes(c, j)
    BY <1>3 DEF First
  <2> DEFINE first == CHOOSE k \in DOMAIN c : Closes(c, k) /\ \A j \in 1..(k - 1) : ~Closes(c, j)
             at(f) == CHOOSE a \in (f + Bury + 1)..(f + Bury + Boundary) : a % Boundary = 0
  <2>3. first = h
    BY <1>1, <2>1, <2>2
  <2>4. Expected(c) = at(first)
    BY <1>1, <2>2 DEF Expected
  <2>5. at(h) = next_fork_boundary(h + Bury) /\ next_fork_boundary(h + Bury) \in Nat
    <3>1. h + Bury \in Nat
      BY <1>1
    <3> DEFINE a == next_fork_boundary(h + Bury)
               S == (h + Bury + 1)..(h + Bury + Boundary)
    <3>2. a \in S /\ a % Boundary = 0 /\ \A b \in S : b % Boundary = 0 => b = a
      BY <1>1, <3>1, BoundaryIs
    <3>3. S \subseteq Nat
      BY <1>1
    <3> HIDE DEF a, S
    <3>4. (CHOOSE b \in S : b % Boundary = 0) = a
      BY <3>2
    <3> QED
      BY <3>2, <3>3, <3>4 DEF a, S
  <2> QED
    BY <1>3, <2>3, <2>4, <2>5, ScanIs
<1> QED
  BY <1>2, <1>3, FirstExists

LEMMA ScanNone ==
  ASSUME NEW c \in Seq(Item)
  PROVE  dynamic_fork_height(c) = None <=> Open(c)
<1>1. ASSUME NEW h \in 1..Len(c), First(c, h) PROVE dynamic_fork_height(c) # None /\ ~Open(c)
  <2>1. h + Bury \in Nat
    BY ForkScheduleAssumption
  <2>2. next_fork_boundary(h + Bury) # 0
    BY <2>1, BoundaryIs, ForkScheduleAssumption
  <2> QED
    BY <1>1, <2>2, ScanIs DEF None, First, Open
<1> QED
  BY <1>1, ScanIs, FirstExists

-----------------------------------------------------------------------------
(* c and d signal alike up to height n. *)
Alike(c, d, n) ==
    n <= Len(c) /\ n <= Len(d) /\ \A h \in 1..n : c[h].sig = d[h].sig

LEMMA AlikeCloses ==
  ASSUME NEW c \in Seq(Item), NEW d \in Seq(Item), NEW n \in Nat, Alike(c, d, n),
         NEW h \in 1..n
  PROVE  Closes(c, h) <=> Closes(d, h)
<1>1. Window \in Nat \ {0}
  BY ForkScheduleAssumption
<1>2. \A k \in (h - Window + 1)..h : h >= Window => k \in 1..n
  BY <1>1
<1> QED
  BY <1>2 DEF Alike, Closes

(* A chain that carries on from one that is locked in is locked in at the  *)
(* same height; nothing locks in below an open chain's tip.                *)
LEMMA ScanPrefix ==
  ASSUME NEW c \in Seq(Item), NEW d \in Seq(Item), Alike(c, d, Len(c))
  PROVE  /\ dynamic_fork_height(c) # None => dynamic_fork_height(d) = dynamic_fork_height(c)
         /\ dynamic_fork_height(d) = None => dynamic_fork_height(c) = None
<1>1. ASSUME NEW h, First(c, h) PROVE First(d, h)
  <2>1. h \in 1..Len(c) /\ Len(c) <= Len(d) /\ Len(c) \in Nat /\ Len(d) \in Nat
    BY <1>1 DEF First, Alike
  <2>2. \A k \in 1..h : Closes(c, k) <=> Closes(d, k)
    BY <2>1, AlikeCloses
  <2> QED
    BY <1>1, <2>1, <2>2 DEF First
<1>2. ASSUME dynamic_fork_height(c) # None
      PROVE  dynamic_fork_height(d) = dynamic_fork_height(c)
  <2>1. PICK h \in 1..Len(c) : First(c, h)
    BY <1>2, ScanNone, FirstExists
  <2> QED
    BY <1>1, <2>1, ScanIs
<1> QED
  BY <1>2

LEMMA ScanAlike ==
  ASSUME NEW c \in Seq(Item), NEW d \in Seq(Item), Len(c) = Len(d), Alike(c, d, Len(c))
  PROVE  dynamic_fork_height(c) = dynamic_fork_height(d)
<1>1. Alike(d, c, Len(d))
  BY DEF Alike
<1> QED
  BY <1>1, ScanPrefix

(* Parts of a chain. *)
LEMMA Part ==
  ASSUME NEW c \in Seq(Item), NEW n \in 0..Len(c)
  PROVE  /\ SubSeq(c, 1, n) \in Seq(Item) /\ Len(SubSeq(c, 1, n)) = n
         /\ \A h \in 1..n : SubSeq(c, 1, n)[h] = c[h]
         /\ Alike(SubSeq(c, 1, n), c, n)
<1>1. /\ SubSeq(c, 1, n) \in Seq(Item) /\ Len(SubSeq(c, 1, n)) = n
      /\ \A h \in 1..n : SubSeq(c, 1, n)[h] = c[h]
  BY SubSeqProperties
<1> QED
  BY <1>1 DEF Alike

(* lockin_at_tip sees a lock-in that the block at the tip has just made.   *)
LEMMA TipSees ==
  ASSUME NEW c \in Seq(Item), c # <<>>,
         dynamic_fork_height(SubSeq(c, 1, Len(c) - 1)) = None
  PROVE  lockin_at_tip(c) = dynamic_fork_height(c)
<1> DEFINE n == Len(c)
           p == SubSeq(c, 1, n - 1)
<1>1. n \in Nat \ {0} /\ Window \in Nat
  BY ForkScheduleAssumption
<1>2. p \in Seq(Item) /\ Len(p) = n - 1 /\ Alike(p, c, n - 1)
  BY <1>1, n - 1 \in 0..Len(c), Part
<1>o. dynamic_fork_height(p) = None
  OBVIOUS
<1> HIDE DEF p
<1>3. \A h \in 1..(n - 1) : ~Closes(c, h)
  <2>1. Open(p)
    BY <1>2, <1>o, ScanNone
  <2> QED
    BY <1>1, <1>2, <2>1, AlikeCloses DEF Open
<1>4. lockin_at_tip(c) = IF Closes(c, n) THEN next_fork_boundary(n + Bury) ELSE None
  BY <1>1 DEF lockin_at_tip, Closes
<1>5. CASE Closes(c, n)
  <2>1. First(c, n)
    BY <1>1, <1>3, <1>5 DEF First
  <2> QED
    BY <1>4, <1>5, <2>1, ScanIs
<1>6. CASE ~Closes(c, n)
  <2>1. Open(c)
    BY <1>1, <1>3, <1>6 DEF Open
  <2> QED
    BY <1>4, <1>6, <2>1, ScanIs
<1> QED
  BY <1>5, <1>6

(* Chains that signal alike up to n have parts that are scanned alike.     *)
LEMMA PartAlike ==
  ASSUME NEW c \in Seq(Item), NEW d \in Seq(Item), NEW n \in Nat, Alike(c, d, n)
  PROVE  dynamic_fork_height(SubSeq(c, 1, n)) = dynamic_fork_height(SubSeq(d, 1, n))
<1> DEFINE p == SubSeq(c, 1, n)
           q == SubSeq(d, 1, n)
<1>1. n \in 0..Len(c) /\ n \in 0..Len(d)
  BY DEF Alike
<1>2. /\ p \in Seq(Item) /\ Len(p) = n /\ \A h \in 1..n : p[h] = c[h]
      /\ q \in Seq(Item) /\ Len(q) = n /\ \A h \in 1..n : q[h] = d[h]
  BY <1>1, Part
<1> HIDE DEF p, q
<1>3. Alike(p, q, Len(p))
  BY <1>2 DEF Alike
<1>4. dynamic_fork_height(p) = dynamic_fork_height(q)
  BY <1>2, <1>3, ScanAlike
<1> QED
  BY <1>4 DEF p, q

-----------------------------------------------------------------------------
(* The inductive invariant.  A height that is cached or on file is the     *)
(* chain's; a block is judged without one only when the chain has none;    *)
(* and after the first full scan only the block at the tip can have locked *)
(* the fork in unseen, which is why lockin_at_tip is enough from then on.  *)
RightAt(c, h) ==
    LET f == dynamic_fork_height(SubSeq(c, 1, h - 1))
    IN  c[h].post = (f # None /\ h >= f)
RightChain(c) == \A h \in 2..Len(c) : RightAt(c, h)

ForkTypes ==
    /\ chain \in Seq(Item) /\ chain # <<>>
    /\ fork_height \in Nat /\ sidecar \in Nat
    /\ caught_up \in BOOLEAN /\ undone \in BOOLEAN /\ blind \in BOOLEAN

Known ==
    /\ RightChain(chain)
    /\ fork_height # None => fork_height = dynamic_fork_height(chain)
    /\ sidecar # None => sidecar = dynamic_fork_height(chain)
    /\ pc = "save" => fork_height # None
    /\ pc = "judge" /\ fork_height = None => dynamic_fork_height(chain) = None
    /\ caught_up /\ fork_height = None
         => dynamic_fork_height(SubSeq(chain, 1, Len(chain) - 1)) = None

ForkInv == ForkTypes /\ (undone \/ blind \/ Known)

(* A block is judged right on every chain that has it above the same       *)
(* signals.                                                                *)
LEMMA RightShared ==
  ASSUME NEW c \in Seq(Item), NEW d \in Seq(Item), NEW n \in Nat,
         n <= Len(c), n <= Len(d), \A h \in 1..n : c[h] = d[h],
         \A h \in 2..Len(d) : RightAt(d, h)
  PROVE  \A h \in 2..n : RightAt(c, h)
<1> SUFFICES ASSUME NEW h \in 2..n PROVE RightAt(c, h)
  OBVIOUS
<1>1. h - 1 \in Nat /\ h \in 2..Len(d) /\ h \in 1..n
  OBVIOUS
<1>2. Alike(c, d, h - 1)
  BY <1>1 DEF Alike
<1>3. dynamic_fork_height(SubSeq(c, 1, h - 1)) = dynamic_fork_height(SubSeq(d, 1, h - 1))
  BY <1>1, <1>2, PartAlike
<1>4. RightAt(d, h) /\ c[h] = d[h]
  BY <1>1
<1> QED
  BY <1>3, <1>4, Zenon DEF RightAt

(* A longer chain, cut back to the length of one it carries on from.       *)
LEMMA PartScan ==
  ASSUME NEW c \in Seq(Item), NEW d \in Seq(Item), Alike(c, d, Len(c))
  PROVE  dynamic_fork_height(SubSeq(d, 1, Len(c))) = dynamic_fork_height(c)
<1> DEFINE q == SubSeq(d, 1, Len(c))
<1>1. Len(c) \in 0..Len(d)
  BY DEF Alike
<1>2. q \in Seq(Item) /\ Len(q) = Len(c) /\ \A h \in 1..Len(c) : q[h] = d[h]
  BY <1>1, Part
<1> HIDE DEF q
<1>3. Alike(q, c, Len(q))
  BY <1>2 DEF Alike
<1>4. dynamic_fork_height(q) = dynamic_fork_height(c)
  BY <1>2, <1>3, ScanAlike
<1> QED
  BY <1>4 DEF q

LEMMA InitFork == ForkInit => ForkInv
<1> SUFFICES ASSUME ForkInit PROVE ForkInv
  OBVIOUS
<1>1. Genesis \in Item
  BY DEF Genesis, Item
<1>2. chain \in Seq(Item) /\ Len(chain) = 1 /\ chain # <<>>
  BY <1>1 DEF ForkInit
<1>3. ForkTypes
  <2>1. caught_up \in BOOLEAN /\ undone \in BOOLEAN /\ blind \in BOOLEAN
    BY Zenon DEF ForkInit
  <2> QED
    BY <1>2, <2>1 DEF ForkInit, ForkTypes, None
<1>4. RightChain(chain)
  BY <1>2 DEF RightChain
<1> QED
  BY <1>3, <1>4 DEF ForkInit, Known, ForkInv

(* What Detect finds is the chain's height. *)
LEMMA DetectFinds ==
  ASSUME ForkTypes, Known, fork_height = None
  PROVE  Detect(chain) = dynamic_fork_height(chain)
<1>1. CASE caught_up
  BY <1>1, TipSees DEF ForkTypes, Known, Detect
<1>2. CASE ~caught_up
  BY <1>2 DEF Detect
<1> QED
  BY <1>1, <1>2

LEMMA LookFork == ForkInv /\ Look => ForkInv'
<1> SUFFICES ASSUME ForkInv, Look PROVE ForkInv'
  OBVIOUS
<1> DEFINE D == dynamic_fork_height(chain)
<1>1. ForkTypes /\ UNCHANGED <<chain, sidecar, undone, blind>> /\ caught_up' = TRUE
  BY DEF ForkInv, Look
<1>2. D \in Nat
  BY <1>1, ScanExpected DEF ForkTypes
<1>3. lockin_at_tip(chain) \in Nat
  <2>1. Len(chain) \in Nat /\ Bury \in Nat
    BY <1>1, ForkScheduleAssumption DEF ForkTypes
  <2>2. next_fork_boundary(Len(chain) + Bury) \in Nat
    <3> DEFINE m == Len(chain) + Bury
    <3>1. m \in Nat /\ Boundary \in Nat
      BY <2>1, ForkScheduleAssumption
    <3> HIDE DEF m
    <3>2. next_fork_boundary(m) \in (m + 1)..(m + Boundary)
      BY <3>1, BoundaryIs
    <3>3. next_fork_boundary(m) \in Nat
      BY <3>1, <3>2
    <3> QED
      BY <3>3 DEF m
  <2> QED
    BY <2>2 DEF lockin_at_tip, None
<1>4. fork_height' \in Nat
  BY <1>1, <1>2, <1>3 DEF Look, Detect, ForkTypes
<1>5. ForkTypes'
  BY <1>1, <1>4, Zenon DEF ForkTypes
<1>6. ASSUME ~undone, ~blind PROVE Known'
  <2>1. Known
    BY <1>6 DEF ForkInv
  <2>2. CASE fork_height = None
    <3>1. fork_height' = D /\ pc' = IF D = None THEN "judge" ELSE "save"
      BY <1>1, <2>1, <2>2, DetectFinds DEF Look
    <3>2. D = None => dynamic_fork_height(SubSeq(chain, 1, Len(chain) - 1)) = None
      <4>1. chain \in Seq(Item) /\ Len(chain) - 1 \in 0..Len(chain)
        BY <1>1 DEF ForkTypes
      <4>2. /\ SubSeq(chain, 1, Len(chain) - 1) \in Seq(Item)
            /\ Len(SubSeq(chain, 1, Len(chain) - 1)) = Len(chain) - 1
            /\ Alike(SubSeq(chain, 1, Len(chain) - 1), chain, Len(chain) - 1)
        BY <4>1, Part
      <4> QED
        BY <4>1, <4>2, ScanPrefix
    <3> QED
      BY <1>1, <2>1, <3>1, <3>2 DEF Known
  <2>3. CASE fork_height # None
    <3>1. fork_height' = fork_height /\ pc' = "judge"
      BY <2>3 DEF Look
    <3> QED
      BY <1>1, <2>1, <2>3, <3>1 DEF Known
  <2> QED
    BY <2>2, <2>3
<1> QED
  BY <1>1, <1>5, <1>6 DEF ForkInv

LEMMA JudgeFork == ForkInv /\ Judge => ForkInv'
<1> SUFFICES ASSUME ForkInv, Judge PROVE ForkInv'
  OBVIOUS
<1> DEFINE D == dynamic_fork_height(chain)
<1>1. /\ ForkTypes /\ pc = "judge" /\ pc' = "idle"
      /\ UNCHANGED <<fork_height, caught_up, sidecar, undone, blind>>
  BY DEF ForkInv, Judge
<1>2. CASE UNCHANGED chain
  <2>1. ForkTypes'
    BY <1>1, <1>2, Zenon DEF ForkTypes
  <2>2. Known => Known'
    BY <1>1, <1>2 DEF Known
  <2> QED
    BY <1>1, <2>1, <2>2 DEF ForkInv
<1>3. ASSUME NEW s \in BOOLEAN, chain' = Append(chain, [sig |-> s, post |-> PostFork])
      PROVE  ForkInv'
  <2> DEFINE e == [sig |-> s, post |-> PostFork]
             n == Len(chain)
  <2>1. e \in Item /\ e.post = PostFork
    BY Zenon DEF Item, PostFork
  <2> HIDE DEF e
  <2>2. chain \in Seq(Item) /\ chain' = Append(chain, e)
    BY <1>1, <1>3 DEF ForkTypes, e
  <2>3. /\ chain' \in Seq(Item) /\ Len(chain') = n + 1 /\ chain'[n + 1] = e /\ n \in Nat
        /\ \A h \in 1..n : chain'[h] = chain[h]
    BY <2>1, <2>2, AppendProperties
  <2>4. ForkTypes'
    <3>1. chain' # <<>>
      BY <2>3
    <3> QED
      BY <1>1, <2>3, <3>1, Zenon DEF ForkTypes
  <2>5. Alike(chain, chain', n)
    BY <2>2, <2>3 DEF Alike
  <2>6. ASSUME Known PROVE Known'
    <3>1. fork_height = D
      BY <1>1, <2>6 DEF Known
    <3>2. dynamic_fork_height(SubSeq(chain', 1, n)) = D
      BY <2>2, <2>3, <2>5, PartScan
    <3>3. RightAt(chain', n + 1)
      <4>1. chain'[n + 1].post = (D # None /\ n + 1 >= D)
        BY <2>1, <2>3, <3>1 DEF PostFork, Tip
      <4>2. (n + 1) - 1 = n
        BY <2>3
      <4> QED
        BY <3>2, <4>1, <4>2, Zenon DEF RightAt
    <3>4. \A h \in 2..n : RightAt(chain', h)
      <4>1. \A h \in 2..Len(chain) : RightAt(chain, h)
        BY <2>6, Zenon DEF Known, RightChain
      <4>2. n <= Len(chain') /\ n <= Len(chain)
        BY <2>3
      <4> HIDE DEF n
      <4> QED
        BY <2>2, <2>3, <4>1, <4>2, RightShared
    <3>5. RightChain(chain')
      <4>1. \A h \in 2..Len(chain') : h \in 2..n \/ h = n + 1
        BY <2>3
      <4> QED
        BY <3>3, <3>4, <4>1, Zenon DEF RightChain
    <3>6. D # None => dynamic_fork_height(chain') = D
      BY <2>2, <2>3, <2>5, ScanPrefix
    <3>7. Len(chain') - 1 = n
      BY <2>3
    <3>8. /\ fork_height' # None => fork_height' = dynamic_fork_height(chain')
          /\ sidecar' # None => sidecar' = dynamic_fork_height(chain')
      BY <1>1, <2>6, <3>1, <3>6 DEF Known
    <3>9. caught_up' /\ fork_height' = None
            => dynamic_fork_height(SubSeq(chain', 1, Len(chain') - 1)) = None
      BY <1>1, <3>1, <3>2, <3>7
    <3>10. RightChain(chain)'
      BY <3>5, Zenon DEF RightChain, RightAt
    <3> QED
      BY <1>1, <3>8, <3>9, <3>10, Zenon DEF Known
  <2> QED
    BY <1>1, <2>4, <2>6 DEF ForkInv
<1> QED
  BY <1>2, <1>3 DEF Judge

(* A reorganisation that keeps the lock-in keeps the height; one that      *)
(* removes it is only excused when the height was known.                   *)
LEMMA RollbackFork == ForkInv /\ Rollback => ForkInv'
<1> SUFFICES ASSUME ForkInv, Rollback PROVE ForkInv'
  OBVIOUS
<1>1. ForkTypes /\ pc = "idle" /\ UNCHANGED <<fork_height, caught_up, sidecar, pc, blind>>
  BY DEF ForkInv, Rollback
<1>2. PICK h \in 1..(Tip - 1) :
        /\ chain' = SubSeq(chain, 1, h)
        /\ undone' = (undone \/ ({fork_height, sidecar} # {None}
                                   /\ dynamic_fork_height(chain') = None))
  BY DEF Rollback
<1>3. chain \in Seq(Item) /\ Tip = Len(chain) /\ h \in 0..Len(chain) /\ h <= Len(chain) - 1
  BY <1>1 DEF ForkTypes, Tip
<1>4. /\ chain' \in Seq(Item) /\ Len(chain') = h /\ Alike(chain', chain, h)
      /\ \A k \in 1..h : chain'[k] = chain[k]
  BY <1>2, <1>3, Part
<1>5. ForkTypes'
  <2>1. chain' # <<>>
    BY <1>4
  <2>2. undone' \in BOOLEAN
    BY <1>2, Zenon
  <2> QED
    BY <1>1, <1>4, <2>1, <2>2, Zenon DEF ForkTypes
<1>6. ASSUME ~undone', Known PROVE Known'
  <2>1. {fork_height, sidecar} # {None} => dynamic_fork_height(chain') # None
    BY <1>2, <1>6, Zenon
  <2>2. dynamic_fork_height(chain') # None
          => dynamic_fork_height(chain) = dynamic_fork_height(chain')
    BY <1>3, <1>4, ScanPrefix
  <2>3. /\ fork_height' # None => fork_height' = dynamic_fork_height(chain')
        /\ sidecar' # None => sidecar' = dynamic_fork_height(chain')
    BY <1>1, <1>6, <2>1, <2>2 DEF Known
  <2>4. RightChain(chain)'
    <3>1. \A k \in 2..Len(chain) : RightAt(chain, k)
      BY <1>6, Zenon DEF Known, RightChain
    <3>2. \A k \in 2..h : RightAt(chain', k)
      BY <1>3, <1>4, <3>1, RightShared
    <3> QED
      BY <1>4, <3>2, Zenon DEF RightChain, RightAt
  <2>5. ASSUME caught_up, fork_height = None
        PROVE  dynamic_fork_height(SubSeq(chain', 1, Len(chain') - 1)) = None
    <3> DEFINE p == SubSeq(chain, 1, Len(chain) - 1)
               q == SubSeq(chain', 1, Len(chain') - 1)
    <3>1. dynamic_fork_height(p) = None
      BY <1>6, <2>5 DEF Known
    <3>2. Len(chain) - 1 \in 0..Len(chain) /\ h - 1 \in 0..h
      BY <1>3
    <3>3. p \in Seq(Item) /\ Len(p) = Len(chain) - 1 /\ Alike(p, chain, Len(chain) - 1)
      BY <1>3, <3>2, Part
    <3>4. q \in Seq(Item) /\ Len(q) = h - 1 /\ Alike(q, chain', h - 1)
      BY <1>4, <3>2, Part
    <3> HIDE DEF p, q
    <3>5. Alike(q, p, Len(q))
      BY <1>3, <1>4, <3>3, <3>4 DEF Alike
    <3>6. dynamic_fork_height(q) = None
      BY <3>1, <3>3, <3>4, <3>5, ScanPrefix
    <3> QED
      BY <3>6 DEF q
  <2> QED
    BY <1>1, <2>3, <2>4, <2>5, Zenon DEF Known
<1>7. undone => undone'
  BY <1>2, Zenon
<1> QED
  BY <1>1, <1>5, <1>6, <1>7, Zenon DEF ForkInv

(* A ledger that honest rules built comes with nothing cached.             *)
LEMMA BootstrapFork == ForkInv /\ Bootstrap => ForkInv'
<1> SUFFICES ASSUME ForkInv, Bootstrap PROVE ForkInv'
  OBVIOUS
<1>1. PICK n \in Window..MaxHeight : \E sigs \in [1..n -> BOOLEAN] :
        ~sigs[1] /\ chain' = Honest(sigs)
  BY DEF Bootstrap
<1>2. PICK sigs \in [1..n -> BOOLEAN] : chain' = Honest(sigs)
  BY <1>1
<1>3. n \in Nat \ {0}
  BY ForkScheduleAssumption
<1> DEFINE bare == [h \in 1..n |-> [sig |-> sigs[h], post |-> FALSE]]
           f(h) == dynamic_fork_height(SubSeq(bare, 1, h - 1))
           full == [h \in 1..n |-> [sig |-> sigs[h], post |-> f(h) # None /\ h >= f(h)]]
<1>4. chain' = full
  BY <1>2 DEF Honest
<1>5. bare \in Seq(Item) /\ Len(bare) = n /\ \A h \in 1..n : bare[h].sig = sigs[h]
  <2>1. \A h \in 1..n : [sig |-> sigs[h], post |-> FALSE] \in Item
    BY DEF Item
  <2> QED
    BY <1>3, <2>1
<1> HIDE DEF bare
<1>6. /\ full \in Seq(Item) /\ Len(full) = n
      /\ \A h \in 1..n : full[h].sig = sigs[h] /\ full[h].post = (f(h) # None /\ h >= f(h))
  <2> HIDE DEF f
  <2>1. \A h \in 1..n : [sig |-> sigs[h], post |-> f(h) # None /\ h >= f(h)] \in Item
    BY Zenon DEF Item
  <2> QED
    BY <1>3, <2>1
<1> HIDE DEF full
<1>7. ASSUME NEW h \in 2..n PROVE RightAt(full, h)
  <2>1. h \in 1..n /\ h - 1 \in Nat
    OBVIOUS
  <2>2. Alike(bare, full, h - 1)
    BY <1>3, <1>5, <1>6 DEF Alike
  <2>3. f(h) = dynamic_fork_height(SubSeq(full, 1, h - 1))
    BY <1>5, <1>6, <2>1, <2>2, PartAlike
  <2>4. full[h].post = (f(h) # None /\ h >= f(h))
    BY <1>6, <2>1
  <2> QED
    BY <2>3, <2>4, Zenon DEF RightAt
<1>8. RightChain(chain)'
  BY <1>4, <1>6, <1>7, Zenon DEF RightChain, RightAt
<1>9. ForkTypes'
  <2>1. chain' \in Seq(Item) /\ chain' # <<>>
    BY <1>3, <1>4, <1>6
  <2>2. fork_height' \in Nat /\ sidecar' \in Nat
    BY DEF Bootstrap, Fresh, None
  <2>3. caught_up' \in BOOLEAN /\ undone' \in BOOLEAN /\ blind' \in BOOLEAN
    BY Zenon DEF Bootstrap, Fresh
  <2> QED
    BY <2>1, <2>2, <2>3, Zenon DEF ForkTypes
<1>10. Known'
  BY <1>8 DEF Known, Bootstrap, Fresh
<1> QED
  BY <1>9, <1>10, Zenon DEF ForkInv

(* Every step keeps the invariant. *)
LEMMA NextFork == ForkInv /\ [ForkNext]_forkVars => ForkInv'
<1> SUFFICES ASSUME ForkInv, [ForkNext]_forkVars PROVE ForkInv'
  OBVIOUS
<1>0. ForkTypes /\ dynamic_fork_height(chain) \in Nat
  BY ScanExpected DEF ForkInv, ForkTypes
<1>1. CASE LookFails
  <2>1. ForkTypes'
    BY <1>0, <1>1, Zenon DEF LookFails, ForkTypes
  <2> QED
    BY <1>1, <2>1, Zenon DEF LookFails, ForkInv
<1>2. CASE Save
  <2>1. sidecar' \in {sidecar, IF sidecar = None THEN fork_height ELSE sidecar}
    BY <1>2 DEF Save, save_locked_height
  <2>2. ForkTypes'
    BY <1>0, <1>2, <2>1, Zenon DEF Save, ForkTypes
  <2>3. Known => Known'
    BY <1>2, <2>1 DEF Save, Known
  <2> QED
    BY <1>2, <2>2, <2>3, Zenon DEF Save, ForkInv
<1>3. CASE Restart
  <2>1. ForkTypes'
    BY <1>0, <1>3, Zenon DEF Restart, ForkTypes
  <2>2. Known => Known'
    BY <1>3 DEF Restart, Known
  <2> QED
    BY <1>3, <2>1, <2>2, Zenon DEF Restart, ForkInv
<1>4. CASE RestartPinned
  <2> DEFINE pin == dynamic_fork_height(chain)
  <2>1. /\ \/ fork_height' = pin /\ sidecar' = pin /\ pc' = "idle"
           \/ pc' = "halted" /\ UNCHANGED <<fork_height, sidecar>>
        /\ caught_up' = FALSE /\ UNCHANGED <<chain, undone, blind>>
    BY <1>4 DEF RestartPinned
  <2>2. ForkTypes'
    BY <1>0, <2>1, Zenon DEF ForkTypes
  <2>3. Known => Known'
    BY <2>1 DEF Known
  <2> QED
    BY <2>1, <2>2, <2>3, Zenon DEF ForkInv
<1>5. CASE LoseSidecar
  <2>1. ForkTypes'
    <3>1. sidecar' \in Nat
      BY <1>5 DEF LoseSidecar, None
    <3> QED
      BY <1>0, <1>5, <3>1, Zenon DEF LoseSidecar, ForkTypes
  <2>2. Known => Known'
    BY <1>5 DEF LoseSidecar, Known
  <2> QED
    BY <1>5, <2>1, <2>2, Zenon DEF LoseSidecar, ForkInv
<1>6. CASE regnet_init
  <2>1. chain' \in Seq(Item) /\ Len(chain') = 1 /\ chain' # <<>>
    BY <1>6 DEF regnet_init, Genesis, Item
  <2>2. fork_height' \in Nat /\ sidecar' \in Nat
    BY <1>6 DEF regnet_init, Fresh, None
  <2>3. caught_up' \in BOOLEAN /\ undone' \in BOOLEAN /\ blind' \in BOOLEAN
    BY <1>6, Zenon DEF regnet_init, Fresh
  <2>4. ForkTypes'
    BY <2>1, <2>2, <2>3, Zenon DEF ForkTypes
  <2>5. RightChain(chain)'
    BY <2>1 DEF RightChain
  <2>6. Known'
    BY <1>6, <2>5 DEF Known, regnet_init, Fresh
  <2> QED
    BY <2>4, <2>6, Zenon DEF ForkInv
<1>7. CASE UNCHANGED forkVars
  <2>1. ForkTypes' /\ (Known => Known')
    BY <1>0, <1>7 DEF forkVars, ForkTypes, Known, RightChain, RightAt
  <2> QED
    BY <1>7, <2>1, Zenon DEF forkVars, ForkInv
<1> QED
  BY <1>1, <1>2, <1>3, <1>4, <1>5, <1>6, <1>7,
     LookFork, JudgeFork, RollbackFork, BootstrapFork DEF ForkNext

(* The invariant holds in every state of every behaviour. *)
THEOREM ForkInvariant == ForkSpec => []ForkInv
<1> QED
  BY InitFork, NextFork, PTL DEF ForkSpec

(* Every block was judged by the rules its own ancestors ask for: digest   *)
(* and fork.py agree with the definition of the lock-in at every height,   *)
(* across restarts, lost sidecars, snapshots and reorganisations.          *)
THEOREM AlwaysJudgedRight == ForkSpec => []JudgedRight
<1>1. ForkInv => JudgedRight
  <2> SUFFICES ASSUME ForkInv, ~undone, ~blind, NEW h \in 2..Tip
               PROVE  LET f == Expected(SubSeq(chain, 1, h - 1))
                      IN  chain[h].post = (f # None /\ h >= f)
    BY DEF JudgedRight
  <2>1. ForkTypes /\ RightAt(chain, h)
    BY DEF ForkInv, Known, RightChain, Tip
  <2>2. chain \in Seq(Item) /\ h - 1 \in 0..Len(chain)
    BY <2>1 DEF ForkTypes, Tip
  <2>3. SubSeq(chain, 1, h - 1) \in Seq(Item)
    BY <2>2, Part
  <2>4. dynamic_fork_height(SubSeq(chain, 1, h - 1)) = Expected(SubSeq(chain, 1, h - 1))
    BY <2>3, ScanExpected
  <2> QED
    BY <2>1, <2>4, Zenon DEF RightAt
<1> QED
  BY <1>1, ForkInvariant, PTL

(* What dynamic_fork_height finds on a chain it finds on every longer one. *)
THEOREM AlwaysTipIndependent == ForkSpec => TipIndependent
<1>1. ForkInv /\ ForkInv' =>
        [(Tip < Len(chain') /\ SubSeq(chain', 1, Tip) = chain
            /\ dynamic_fork_height(chain) # None)
           => dynamic_fork_height(chain') = dynamic_fork_height(chain)]_forkVars
  <2> SUFFICES ASSUME ForkInv, ForkInv', Tip < Len(chain'), SubSeq(chain', 1, Tip) = chain,
                      dynamic_fork_height(chain) # None
               PROVE  dynamic_fork_height(chain') = dynamic_fork_height(chain)
    OBVIOUS
  <2>1. chain \in Seq(Item) /\ chain' \in Seq(Item) /\ Tip = Len(chain)
    BY DEF ForkInv, ForkTypes, Tip
  <2>2. Tip \in 0..Len(chain')
    BY <2>1
  <2>3. Alike(chain, chain', Len(chain))
    BY <2>1, <2>2, Part
  <2> QED
    BY <2>1, <2>3, ScanPrefix
<1> QED
  BY <1>1, ForkInvariant, PTL DEF TipIndependent

-----------------------------------------------------------------------------
(* The difficulty self-heal (module DiffHeal).                             *)

(* The variables the arguments below are about. *)
HealTypes ==
    /\ tip \in Nat /\ bad \in Nat /\ confirm \in Nat
    /\ count \in Nat
    /\ trigger \in Int /\ target \in Int
    /\ proc \in {"run", "arm", "stop", "off", "down", "boot", "roll"}
    /\ heals \in Nat /\ splits \in Nat /\ arms \in Nat /\ cuts \in Nat /\ crashes \in Nat

Readable == trigger \notin {NoFile, Torn}

(* The file exists from the moment it is written to the next start; one    *)
(* that could not be written may lie about while the node runs.            *)
TriggerPlace ==
    /\ proc = "run" => ~Readable
    /\ proc = "roll" => trigger = NoFile
    /\ proc \in {"arm", "stop"} => Readable

(* Between the trigger and the sidecar one heal is not yet counted; every  *)
(* other heal the sidecar does not know was paid for with a crash, or was  *)
(* forgotten with a budget given back.                                     *)
Forgotten == LifetimeMax * splits
Budget ==
    /\ count <= LifetimeMax
    /\ proc = "arm" => count < LifetimeMax
    /\ Forgotten \in Nat
    /\ heals <= Forgotten + count + crashes + (IF proc = "arm" THEN 1 ELSE 0)

(* A heal is on its way as a file that can be read, or as the target that  *)
(* the startup holds; the ones done and the ones on their way account for  *)
(* all that were armed, up to the crashes.                                 *)
OnItsWay == (IF Readable THEN 1 ELSE 0) + (IF proc = "roll" THEN 1 ELSE 0)
Accounted ==
    /\ cuts + OnItsWay <= arms
    /\ arms <= cuts + OnItsWay + crashes

(* No height below the checkpoint is ever the tip or a target.             *)
AboveCheckpoint ==
    /\ tip >= Checkpoint
    /\ Readable => trigger >= Checkpoint
    /\ proc = "roll" => target >= Checkpoint

HealInv == HealTypes /\ TriggerPlace /\ Budget /\ Accounted /\ AboveCheckpoint

(* The samples of a reading are a sequence of difficulties. *)
LEMMA SampleType ==
  ASSUME NEW s \in Samples
  PROVE  /\ Len(s) \in Nat /\ DOMAIN s = 1..Len(s)
         /\ \A i \in 1..Len(s) : s[i] \in Nat
<1>1. PICK n \in 0..MaxPeers : s \in [1..n -> Diff]
  BY Zenon DEF Samples
<1>2. n \in Nat
  BY DiffHealAssumption, <1>1
<1>3. Len(s) = n /\ DOMAIN s = 1..n
  BY <1>1, <1>2
<1>4. \A i \in 1..n : s[i] \in Nat
  BY <1>1, DiffHealAssumption
<1> QED
  BY <1>2, <1>3, <1>4

(* The median of at least one sample is a number. *)
LEMMA MedianType ==
  ASSUME NEW s \in Samples, Len(s) >= 1
  PROVE  Median2(s) \in Int
<1>1. Len(s) \in Nat /\ \A i \in 1..Len(s) : s[i] \in Nat
  BY SampleType
<1>2. CASE Len(s) % 2 = 1
  BY <1>1, <1>2 DEF Median2
<1>3. CASE Len(s) % 2 # 1
  <2>1. Len(s) \div 2 \in 1..Len(s) /\ Len(s) \div 2 + 1 \in 1..Len(s)
    BY <1>1, <1>3
  <2> QED
    BY <1>1, <1>3, <2>1 DEF Median2
<1> QED
  BY <1>2, <1>3

(* A sample near the node's own difficulty is far from a median that       *)
(* diverges from it, so it is not among the samples that agree.            *)
LEMMA NearOrAgreeing ==
  ASSUME NEW local \in Nat, NEW m2 \in Int, NEW d \in Nat,
         Abs(2 * local - m2) > 2 * Threshold
  PROVE  ~(Abs(2 * (d - local)) <= Threshold /\ Abs(2 * d - m2) <= Threshold)
  BY DiffHealAssumption DEF Abs

(* detect_difficulty_divergence never goes against three quarters of the   *)
(* samples.                                                                *)
LEMMA ReadingSound ==
  ASSUME NEW s \in Samples, Diverged(s, Local)
  PROVE  Reading(s).n >= MinPeers /\ 4 * Reading(s).near <= Reading(s).n
<1> DEFINE D == 1..Len(s)
           m2 == Median2(s)
           near == {i \in D : Abs(2 * (s[i] - Local)) <= Threshold}
           agree == {i \in D : Abs(2 * s[i] - m2) <= Threshold}
<1>1. /\ Len(s) \in Nat /\ DOMAIN s = D /\ \A i \in D : s[i] \in Nat
  BY SampleType
<1>2. /\ Len(s) >= MinPeers
      /\ Abs(2 * Local - m2) > 2 * Threshold
      /\ 4 * Cardinality(agree) >= 3 * Len(s)
  BY <1>1, Zenon DEF Diverged, Agreeing
<1>3. Local \in Nat
  BY DiffHealAssumption DEF Local
<1>4. m2 \in Int
  BY <1>1, <1>2, MedianType, DiffHealAssumption
<1> HIDE DEF m2
<1>5. near \cap agree = {}
  BY <1>1, <1>2, <1>3, <1>4, NearOrAgreeing
<1>6. IsFiniteSet(D) /\ Cardinality(D) = Len(s)
  BY <1>1, FS_Interval
<1>7. near \subseteq D /\ agree \subseteq D
  OBVIOUS
<1> HIDE DEF near, agree
<1>8. /\ IsFiniteSet(near) /\ IsFiniteSet(agree)
      /\ Cardinality(near) \in Nat /\ Cardinality(agree) \in Nat
  BY <1>6, <1>7, FS_Subset, FS_CardinalityType
<1>9. Cardinality(near \cup agree) = Cardinality(near) + Cardinality(agree)
  <2>1. Cardinality(near \cap agree) = 0
    BY <1>5, FS_EmptySet
  <2>2. Cardinality(near \cup agree)
          = Cardinality(near) + Cardinality(agree) - Cardinality(near \cap agree)
    BY <1>8, FS_Union, Zenon
  <2> QED
    BY <1>8, <2>1, <2>2
<1>10. Cardinality(near \cup agree) <= Len(s)
  BY <1>6, <1>7, FS_Subset
<1>11. 4 * Cardinality(near) <= Len(s)
  BY <1>1, <1>2, <1>8, <1>9, <1>10
<1>12. Reading(s).n = Len(s) /\ Reading(s).near = Cardinality(near)
  <2>1. Reading(s) = [n |-> Len(s), near |-> Cardinality(near), diverged |-> Diverged(s, Local)]
    BY <1>1, Zenon DEF Reading, near
  <2> QED
    BY <2>1
<1> QED
  BY <1>2, <1>11, <1>12

(* The node starts with no heal armed. *)
LEMMA InitHealInv == Init => HealInv
  BY DiffHealAssumption, SMT
  DEF Init, HealInv, HealTypes, TriggerPlace, Budget, Accounted, AboveCheckpoint, OnItsWay,
      Readable, NoFile, Torn, Forgotten

(* The target of a heal lies between the checkpoint and the tip. *)
LEMMA TargetBounds ==
  ASSUME HealInv
  PROVE  diffheal_target \in Nat /\ diffheal_target >= Checkpoint
<1>1. HealDepth \in Int
  BY DiffHealAssumption, SMT DEF HealDepth, HealInv, HealTypes
<1> QED
  BY <1>1, DiffHealAssumption, SMT DEF diffheal_target, HealInv, HealTypes

(* A step that leaves the count of refills alone leaves what they forgot. *)
LEMMA ForgottenSame ==
  ASSUME UNCHANGED splits
  PROVE  Forgotten' = Forgotten
  BY DEF Forgotten

LEMMA ForgottenMore ==
  ASSUME splits \in Nat, splits' = splits + 1
  PROVE  Forgotten' = Forgotten + LifetimeMax
  BY DiffHealAssumption DEF Forgotten

LEMMA NextHealInv == HealInv /\ [Next]_vars => HealInv'
<1> SUFFICES ASSUME HealInv, [Next]_vars PROVE HealInv'
  OBVIOUS
<1> USE DiffHealAssumption
        DEF HealInv, HealTypes, TriggerPlace, Budget, Accounted, AboveCheckpoint, OnItsWay,
            Readable, NoFile, Torn, files, hist
<1>1. CASE SkipCycle
  BY <1>1, ForgottenSame DEF SkipCycle, Cycling
<1>2. ASSUME NEW samples \in Samples, Calm(samples)
      PROVE  HealInv'
  <2>1. \/ count' = 0 /\ heals' = 0 /\ splits' = 0
        \/ count' = 0 /\ splits' = splits + 1 /\ UNCHANGED heals
        \/ count' = 0 /\ UNCHANGED <<heals, splits>> /\ count = 0
        \/ UNCHANGED <<count, heals, splits>>
    BY <1>2, Zenon DEF Calm, diffheal_note_clean, Refilled
  <2>2. confirm' = 0 /\ UNCHANGED <<tip, bad, trigger, proc, target, arms, cuts, crashes>>
    BY <1>2, Zenon DEF Calm
  <2>3. proc = "run"
    BY <1>2, Zenon DEF Calm, Cycling
  <2>4. CASE count' = 0 /\ heals' = 0 /\ splits' = 0
    <3>1. Forgotten' = 0
      BY <2>4 DEF Forgotten
    <3> QED
      BY <2>2, <2>3, <2>4, <3>1
  <2>5. CASE count' = 0 /\ splits' = splits + 1 /\ UNCHANGED heals
    <3>1. Forgotten' = Forgotten + LifetimeMax
      BY <2>5, ForgottenMore
    <3> QED
      BY <2>2, <2>3, <2>5, <3>1
  <2>6. CASE UNCHANGED splits /\ UNCHANGED <<count, heals>>
    BY <2>2, <2>3, <2>6, ForgottenSame
  <2> QED
    BY <2>1, <2>4, <2>5, <2>6
<1>3. ASSUME NEW samples \in Samples, Advise(samples)
      PROVE  HealInv'
  BY <1>3, ForgottenSame DEF Advise, Confirmed, Cycling
<1>4. ASSUME NEW samples \in Samples, Arm(samples)
      PROVE  HealInv'
  <2>1. diffheal_target \in Nat /\ diffheal_target >= Checkpoint
    BY TargetBounds
  <2> QED
    BY <1>4, <2>1, ForgottenSame DEF Arm, Confirmed, Cycling, diffheal_guards_ok
<1>18. ASSUME NEW samples \in Samples, ArmFails(samples)
       PROVE  HealInv'
  BY <1>18, ForgottenSame DEF ArmFails, Confirmed, Cycling
<1>5. ASSUME NEW samples \in Samples, NEW steady \in BOOLEAN, Suspect(samples, steady)
      PROVE  HealInv'
  BY <1>5, ForgottenSame DEF Suspect, Cycling, Counted
<1>6. CASE CountLost
  BY <1>6, ForgottenSame DEF CountLost
<1>7. CASE Count
  BY <1>7, ForgottenSame DEF Count
<1>8. CASE Stop
  BY <1>8, ForgottenSame DEF Stop
<1>9. CASE Start
  BY <1>9, ForgottenSame DEF Start, FromScratch
<1>19. CASE RestartOnFailure
  BY <1>19, ForgottenSame DEF RestartOnFailure, FromScratch
<1>10. CASE TakeTrigger
  BY <1>10, ForgottenSame DEF TakeTrigger
<1>11. CASE rollback
  BY <1>11, ForgottenSame DEF rollback
<1>12. CASE Booted
  BY <1>12, ForgottenSame DEF Booted
<1>13. CASE Crash
  BY <1>13, ForgottenSame DEF Crash
<1>14. CASE Digest
  BY <1>14, ForgottenSame DEF Digest
<1>15. CASE Corrupt
  BY <1>15, ForgottenSame DEF Corrupt
<1>16. CASE Cool
  BY <1>16, ForgottenSame DEF Cool
<1>17. CASE UNCHANGED vars
  BY <1>17, ForgottenSame DEF vars
<1> QED
  BY <1>1, <1>2, <1>3, <1>4, <1>5, <1>6, <1>7, <1>8, <1>9, <1>10, <1>11, <1>12, <1>13, <1>14,
     <1>15, <1>16, <1>17, <1>18, <1>19 DEF Next, Cycle, Process

(* The accounts of the self-heal balance in every state. *)
THEOREM HealInvariant == Spec => []HealInv
<1> QED
  BY InitHealInv, NextHealInv, PTL DEF Spec

(* No restart loop: until a confirmed-clean reading the node heals at most *)
(* DIFF_HEAL_LIFETIME_MAX times for each budget it is given, the first one *)
(* and one for every reading of peers that disagree, plus one per crash or *)
(* lost sidecar.                                                           *)
THEOREM HealsAlwaysBounded == Spec => []HealsBounded
<1>1. HealInv => HealsBounded
  <2> SUFFICES ASSUME HealInv PROVE HealsBounded
    OBVIOUS
  <2>1. LifetimeMax * (splits + 1) = Forgotten + LifetimeMax
    BY DiffHealAssumption DEF HealInv, HealTypes, Forgotten
  <2> QED
    BY <2>1, DiffHealAssumption DEF HealInv, HealTypes, Budget, HealsBounded
<1> QED
  BY <1>1, HealInvariant, PTL

(* The rollback_to trigger fires exactly once: never twice, lost only with *)
(* a crash, and never below the checkpoint.                                *)
THEOREM AlwaysAppliedOnce == Spec => []AppliedOnce
<1>1. HealInv => AppliedOnce
  BY DiffHealAssumption
  DEF HealInv, HealTypes, TriggerPlace, Accounted, AboveCheckpoint, OnItsWay, Readable, AppliedOnce
<1> QED
  BY <1>1, HealInvariant, PTL

(* A minority never makes the node act: whatever the peers report, in      *)
(* every reading that detect_difficulty_divergence calls diverged at most  *)
(* a quarter of the samples are near the node's own difficulty.            *)
THEOREM AlwaysMajorityAgainst == Spec => []MajorityAgainst
<1>1. Init => MajorityAgainst
  BY DEF Init, MajorityAgainst
<1>2. MajorityAgainst /\ [Next]_vars => MajorityAgainst'
  <2> SUFFICES ASSUME MajorityAgainst, [Next]_vars PROVE MajorityAgainst'
    OBVIOUS
  <2>1. UNCHANGED last \/ \E samples \in Samples : last' = Reading(samples)
    BY Zenon DEF Next, Cycle, Process, SkipCycle, Calm, Advise, Arm, ArmFails, Suspect, Confirmed,
       Count, CountLost, Stop, Start, RestartOnFailure, FromScratch, TakeTrigger, rollback,
       Booted, Crash, Digest, Corrupt, Cool, vars
  <2>2. ASSUME NEW samples \in Samples, last' = Reading(samples)
        PROVE  MajorityAgainst'
    <3>1. Reading(samples).diverged = Diverged(samples, Local)
      BY DEF Reading
    <3>2. last'.diverged => Diverged(samples, Local)
      BY <2>2, <3>1
    <3> QED
      BY <2>2, <3>2, ReadingSound DEF MajorityAgainst
  <2> QED
    BY <2>1, <2>2 DEF MajorityAgainst
<1> QED
  BY <1>1, <1>2, PTL DEF Spec

-----------------------------------------------------------------------------
(* The token and alias index.                                              *)

(* Induction up to n, for a set of numbers. *)
LEMMA UpTo ==
  ASSUME NEW n \in Nat, NEW T, 0 \in T, \A i \in 0..(n - 1) : i \in T => i + 1 \in T
  PROVE  \A i \in 0..n : i \in T
<1> DEFINE U == {i \in 0..n : i \notin T}
<1>1. CASE U = {}
  BY <1>1
<1>2. CASE U # {}
  <2>1. PICK i \in U : \A j \in U : i <= j
    <3>1. U \in SUBSET Nat
      OBVIOUS
    <3> HIDE DEF U
    <3> QED
      BY <1>2, <3>1, LeastNatural
  <2>2. i \in 0..n /\ i \notin T /\ i # 0
    BY <2>1
  <2>3. i - 1 \in 0..(n - 1) /\ (i - 1) + 1 = i
    BY <2>2
  <2>4. i - 1 \notin U
    BY <2>1, <2>3
  <2>5. i - 1 \in T
    BY <2>3, <2>4
  <2> QED
    BY <2>2, <2>3, <2>5
<1> QED
  BY <1>1, <1>2

(* A recursion over 0..n whose step is a function has a solution. *)
StepFunctions(n, S) == [(1..n) \X S -> S]
Solutions(n, S, base, G) ==
    {f \in [0..n -> S] : f[0] = base /\ \A i \in 1..n : f[i] = G[<<i, f[i - 1]>>]}

LEMMA Recursion ==
  ASSUME NEW n \in Nat, NEW S, NEW base \in S, NEW G \in StepFunctions(n, S)
  PROVE  Solutions(n, S, base, G) # {}
<1> USE DEF StepFunctions
<1> DEFINE Sol(m) == \E f \in [0..m -> S] :
                        f[0] = base /\ \A i \in 1..m : f[i] = G[<<i, f[i - 1]>>]
           T == {m \in 0..n : Sol(m)}
<1>1. 0 \in T
  <2> DEFINE f == [i \in 0..0 |-> base]
  <2>1. f \in [0..0 -> S] /\ f[0] = base /\ \A i \in 1..0 : f[i] = G[<<i, f[i - 1]>>]
    OBVIOUS
  <2> HIDE DEF f
  <2>2. Sol(0)
    BY <2>1
  <2> QED
    BY <2>2
<1>2. ASSUME NEW m \in 0..(n - 1), m \in T PROVE m + 1 \in T
  <2>1. PICK f \in [0..m -> S] : f[0] = base /\ \A i \in 1..m : f[i] = G[<<i, f[i - 1]>>]
    BY <1>2
  <2> DEFINE g == [i \in 0..(m + 1) |-> IF i <= m THEN f[i] ELSE G[<<i, f[i - 1]>>]]
  <2>2. \A i \in 0..(m + 1) : i <= m \/ i = m + 1
    OBVIOUS
  <2>3. m + 1 \in 1..n /\ (m + 1) - 1 = m /\ f[m] \in S
    OBVIOUS
  <2>4. g \in [0..(m + 1) -> S]
    BY <2>2, <2>3
  <2>5. g[0] = base /\ \A i \in 1..(m + 1) : g[i] = G[<<i, g[i - 1]>>]
    BY <2>1, <2>2, <2>3
  <2> HIDE DEF g
  <2>6. Sol(m + 1)
    BY <2>4, <2>5
  <2> QED
    BY <2>6
<1>3. n \in T
  <2> HIDE DEF T
  <2> QED
    BY <1>1, <1>2, UpTo
<1> QED
  BY <1>3 DEF Solutions

(* The recursion of Restricted. *)
LEMMA RestrictedRec ==
  ASSUME NEW E, NEW ops \in Seq(E), NEW keep
  PROVE  \E p \in [0..Len(ops) -> Seq(E)] :
           /\ p[0] = <<>>
           /\ \A i \in 1..Len(ops) : p[i] = IF ops[i] \in keep THEN Append(p[i - 1], ops[i]) ELSE p[i - 1]
           /\ Restricted(ops, keep) = p[Len(ops)]
<1> DEFINE n == Len(ops)
           G == [z \in (1..n) \X Seq(E) |-> IF ops[z[1]] \in keep THEN Append(z[2], ops[z[1]]) ELSE z[2]]
           Step(p) == [i \in 0..n |-> IF i = 0 THEN <<>>
                         ELSE IF ops[i] \in keep THEN Append(p[i - 1], ops[i]) ELSE p[i - 1]]
           pick == CHOOSE p : p = Step(p)
<1>1. n \in Nat /\ \A i \in 1..n : ops[i] \in E
  OBVIOUS
<1>2. \E p : p = Step(p)
  <2>1. G \in [(1..n) \X Seq(E) -> Seq(E)]
    <3> SUFFICES ASSUME NEW z \in (1..n) \X Seq(E)
                 PROVE  (IF ops[z[1]] \in keep THEN Append(z[2], ops[z[1]]) ELSE z[2]) \in Seq(E)
      OBVIOUS
    <3>1. ops[z[1]] \in E /\ z[2] \in Seq(E)
      BY <1>1
    <3> QED
      BY <3>1
  <2>2. PICK f \in [0..n -> Seq(E)] : f[0] = <<>> /\ \A i \in 1..n : f[i] = G[<<i, f[i - 1]>>]
    <3>1. <<>> \in Seq(E) /\ n \in Nat /\ G \in StepFunctions(n, Seq(E))
      BY <1>1, <2>1 DEF StepFunctions
    <3> HIDE DEF G, n
    <3>2. Solutions(n, Seq(E), <<>>, G) # {}
      BY <3>1, Recursion
    <3> QED
      BY <3>2 DEF Solutions
  <2>3. ASSUME NEW i \in 0..n PROVE f[i] = Step(f)[i]
    <3>1. CASE i = 0
      BY <2>2, <3>1
    <3>2. CASE i # 0
      <4>1. i \in 1..n /\ f[i - 1] \in Seq(E) /\ <<i, f[i - 1]>> \in (1..n) \X Seq(E)
        BY <3>2, <1>1
      <4>2. f[i] = G[<<i, f[i - 1]>>]
        BY <2>2, <4>1
      <4> HIDE DEF n
      <4> QED
        BY <4>1, <4>2, <3>2
    <3> QED
      BY <3>1, <3>2
  <2>4. f = Step(f)
    BY <2>3, Zenon
  <2> QED
    BY <2>4
<1>3. pick = Step(pick)
  <2> HIDE DEF Step
  <2> QED
    BY <1>2
<1>4. ASSUME NEW i \in 0..n
      PROVE  pick[i] = IF i = 0 THEN <<>> ELSE IF ops[i] \in keep THEN Append(pick[i - 1], ops[i]) ELSE pick[i - 1]
  <2>1. pick[i] = Step(pick)[i]
    BY <1>3
  <2> HIDE DEF pick
  <2> QED
    BY <2>1
<1> HIDE DEF pick
<1> DEFINE T == {i \in 0..n : pick[i] \in Seq(E)}
<1>5. 0 \in T
  <2>1. 0 \in 0..n /\ <<>> \in Seq(E)
    BY <1>1
  <2>2. pick[0] = <<>>
    BY <1>4, <2>1
  <2> QED
    BY <2>1, <2>2
<1>6. ASSUME NEW i \in 0..(n - 1), i \in T PROVE i + 1 \in T
  <2>1. i + 1 \in 0..n /\ i + 1 # 0 /\ (i + 1) - 1 = i /\ pick[i] \in Seq(E) /\ ops[i + 1] \in E
    BY <1>1, <1>6
  <2>2. pick[i + 1] = IF ops[i + 1] \in keep THEN Append(pick[i], ops[i + 1]) ELSE pick[i]
    BY <1>4, <2>1
  <2>3. pick[i + 1] \in Seq(E)
    BY <2>1, <2>2
  <2> QED
    BY <2>1, <2>3
<1>7. \A i \in 0..n : i \in T
  <2>1. n \in Nat /\ \A i \in 0..(n - 1) : i \in T => i + 1 \in T
    BY <1>1, <1>6
  <2> HIDE DEF T, n
  <2> QED
    BY <1>5, <2>1, UpTo
<1>8. Restricted(ops, keep) = pick[n]
  BY DEF Restricted, pick
<1> DEFINE p == [i \in 0..n |-> pick[i]]
<1>9. p \in [0..n -> Seq(E)]
  BY <1>7
<1>10. p[0] = <<>> /\ Restricted(ops, keep) = p[n]
  BY <1>1, <1>4, <1>8
<1>11. ASSUME NEW i \in 1..n
       PROVE  p[i] = IF ops[i] \in keep THEN Append(p[i - 1], ops[i]) ELSE p[i - 1]
  <2>1. i \in 0..n /\ i - 1 \in 0..n /\ i # 0
    BY <1>1
  <2>2. pick[i] = IF ops[i] \in keep THEN Append(pick[i - 1], ops[i]) ELSE pick[i - 1]
    BY <1>4, <2>1
  <2>3. p[i] = pick[i] /\ p[i - 1] = pick[i - 1]
    BY <2>1
  <2> HIDE DEF p
  <2> QED
    BY <2>2, <2>3
<1> HIDE DEF p
<1> QED
  BY <1>9, <1>10, <1>11

(* Restricted returns the entries of its argument that are in keep, in     *)
(* their order.                                                            *)
Ordered(s) == \A i, j \in DOMAIN s : i <= j => s[i].h <= s[j].h

LEMMA RestrictedType ==
  ASSUME NEW E, NEW ops \in Seq(E), NEW keep
  PROVE  Restricted(ops, keep) \in Seq(E)
<1>1. Len(ops) \in 0..Len(ops)
  OBVIOUS
<1>2. PICK p \in [0..Len(ops) -> Seq(E)] : Restricted(ops, keep) = p[Len(ops)]
  BY RestrictedRec
<1> QED
  BY <1>1, <1>2

LEMMA RestrictedIs ==
  ASSUME NEW E, NEW ops \in Seq(E), NEW keep, NEW z, z = Restricted(ops, keep)
  PROVE  /\ \A k \in DOMAIN z : z[k] \in keep /\ \E j \in DOMAIN ops : z[k] = ops[j]
         /\ \A j \in DOMAIN ops : ops[j] \in keep => \E k \in DOMAIN z : z[k] = ops[j]
         /\ Ordered(ops) => Ordered(z)
<1> DEFINE n == Len(ops)
<1>1. PICK p \in [0..n -> Seq(E)] :
           /\ p[0] = <<>>
           /\ \A i \in 1..n : p[i] = IF ops[i] \in keep THEN Append(p[i - 1], ops[i]) ELSE p[i - 1]
           /\ z = p[n]
  BY RestrictedRec
<1>2. n \in Nat /\ DOMAIN ops = 1..n
  OBVIOUS
<1> DEFINE From(i) == \A k \in 1..Len(p[i]) : p[i][k] \in keep /\ \E j \in 1..i : p[i][k] = ops[j]
           All(i) == \A j \in 1..i : ops[j] \in keep => \E k \in 1..Len(p[i]) : p[i][k] = ops[j]
           Sorted(i) == Ordered(ops) => \A k, l \in 1..Len(p[i]) : k <= l => p[i][k].h <= p[i][l].h
           T == {i \in 0..n : From(i) /\ All(i) /\ Sorted(i)}
<1>3. 0 \in T
  BY <1>1, <1>2
<1>4. ASSUME NEW i \in 0..(n - 1), i \in T PROVE i + 1 \in T
  <2>1. i \in 0..n /\ i + 1 \in 1..n /\ i + 1 \in 0..n /\ (i + 1) - 1 = i
    BY <1>2
  <2>2. From(i) /\ All(i) /\ Sorted(i)
    BY <1>4
  <2> DEFINE s == p[i]
             u == p[i + 1]
             e == ops[i + 1]
  <2>3. s \in Seq(E) /\ Len(s) \in Nat
    BY <2>1
  <2>4. u = IF e \in keep THEN Append(s, e) ELSE s
    BY <1>1, <2>1
  <2>5. CASE e \notin keep
    <3>1. u = s
      BY <2>4, <2>5
    <3>2. From(i + 1)
      BY <2>1, <2>2, <3>1
    <3>3. All(i + 1)
      <4> SUFFICES ASSUME NEW j \in 1..(i + 1), ops[j] \in keep
                   PROVE  \E k \in 1..Len(u) : u[k] = ops[j]
        OBVIOUS
      <4>1. j # i + 1
        BY <2>5
      <4>2. j \in 1..i
        BY <2>1, <4>1
      <4> QED
        BY <2>2, <3>1, <4>2
    <3>4. Sorted(i + 1)
      BY <2>2, <3>1
    <3> QED
      BY <2>1, <3>2, <3>3, <3>4
  <2>6. CASE e \in keep
    <3>1. u = Append(s, e)
      BY <2>4, <2>6
    <3>2. /\ Len(u) = Len(s) + 1 /\ u[Len(s) + 1] = e
          /\ \A k \in 1..Len(s) : u[k] = s[k]
      BY <2>3, <3>1
    <3> HIDE DEF s, u, e
    <3>3. \A k \in 1..Len(u) : k \in 1..Len(s) \/ k = Len(s) + 1
      BY <2>3, <3>2
    <3>4. ASSUME NEW k \in 1..Len(u) PROVE u[k] \in keep /\ \E j \in 1..(i + 1) : u[k] = ops[j]
      <4>1. CASE k = Len(s) + 1
        <5>1. u[k] = ops[i + 1] /\ ops[i + 1] \in keep
          BY <2>6, <3>2, <4>1 DEF e
        <5>2. i + 1 \in 1..(i + 1)
          BY <2>1
        <5> QED
          BY <5>1, <5>2
      <4>2. CASE k \in 1..Len(s)
        <5>1. s[k] \in keep /\ \E j \in 1..i : s[k] = ops[j]
          BY <2>2, <4>2 DEF s
        <5>2. PICK j \in 1..i : s[k] = ops[j]
          BY <5>1
        <5>3. j \in 1..(i + 1)
          BY <2>1
        <5> QED
          BY <3>2, <4>2, <5>1, <5>2, <5>3
      <4> QED
        BY <3>3, <4>1, <4>2
    <3>5. ASSUME NEW j \in 1..(i + 1), ops[j] \in keep PROVE \E k \in 1..Len(u) : u[k] = ops[j]
      <4>1. CASE j = i + 1
        <5>1. Len(s) + 1 \in 1..Len(u)
          BY <2>3, <3>2
        <5> QED
          BY <3>2, <4>1, <5>1 DEF e
      <4>2. CASE j # i + 1
        <5>1. j \in 1..i
          BY <2>1, <4>2
        <5>2. PICK k \in 1..Len(s) : s[k] = ops[j]
          BY <2>2, <3>5, <5>1 DEF s
        <5>3. k \in 1..Len(u)
          BY <2>3, <3>2
        <5> QED
          BY <3>2, <5>2, <5>3
      <4> QED
        BY <4>1, <4>2
    <3>6. ASSUME Ordered(ops), NEW k \in 1..Len(u), NEW l \in 1..Len(u), k <= l
          PROVE  u[k].h <= u[l].h
      <4>1. CASE l \in 1..Len(s)
        <5>1. k \in 1..Len(s)
          BY <2>3, <3>6, <4>1
        <5> QED
          BY <2>2, <3>2, <3>6, <4>1, <5>1 DEF s
      <4>2. CASE l = Len(s) + 1
        <5>1. PICK j \in 1..(i + 1) : u[k] = ops[j]
          BY <3>4
        <5>2. j \in 1..n /\ j <= i + 1
          BY <2>1
        <5>3. ops[j].h <= ops[i + 1].h
          BY <1>2, <2>1, <3>6, <5>2 DEF Ordered
        <5> QED
          BY <3>2, <4>2, <5>1, <5>3 DEF e
      <4> QED
        BY <3>3, <4>1, <4>2
    <3>7. From(i + 1) /\ All(i + 1) /\ Sorted(i + 1)
      BY <3>4, <3>5, <3>6 DEF u
    <3> HIDE DEF From, All, Sorted
    <3> QED
      BY <2>1, <3>7
  <2> QED
    BY <2>5, <2>6
<1>5. n \in T
  <2>1. n \in Nat /\ n \in 0..n
    BY <1>2
  <2> HIDE DEF T, n
  <2>2. \A i \in 0..(n - 1) : i \in T => i + 1 \in T
    BY <1>4
  <2> QED
    BY <1>3, <2>1, <2>2, UpTo
<1>6. DOMAIN z = 1..Len(p[n]) /\ z = p[n]
  <2>1. p[n] \in Seq(E)
    BY <1>2
  <2> QED
    BY <1>1, <2>1
<1>7. From(n) /\ All(n) /\ Sorted(n)
  BY <1>5
<1>8. \A k \in DOMAIN z : z[k] \in keep /\ \E j \in DOMAIN ops : z[k] = ops[j]
  BY <1>2, <1>6, <1>7
<1>9. \A j \in DOMAIN ops : ops[j] \in keep => \E k \in DOMAIN z : z[k] = ops[j]
  BY <1>2, <1>6, <1>7
<1>10. Ordered(ops) => Ordered(z)
  <2> SUFFICES ASSUME Ordered(ops), NEW k \in DOMAIN z, NEW l \in DOMAIN z, k <= l
               PROVE  z[k].h <= z[l].h
    BY DEF Ordered
  <2> QED
    BY <1>6, <1>7
<1> QED
  BY <1>8, <1>9, <1>10

(* The recursion of FlattenSeq. *)
LEMMA FlattenRec ==
  ASSUME NEW E, NEW seqs \in Seq(Seq(E))
  PROVE  \E p \in [0..Len(seqs) -> Seq(E)] :
           /\ p[0] = <<>>
           /\ \A i \in 1..Len(seqs) : p[i] = p[i - 1] \o seqs[i]
           /\ FlattenSeq(seqs) = p[Len(seqs)]
<1> DEFINE n == Len(seqs)
           Step(p) == [i \in 1..n |-> IF i = 1 THEN seqs[i] ELSE p[i - 1] \o seqs[i]]
           flat == CHOOSE p : p = Step(p)
<1>1. n \in Nat /\ \A i \in 1..n : seqs[i] \in Seq(E)
  OBVIOUS
<1>2. CASE n = 0
  <2> DEFINE p == [i \in 0..n |-> <<>>]
  <2>1. FlattenSeq(seqs) = seqs /\ seqs = <<>>
    BY <1>2 DEF FlattenSeq
  <2>2. <<>> \in Seq(E)
    OBVIOUS
  <2>3. p \in [0..n -> Seq(E)]
    BY <2>2
  <2>4. p[0] = <<>> /\ p[n] = <<>> /\ \A i \in 1..n : p[i] = p[i - 1] \o seqs[i]
    BY <1>1, <1>2
  <2> HIDE DEF p
  <2> QED
    BY <2>1, <2>3, <2>4
<1>3. CASE n # 0
  <2> DEFINE G == [z \in (1..n) \X Seq(E) |-> IF z[1] = 1 THEN seqs[1] ELSE z[2] \o seqs[z[1]]]
  <2>1. G \in [(1..n) \X Seq(E) -> Seq(E)]
    <3> SUFFICES ASSUME NEW z \in (1..n) \X Seq(E)
                 PROVE  (IF z[1] = 1 THEN seqs[1] ELSE z[2] \o seqs[z[1]]) \in Seq(E)
      OBVIOUS
    <3>1. seqs[1] \in Seq(E) /\ seqs[z[1]] \in Seq(E) /\ z[2] \in Seq(E)
      BY <1>1, <1>3
    <3> QED
      BY <3>1
  <2>2. PICK g \in [0..n -> Seq(E)] : g[0] = <<>> /\ \A i \in 1..n : g[i] = G[<<i, g[i - 1]>>]
    <3>1. <<>> \in Seq(E) /\ n \in Nat /\ G \in StepFunctions(n, Seq(E))
      BY <1>1, <2>1 DEF StepFunctions
    <3> HIDE DEF G, n
    <3>2. Solutions(n, Seq(E), <<>>, G) # {}
      BY <3>1, Recursion
    <3> QED
      BY <3>2 DEF Solutions
  <2> DEFINE f == [i \in 1..n |-> g[i]]
  <2>3. ASSUME NEW i \in 1..n PROVE f[i] = Step(f)[i]
    <3>0. i - 1 \in 0..n
      BY <1>1
    <3>1. g[i - 1] \in Seq(E) /\ <<i, g[i - 1]>> \in (1..n) \X Seq(E)
      BY <2>2, <3>0
    <3>2. g[i] = IF i = 1 THEN seqs[i] ELSE g[i - 1] \o seqs[i]
      <4> HIDE DEF n
      <4> QED
        BY <2>2, <3>1
    <3>3. i # 1 => i - 1 \in 1..n
      BY <1>1
    <3> HIDE DEF n
    <3> QED
      BY <3>2, <3>3
  <2>4. f = Step(f)
    <3> HIDE DEF n
    <3> QED
      BY <2>3, Zenon
  <2>5. flat = Step(flat)
    <3> HIDE DEF Step, f
    <3> QED
      BY <2>4
  <2>6. ASSUME NEW i \in 1..n PROVE flat[i] = IF i = 1 THEN seqs[i] ELSE flat[i - 1] \o seqs[i]
    <3>1. flat[i] = Step(flat)[i]
      BY <2>5
    <3> HIDE DEF flat
    <3> QED
      BY <3>1
  <2> HIDE DEF flat
  <2> DEFINE T == {i \in 0..n : i # 0 => flat[i] \in Seq(E)}
  <2>7. 0 \in T
    BY <1>1
  <2>8. ASSUME NEW i \in 0..(n - 1), i \in T PROVE i + 1 \in T
    <3>1. i + 1 \in 1..n /\ (i + 1) - 1 = i /\ seqs[i + 1] \in Seq(E)
      BY <1>1
    <3>2. flat[i + 1] = IF i + 1 = 1 THEN seqs[i + 1] ELSE flat[i] \o seqs[i + 1]
      BY <2>6, <3>1
    <3>3. i + 1 # 1 => flat[i] \in Seq(E)
      BY <2>8
    <3>4. flat[i + 1] \in Seq(E)
      BY <3>1, <3>2, <3>3
    <3> QED
      BY <3>1, <3>4
  <2>9. \A i \in 0..n : i \in T
    <3>1. n \in Nat /\ \A i \in 0..(n - 1) : i \in T => i + 1 \in T
      BY <1>1, <2>8
    <3> HIDE DEF T, n
    <3> QED
      BY <2>7, <3>1, UpTo
  <2>10. FlattenSeq(seqs) = flat[n]
    BY <1>3 DEF FlattenSeq, flat
  <2> DEFINE p == [i \in 0..n |-> IF i = 0 THEN <<>> ELSE flat[i]]
  <2>11. p \in [0..n -> Seq(E)]
    <3>1. <<>> \in Seq(E) /\ \A i \in 0..n : i # 0 => flat[i] \in Seq(E)
      BY <2>9
    <3> QED
      BY <3>1
  <2>12. p[0] = <<>> /\ FlattenSeq(seqs) = p[n]
    BY <1>1, <1>3, <2>10
  <2>13. ASSUME NEW i \in 1..n PROVE p[i] = p[i - 1] \o seqs[i]
    <3>1. i \in 0..n /\ i - 1 \in 0..n /\ i # 0
      BY <1>1
    <3>2. p[i] = flat[i] /\ flat[i] = IF i = 1 THEN seqs[i] ELSE flat[i - 1] \o seqs[i]
      BY <2>6, <3>1
    <3>3. CASE i = 1
      <4>1. p[i - 1] = <<>> /\ seqs[i] \in Seq(E)
        BY <1>1, <3>1, <3>3
      <4>2. <<>> \o seqs[i] = seqs[i]
        BY <4>1
      <4> QED
        BY <3>2, <3>3, <4>1, <4>2, Zenon
    <3>4. CASE i # 1
      <4>1. p[i - 1] = flat[i - 1]
        BY <3>1, <3>4
      <4> QED
        BY <3>2, <3>4, <4>1, Zenon
    <3> QED
      BY <3>3, <3>4
  <2> HIDE DEF p
  <2> QED
    BY <2>11, <2>12, <2>13
<1> QED
  BY <1>2, <1>3

(* Flattening sequences of entries gives a sequence of entries. *)
LEMMA FlattenType ==
  ASSUME NEW E, NEW seqs \in Seq(Seq(E))
  PROVE  FlattenSeq(seqs) \in Seq(E)
<1>1. Len(seqs) \in 0..Len(seqs)
  OBVIOUS
<1>2. PICK p \in [0..Len(seqs) -> Seq(E)] : FlattenSeq(seqs) = p[Len(seqs)]
  BY FlattenRec
<1> QED
  BY <1>1, <1>2

(* The entries of the flattened sequence are those of its parts, and they  *)
(* are in order when part i holds height i.                                *)
ByHeight(seqs) == \A i \in DOMAIN seqs : \A j \in DOMAIN seqs[i] : seqs[i][j].h = i
Parts(seqs) == UNION {Range(seqs[i]) : i \in DOMAIN seqs}

LEMMA FlattenIs ==
  ASSUME NEW E, NEW seqs \in Seq(Seq(E)), ByHeight(seqs)
  PROVE  Range(FlattenSeq(seqs)) = Parts(seqs) /\ Ordered(FlattenSeq(seqs))
<1> DEFINE n == Len(seqs)
           z == FlattenSeq(seqs)
<1>0. \A i \in DOMAIN seqs : \A j \in DOMAIN seqs[i] : seqs[i][j].h = i
  BY DEF ByHeight
<1>1. PICK p \in [0..n -> Seq(E)] :
           /\ p[0] = <<>>
           /\ \A i \in 1..n : p[i] = p[i - 1] \o seqs[i]
           /\ z = p[n]
  BY FlattenRec
<1> HIDE DEF z
<1>2. n \in Nat /\ DOMAIN seqs = 1..n /\ \A i \in 1..n : seqs[i] \in Seq(E)
  OBVIOUS
<1> DEFINE From(i) == \A k \in DOMAIN p[i] : \E l \in 1..i : \E j \in DOMAIN seqs[l] : p[i][k] = seqs[l][j]
           All(i) == \A l \in 1..i : \A j \in DOMAIN seqs[l] : \E k \in DOMAIN p[i] : p[i][k] = seqs[l][j]
           Sorted(i) == Ordered(p[i])
           T == {i \in 0..n : From(i) /\ All(i) /\ Sorted(i)}
<1>3. 0 \in T
  BY <1>1, <1>2 DEF Ordered
<1>4. ASSUME NEW i \in 0..(n - 1), i \in T PROVE i + 1 \in T
  <2>1. i \in 0..n /\ i + 1 \in 1..n /\ i + 1 \in 0..n /\ (i + 1) - 1 = i /\ 1..i \subseteq 1..n
    BY <1>2
  <2>2. From(i) /\ All(i) /\ Sorted(i)
    BY <1>4
  <2> DEFINE s == p[i]
             u == p[i + 1]
             c == seqs[i + 1]
  <2>3. s \in Seq(E) /\ Len(s) \in Nat /\ c \in Seq(E) /\ Len(c) \in Nat
    <3>1. p[i] \in Seq(E)
      BY <2>1
    <3>2. seqs[i + 1] \in Seq(E)
      BY <1>2, <2>1
    <3> QED
      BY <3>1, <3>2
  <2>4. u = s \o c
    BY <1>1, <2>1
  <2>5. \A k \in DOMAIN c : c[k].h = i + 1
    BY <1>0, <1>2, <2>1
  <2>6. \A k \in DOMAIN s : \E l \in 1..i : s[k].h = l
    <3> SUFFICES ASSUME NEW k \in DOMAIN s PROVE \E l \in 1..i : s[k].h = l
      OBVIOUS
    <3>1. PICK l \in 1..i : \E j \in DOMAIN seqs[l] : s[k] = seqs[l][j]
      BY <2>2
    <3>2. \A j \in DOMAIN seqs[l] : seqs[l][j].h = l
      BY <1>0, <1>2, <2>1
    <3> QED
      BY <3>1, <3>2
  <2>a. From(i) /\ All(i) /\ Ordered(s)
    BY <2>2
  <2> HIDE DEF s, u, c
  <2>7. /\ Len(u) = Len(s) + Len(c) /\ DOMAIN u = 1..Len(u) /\ DOMAIN s = 1..Len(s) /\ DOMAIN c = 1..Len(c)
        /\ \A k \in 1..Len(s) : u[k] = s[k]
        /\ \A k \in 1..Len(c) : u[Len(s) + k] = c[k]
    BY <2>3, <2>4
  <2>8. \A k \in DOMAIN u : k \in DOMAIN s \/ \E j \in DOMAIN c : k = Len(s) + j
    <3> SUFFICES ASSUME NEW k \in DOMAIN u, k \notin DOMAIN s PROVE \E j \in DOMAIN c : k = Len(s) + j
      OBVIOUS
    <3>1. k - Len(s) \in DOMAIN c /\ k = Len(s) + (k - Len(s))
      BY <2>3, <2>7
    <3> QED
      BY <3>1
  <2>9. /\ \A k \in DOMAIN s : k \in DOMAIN u /\ u[k] = s[k]
        /\ \A j \in DOMAIN c : Len(s) + j \in DOMAIN u /\ u[Len(s) + j] = c[j]
    BY <2>3, <2>7
  <2>10. From(i + 1)
    <3> SUFFICES ASSUME NEW k \in DOMAIN u
                 PROVE  \E l \in 1..(i + 1) : \E j \in DOMAIN seqs[l] : u[k] = seqs[l][j]
      BY DEF u
    <3>1. CASE k \in DOMAIN s
      <4>1. PICK l \in 1..i : \E j \in DOMAIN seqs[l] : s[k] = seqs[l][j]
        BY <2>a, <3>1 DEF s
      <4>2. l \in 1..(i + 1)
        BY <2>1
      <4> QED
        BY <2>9, <3>1, <4>1, <4>2
    <3>2. CASE k \notin DOMAIN s
      <4>1. PICK j \in DOMAIN c : k = Len(s) + j
        BY <2>8, <3>2
      <4>2. u[k] = seqs[i + 1][j] /\ j \in DOMAIN seqs[i + 1]
        BY <2>9, <4>1 DEF c
      <4>3. i + 1 \in 1..(i + 1)
        BY <2>1
      <4> QED
        BY <4>2, <4>3
    <3> QED
      BY <3>1, <3>2
  <2>11. All(i + 1)
    <3> SUFFICES ASSUME NEW l \in 1..(i + 1), NEW j \in DOMAIN seqs[l]
                 PROVE  \E k \in DOMAIN u : u[k] = seqs[l][j]
      BY DEF u
    <3>1. CASE l \in 1..i
      <4>1. PICK k \in DOMAIN s : s[k] = seqs[l][j]
        BY <2>a, <3>1 DEF s
      <4> QED
        BY <2>9, <4>1
    <3>2. CASE l = i + 1
      <4>1. j \in DOMAIN c /\ c[j] = seqs[l][j]
        BY <3>2 DEF c
      <4> QED
        BY <2>9, <4>1
    <3>3. l \in 1..i \/ l = i + 1
      BY <2>1
    <3> QED
      BY <3>1, <3>2, <3>3
  <2>12. Sorted(i + 1)
    <3> SUFFICES ASSUME NEW k \in DOMAIN u, NEW l \in DOMAIN u, k <= l PROVE u[k].h <= u[l].h
      BY DEF Ordered, u
    <3>1. CASE l \in DOMAIN s
      <4>1. k \in DOMAIN s
        BY <2>3, <2>7, <3>1
      <4> QED
        BY <2>9, <2>a, <3>1, <4>1 DEF Ordered
    <3>2. CASE l \notin DOMAIN s
      <4>1. u[l].h = i + 1
        BY <2>5, <2>8, <2>9, <3>2
      <4>2. u[k].h \in 1..(i + 1)
        <5>1. CASE k \in DOMAIN s
          <6>1. PICK m \in 1..i : s[k].h = m
            BY <2>6, <5>1 DEF s
          <6>2. m \in 1..(i + 1)
            BY <2>1
          <6> QED
            BY <2>9, <5>1, <6>1, <6>2
        <5>2. CASE k \notin DOMAIN s
          <6>1. u[k].h = i + 1
            BY <2>5, <2>8, <2>9, <5>2
          <6>2. i + 1 \in 1..(i + 1)
            BY <2>1
          <6> QED
            BY <6>1, <6>2
        <5> QED
          BY <5>1, <5>2
      <4> QED
        BY <2>1, <4>1, <4>2
    <3> QED
      BY <3>1, <3>2
  <2> HIDE DEF From, All, Sorted
  <2> QED
    BY <2>1, <2>10, <2>11, <2>12
<1>5. n \in T
  <2>1. n \in Nat /\ n \in 0..n
    BY <1>2
  <2> HIDE DEF T, n
  <2>2. \A i \in 0..(n - 1) : i \in T => i + 1 \in T
    BY <1>4
  <2> QED
    BY <1>3, <2>1, <2>2, UpTo
<1>6. From(n) /\ All(n) /\ Sorted(n)
  BY <1>5
<1>7. z = p[n] /\ DOMAIN seqs = 1..n
  BY <1>1, <1>2
<1> HIDE DEF n
<1>8. \A k \in DOMAIN z : \E i \in DOMAIN seqs : \E j \in DOMAIN seqs[i] : z[k] = seqs[i][j]
  <2>1. From(n)
    BY <1>6
  <2> QED
    BY <1>7, <2>1
<1>9. \A i \in DOMAIN seqs : \A j \in DOMAIN seqs[i] : \E k \in DOMAIN z : z[k] = seqs[i][j]
  <2>1. All(n)
    BY <1>6
  <2> QED
    BY <1>7, <2>1
<1>10. Ordered(z)
  BY <1>6, <1>7, Zenon
<1>11. \A e \in Range(z) : e \in Parts(seqs)
  BY <1>8 DEF Range, Parts
<1>12. \A e \in Parts(seqs) : e \in Range(z)
  BY <1>9 DEF Range, Parts
<1> QED
  BY <1>10, <1>11, <1>12 DEF z
(* A row of the journal, and what it stands for in the indexes. *)
Entry ==
    [k : {"issue", "transfer", "noop"}, h : Nat, q : Nat, tok : Name, rcp : Party,
     adr : Party, amt : Int, txid : Tx]
Row == [tok : Name, party : Party, h : Nat, q : Nat, amt : Int]
Registration == [tok : Name, h : Nat, txid : Tx, supply : Int]
Work == [h : 1..MaxBlocks, x : Tx]

Real(J) == {r \in J : r.k # "noop"}
Issues(J) == {r \in J : r.k = "issue"}
CredOf(r) == [tok |-> r.tok, party |-> r.rcp, h |-> r.h, q |-> r.q, amt |-> r.amt]
DebOf(r) == [tok |-> r.tok, party |-> r.adr, h |-> r.h, q |-> r.q, amt |-> r.amt]
RegOf(r) == [tok |-> r.tok, h |-> r.h, txid |-> r.txid, supply |-> r.amt]
Got(J, a, t) == {r \in Real(J) : r.tok = t /\ r.rcp = a}
Sent(J, a, t) == {r \in Real(J) : r.tok = t /\ r.adr = a}
Rows(J, t) == {r \in Real(J) : r.tok = t}

TokenStore ==
    [anchor : 0..MaxBlocks, seq : Nat, tokreg : SUBSET Registration, seen : SUBSET Tx,
     cred : SUBSET Row, deb : SUBSET Row, addrtok : [Party \X Name -> Nat],
     tokset : [Name -> Nat], journal : SUBSET Entry]

(* A sequence number, a txid and the issuance of a token occur once. *)
Keys(J) ==
    \A r, g \in J : \/ r.q = g.q
                    \/ r.txid = g.txid
                    \/ r.k = "issue" /\ g.k = "issue" /\ r.tok = g.tok
                    => r = g

(* Every index is the image of the journal. *)
Images(s) ==
    /\ s.seen = {r.txid : r \in s.journal}
    /\ s.cred = {CredOf(r) : r \in Real(s.journal)}
    /\ s.deb = {DebOf(r) : r \in Real(s.journal)}
    /\ s.tokreg = {RegOf(r) : r \in Issues(s.journal)}
Counts(s) ==
    /\ \A a \in Party, t \in Name :
         s.addrtok[<<a, t>>] = Cardinality(Got(s.journal, a, t)) + Cardinality(Sent(s.journal, a, t))
    /\ \A t \in Name : s.tokset[t] = Cardinality(Rows(s.journal, t))

TokensInv(s) ==
    /\ s \in TokenStore
    /\ IsFiniteSet(s.journal)
    /\ \A r \in s.journal : r.q <= s.seq
    /\ Keys(s.journal)
    /\ Images(s)
    /\ Counts(s)

Owner == [a : Party, h : Nat]
AliasEntry == [h : Nat, q : Nat, k : {"register", "transfer", "free"}, al : Name, a : Party, prev : Owner]
AliasStore ==
    [anchor : 0..MaxBlocks, seq : Nat, fwd : [Name -> Owner],
     rev : SUBSET (Party \X Nat \X Name), ajournal : SUBSET AliasEntry]
AliasesInv(s) == s \in AliasStore /\ IsFiniteSet(s.ajournal)

IndexInv ==
    /\ phase \in {"down", "backfill", "ready", "project", "tokens", "aliases"}
    /\ ledger \in Seq(Seq(Tx)) /\ Len(ledger) <= MaxBlocks
    /\ block \in Seq(Tx) /\ low \in Nat /\ work \in Seq(Work)
    /\ phase = "project" => Len(ledger) < MaxBlocks
    /\ phase \in {"tokens", "aliases"} => low \in 1..MaxBlocks
    /\ dirty \in Nat /\ pristine \in BOOLEAN
    /\ TokensInv(ti)
    /\ AliasesInv(al)

-----------------------------------------------------------------------------
(* Counting the rows of a journal.                                         *)

LEMMA CountsAreFinite ==
  ASSUME NEW J, IsFiniteSet(J), NEW a, NEW t
  PROVE  /\ IsFiniteSet(Got(J, a, t)) /\ Cardinality(Got(J, a, t)) \in Nat
         /\ IsFiniteSet(Sent(J, a, t)) /\ Cardinality(Sent(J, a, t)) \in Nat
         /\ IsFiniteSet(Rows(J, t)) /\ Cardinality(Rows(J, t)) \in Nat
<1>1. Got(J, a, t) \in SUBSET J /\ Sent(J, a, t) \in SUBSET J /\ Rows(J, t) \in SUBSET J
  BY DEF Got, Sent, Rows, Real
<1> QED
  BY <1>1, FS_Subset, FS_CardinalityType

(* A new row is counted once for its recipient and once for its sender,    *)
(* and once for its token.                                                 *)
LEMMA CountAdd ==
  ASSUME NEW J, IsFiniteSet(J), NEW e, e \notin J, e.k # "noop", NEW a, NEW t
  PROVE  /\ Cardinality(Got(J \cup {e}, a, t)) =
              IF e.tok = t /\ e.rcp = a THEN Cardinality(Got(J, a, t)) + 1 ELSE Cardinality(Got(J, a, t))
         /\ Cardinality(Sent(J \cup {e}, a, t)) =
              IF e.tok = t /\ e.adr = a THEN Cardinality(Sent(J, a, t)) + 1 ELSE Cardinality(Sent(J, a, t))
<1>1. e \notin Got(J, a, t) /\ e \notin Sent(J, a, t)
  BY DEF Got, Sent, Real
<1>2. Got(J \cup {e}, a, t) = IF e.tok = t /\ e.rcp = a THEN Got(J, a, t) \cup {e} ELSE Got(J, a, t)
  BY DEF Got, Real
<1>3. Sent(J \cup {e}, a, t) = IF e.tok = t /\ e.adr = a THEN Sent(J, a, t) \cup {e} ELSE Sent(J, a, t)
  BY DEF Sent, Real
<1>4. /\ Cardinality(Got(J, a, t) \cup {e}) = Cardinality(Got(J, a, t)) + 1
      /\ Cardinality(Sent(J, a, t) \cup {e}) = Cardinality(Sent(J, a, t)) + 1
  BY <1>1, CountsAreFinite, FS_AddElement
<1> QED
  BY <1>2, <1>3, <1>4, Zenon

LEMMA RowsAdd ==
  ASSUME NEW J, IsFiniteSet(J), NEW e, e \notin J, e.k # "noop", NEW t
  PROVE  Cardinality(Rows(J \cup {e}, t)) =
           IF e.tok = t THEN Cardinality(Rows(J, t)) + 1 ELSE Cardinality(Rows(J, t))
<1>1. e \notin Rows(J, t)
  BY DEF Rows, Real
<1>2. Rows(J \cup {e}, t) = IF e.tok = t THEN Rows(J, t) \cup {e} ELSE Rows(J, t)
  BY DEF Rows, Real
<1>3. IsFiniteSet(Rows(J, t))
  BY CountsAreFinite
<1>4. Cardinality(Rows(J, t) \cup {e}) = Cardinality(Rows(J, t)) + 1
  BY <1>1, <1>3, FS_AddElement
<1> QED
  BY <1>2, <1>4, Zenon

(* What is taken out of a journal is no longer counted. *)
LEMMA CountRemove ==
  ASSUME NEW J, IsFiniteSet(J), NEW K \in SUBSET J, NEW a, NEW t
  PROVE  /\ Cardinality(Got(J, a, t)) = Cardinality(Got(K, a, t)) + Cardinality(Got(J \ K, a, t))
         /\ Cardinality(Sent(J, a, t)) = Cardinality(Sent(K, a, t)) + Cardinality(Sent(J \ K, a, t))
         /\ Cardinality(Rows(J, t)) = Cardinality(Rows(K, t)) + Cardinality(Rows(J \ K, t))
<1>1. IsFiniteSet(K) /\ IsFiniteSet(J \ K)
  BY FS_Subset, FS_Difference
<1>2. /\ Got(J \ K, a, t) = Got(J, a, t) \ Got(K, a, t)
      /\ Got(J, a, t) \cap Got(K, a, t) = Got(K, a, t)
  BY DEF Got, Real
<1>3. /\ Sent(J \ K, a, t) = Sent(J, a, t) \ Sent(K, a, t)
      /\ Sent(J, a, t) \cap Sent(K, a, t) = Sent(K, a, t)
  BY DEF Sent, Real
<1>4. /\ Rows(J \ K, t) = Rows(J, t) \ Rows(K, t)
      /\ Rows(J, t) \cap Rows(K, t) = Rows(K, t)
  BY DEF Rows, Real
<1>5. Cardinality(Got(J \ K, a, t)) = Cardinality(Got(J, a, t)) - Cardinality(Got(K, a, t))
  <2>1. IsFiniteSet(Got(J, a, t))
    BY CountsAreFinite
  <2>2. Cardinality(Got(J, a, t) \ Got(K, a, t)) = Cardinality(Got(J, a, t)) - Cardinality(Got(J, a, t) \cap Got(K, a, t))
    BY <2>1, FS_Difference
  <2> QED
    BY <1>2, <2>2, Zenon
<1>6. Cardinality(Sent(J \ K, a, t)) = Cardinality(Sent(J, a, t)) - Cardinality(Sent(K, a, t))
  <2>1. IsFiniteSet(Sent(J, a, t))
    BY CountsAreFinite
  <2>2. Cardinality(Sent(J, a, t) \ Sent(K, a, t)) = Cardinality(Sent(J, a, t)) - Cardinality(Sent(J, a, t) \cap Sent(K, a, t))
    BY <2>1, FS_Difference
  <2> QED
    BY <1>3, <2>2, Zenon
<1>7. Cardinality(Rows(J \ K, t)) = Cardinality(Rows(J, t)) - Cardinality(Rows(K, t))
  <2>1. IsFiniteSet(Rows(J, t))
    BY CountsAreFinite
  <2>2. Cardinality(Rows(J, t) \ Rows(K, t)) = Cardinality(Rows(J, t)) - Cardinality(Rows(J, t) \cap Rows(K, t))
    BY <2>1, FS_Difference
  <2> QED
    BY <1>4, <2>2, Zenon
<1>8. /\ Cardinality(Got(J, a, t)) \in Nat /\ Cardinality(Got(K, a, t)) \in Nat
      /\ Cardinality(Sent(J, a, t)) \in Nat /\ Cardinality(Sent(K, a, t)) \in Nat
      /\ Cardinality(Rows(J, t)) \in Nat /\ Cardinality(Rows(K, t)) \in Nat
  BY <1>1, CountsAreFinite
<1> QED
  BY <1>5, <1>6, <1>7, <1>8

(* Distinct rows give distinct credits and distinct debits. *)
LEMMA CreditCount ==
  ASSUME NEW s, TokensInv(s), NEW a, NEW t
  PROVE  Cardinality({r \in s.cred : r.party = a /\ r.tok = t}) = Cardinality(Got(s.journal, a, t))
<1> DEFINE C == {r \in s.cred : r.party = a /\ r.tok = t}
           D == Got(s.journal, a, t)
           f == [r \in D |-> CredOf(r)]
<1>1. ASSUME NEW r \in D PROVE CredOf(r) \in C
  BY DEF TokensInv, Images, Got, CredOf
<1>2. f \in [D -> C]
  BY <1>1, Zenon
<1>3. ASSUME NEW c \in C PROVE \E r \in D : f[r] = c
  <2>1. PICK r \in Real(s.journal) : c = CredOf(r)
    BY DEF TokensInv, Images
  <2>2. r \in D
    BY <2>1 DEF Got, CredOf
  <2> QED
    BY <2>1, <2>2
<1>4. ASSUME NEW r \in D, NEW g \in D, f[r] = f[g] PROVE r = g
  <2>1. CredOf(r) = CredOf(g)
    BY <1>4
  <2>2. r.q = g.q
    BY <2>1 DEF CredOf
  <2> QED
    BY <2>2 DEF TokensInv, Keys, Got, Real
<1>5. f \in Bijection(D, C)
  <2> HIDE DEF C, D
  <2>1. DOMAIN f = D
    OBVIOUS
  <2> HIDE DEF f
  <2> QED
    BY <1>2, <1>3, <1>4, <2>1 DEF Bijection, Injection, Surjection, IsInjective
<1>6. IsFiniteSet(D)
  BY CountsAreFinite DEF TokensInv
<1> HIDE DEF C, D, f
<1>7. ExistsBijection(D, C)
  BY <1>5 DEF ExistsBijection
<1> QED
  BY <1>6, <1>7, FS_Bijection DEF C, D

LEMMA DebitCount ==
  ASSUME NEW s, TokensInv(s), NEW a, NEW t
  PROVE  Cardinality({r \in s.deb : r.party = a /\ r.tok = t}) = Cardinality(Sent(s.journal, a, t))
<1> DEFINE C == {r \in s.deb : r.party = a /\ r.tok = t}
           D == Sent(s.journal, a, t)
           f == [r \in D |-> DebOf(r)]
<1>1. ASSUME NEW r \in D PROVE DebOf(r) \in C
  BY DEF TokensInv, Images, Sent, DebOf
<1>2. f \in [D -> C]
  BY <1>1, Zenon
<1>3. ASSUME NEW c \in C PROVE \E r \in D : f[r] = c
  <2>1. PICK r \in Real(s.journal) : c = DebOf(r)
    BY DEF TokensInv, Images
  <2>2. r \in D
    BY <2>1 DEF Sent, DebOf
  <2> QED
    BY <2>1, <2>2
<1>4. ASSUME NEW r \in D, NEW g \in D, f[r] = f[g] PROVE r = g
  <2>1. DebOf(r) = DebOf(g)
    BY <1>4
  <2>2. r.q = g.q
    BY <2>1 DEF DebOf
  <2> QED
    BY <2>2 DEF TokensInv, Keys, Sent, Real
<1>5. f \in Bijection(D, C)
  <2> HIDE DEF C, D
  <2>1. DOMAIN f = D
    OBVIOUS
  <2> HIDE DEF f
  <2> QED
    BY <1>2, <1>3, <1>4, <2>1 DEF Bijection, Injection, Surjection, IsInjective
<1>6. IsFiniteSet(D)
  BY CountsAreFinite DEF TokensInv
<1> HIDE DEF C, D, f
<1>7. ExistsBijection(D, C)
  BY <1>5 DEF ExistsBijection
<1> QED
  BY <1>6, <1>7, FS_Bijection DEF C, D

-----------------------------------------------------------------------------
(* The operations on the tokens keep the indexes at the journal.           *)

(* A row that is written to the journal and to every index. *)
LEMMA AddRow ==
  ASSUME NEW s, TokensInv(s), NEW z \in TokenStore,
         NEW e \in Entry, e.k # "noop", e.q = s.seq + 1, e.txid \notin s.seen,
         e.k = "issue" => \A g \in s.tokreg : g.tok # e.tok,
         z.seq = s.seq + 1, z.seen = s.seen \cup {e.txid},
         z.cred = s.cred \cup {CredOf(e)}, z.deb = s.deb \cup {DebOf(e)},
         z.addrtok = Incr(Incr(s.addrtok, <<e.rcp, e.tok>>), <<e.adr, e.tok>>),
         z.tokset = Incr(s.tokset, e.tok),
         z.journal = s.journal \cup {e},
         z.tokreg = IF e.k = "issue" THEN s.tokreg \cup {RegOf(e)} ELSE s.tokreg
  PROVE  TokensInv(z)
<1> DEFINE J == s.journal
<1>0. /\ s \in TokenStore /\ IsFiniteSet(J) /\ Keys(J) /\ Images(s) /\ Counts(s)
      /\ \A r \in J : r.q <= s.seq
      /\ J \in SUBSET Entry /\ s.seq \in Nat
  BY DEF TokensInv, TokenStore
<1>1. e \notin J
  BY <1>0 DEF Images
<1>2. IsFiniteSet(z.journal)
  BY <1>0, FS_AddElement
<1>3. \A r \in z.journal : r.q <= z.seq
  <2> SUFFICES ASSUME NEW r \in z.journal PROVE r.q <= z.seq
    OBVIOUS
  <2>1. CASE r = e
    BY <2>1, <1>0 DEF Entry
  <2>2. CASE r \in J
    BY <2>2, <1>0 DEF Entry
  <2> QED
    BY <2>1, <2>2
<1>4. Keys(z.journal)
  <2> SUFFICES ASSUME NEW r \in J,
                      r.q = e.q \/ r.txid = e.txid
                        \/ (r.k = "issue" /\ e.k = "issue" /\ r.tok = e.tok)
               PROVE  FALSE
    BY <1>0 DEF Keys
  <2>1. r.q # e.q
    BY <1>0 DEF Entry
  <2>2. r.txid # e.txid
    BY <1>0 DEF Images
  <2>3. ASSUME r.k = "issue" PROVE RegOf(r) \in s.tokreg /\ RegOf(r).tok = r.tok
    BY <1>0, <2>3 DEF Images, Issues, RegOf
  <2> QED
    BY <2>1, <2>2, <2>3
<1>5. Images(z)
  <2>1. Real(z.journal) = Real(J) \cup {e}
    BY DEF Real
  <2>2. Issues(z.journal) = IF e.k = "issue" THEN Issues(J) \cup {e} ELSE Issues(J)
    BY DEF Issues
  <2>3. z.seen = {r.txid : r \in z.journal}
    BY <1>0 DEF Images
  <2>4. z.cred = {CredOf(r) : r \in Real(z.journal)}
    BY <1>0, <2>1 DEF Images
  <2>5. z.deb = {DebOf(r) : r \in Real(z.journal)}
    BY <1>0, <2>1 DEF Images
  <2>6. z.tokreg = {RegOf(r) : r \in Issues(z.journal)}
    BY <1>0, <2>2 DEF Images
  <2> QED
    BY <2>3, <2>4, <2>5, <2>6 DEF Images
<1>6. Counts(z)
  <2>1. e.rcp \in Party /\ e.adr \in Party /\ e.tok \in Name
    BY DEF Entry
  <2>2. s.addrtok \in [Party \X Name -> Nat] /\ s.tokset \in [Name -> Nat]
    BY <1>0 DEF TokenStore
  <2>3. ASSUME NEW a \in Party, NEW t \in Name
        PROVE  z.addrtok[<<a, t>>] = Cardinality(Got(z.journal, a, t)) + Cardinality(Sent(z.journal, a, t))
    <3> DEFINE n == s.addrtok[<<a, t>>]
               g == Cardinality(Got(J, a, t))
               d == Cardinality(Sent(J, a, t))
    <3>1. n = g + d /\ g \in Nat /\ d \in Nat
      BY <1>0, CountsAreFinite DEF Counts
    <3>2. /\ Cardinality(Got(J \cup {e}, a, t)) = IF e.tok = t /\ e.rcp = a THEN g + 1 ELSE g
          /\ Cardinality(Sent(J \cup {e}, a, t)) = IF e.tok = t /\ e.adr = a THEN d + 1 ELSE d
      <4> HIDE DEF J
      <4> QED
        BY <1>0, <1>1, CountAdd
    <3>3. Cardinality(Got(z.journal, a, t)) = IF e.tok = t /\ e.rcp = a THEN g + 1 ELSE g
      BY <3>2, z.journal = J \cup {e}, Zenon
    <3>5. Cardinality(Sent(z.journal, a, t)) = IF e.tok = t /\ e.adr = a THEN d + 1 ELSE d
      BY <3>2, z.journal = J \cup {e}, Zenon
    <3>4. z.addrtok[<<a, t>>] = (IF e.tok = t /\ e.rcp = a THEN n + 1 ELSE n)
                                + (IF e.tok = t /\ e.adr = a THEN 1 ELSE 0)
      BY <2>1, <2>2 DEF Incr
    <3> DEFINE v == z.addrtok[<<a, t>>]
               b == Cardinality(Got(z.journal, a, t))
               c == Cardinality(Sent(z.journal, a, t))
               p == e.tok = t /\ e.rcp = a
               w == e.tok = t /\ e.adr = a
    <3>6. /\ b = IF p THEN g + 1 ELSE g
          /\ c = IF w THEN d + 1 ELSE d
          /\ v = (IF p THEN n + 1 ELSE n) + (IF w THEN 1 ELSE 0)
      BY <3>3, <3>4, <3>5, Zenon
    <3> HIDE DEF n, g, d, v, b, c, p, w
    <3>7. v = b + c
      BY <3>1, <3>6
    <3> QED
      BY <3>7 DEF v, b, c
  <2>4. ASSUME NEW t \in Name PROVE z.tokset[t] = Cardinality(Rows(z.journal, t))
    <3>1. s.tokset[t] = Cardinality(Rows(J, t))
      BY <1>0 DEF Counts
    <3>2. Cardinality(Rows(z.journal, t)) = IF e.tok = t THEN Cardinality(Rows(J, t)) + 1 ELSE Cardinality(Rows(J, t))
      BY <1>0, <1>1, RowsAdd
    <3> QED
      BY <2>1, <2>2, <3>1, <3>2 DEF Incr
  <2> QED
    BY <2>3, <2>4 DEF Counts
<1> QED
  BY <1>2, <1>3, <1>4, <1>5, <1>6 DEF TokensInv

LEMMA BumpType ==
  ASSUME NEW n \in 0..MaxBlocks, NEW h \in 1..MaxBlocks
  PROVE  Bump(n, h) \in 0..MaxBlocks
BY TokenAssumption DEF Bump

(* The fields of the store after Record. *)
LEMMA RecordFields ==
  ASSUME NEW s \in TokenStore, NEW k \in {"issue", "transfer"}, NEW h \in 1..MaxBlocks,
         NEW x \in Tx, NEW t \in Name, NEW from \in Party, NEW to \in Party, NEW amt \in Int,
         NEW e, e = [k |-> k, h |-> h, q |-> s.seq + 1, tok |-> t, rcp |-> to, adr |-> from,
                     amt |-> amt, txid |-> x],
         NEW z, z = Record(s, k, h, x, t, from, to, amt)
  PROVE  /\ e \in Entry /\ z \in TokenStore
         /\ z.seq = s.seq + 1 /\ z.seen = s.seen \cup {x}
         /\ z.cred = s.cred \cup {CredOf(e)} /\ z.deb = s.deb \cup {DebOf(e)}
         /\ z.addrtok = Incr(Incr(s.addrtok, <<to, t>>), <<from, t>>)
         /\ z.tokset = Incr(s.tokset, t)
         /\ z.journal = s.journal \cup {e}
         /\ z.tokreg = s.tokreg
         /\ z.anchor = Bump(s.anchor, h)
<1>1. h \in Nat
  BY TokenAssumption
<1>2. /\ s.anchor \in 0..MaxBlocks /\ s.seq \in Nat /\ s.tokreg \in SUBSET Registration
      /\ s.seen \in SUBSET Tx /\ s.cred \in SUBSET Row /\ s.deb \in SUBSET Row
      /\ s.addrtok \in [Party \X Name -> Nat] /\ s.tokset \in [Name -> Nat]
      /\ s.journal \in SUBSET Entry
  BY DEF TokenStore
<1>3. e \in Entry
  BY <1>1, <1>2 DEF Entry
<1>4. CredOf(e) \in Row /\ DebOf(e) \in Row
  BY <1>3 DEF Entry, Row, CredOf, DebOf
<1>5. /\ CredOf(e) = [tok |-> t, party |-> to, h |-> h, q |-> s.seq + 1, amt |-> amt]
      /\ DebOf(e) = [tok |-> t, party |-> from, h |-> h, q |-> s.seq + 1, amt |-> amt]
  BY DEF CredOf, DebOf
<1>6. z = [s EXCEPT !.seq = s.seq + 1, !.seen = s.seen \cup {x},
                    !.cred = s.cred \cup {CredOf(e)}, !.deb = s.deb \cup {DebOf(e)},
                    !.addrtok = Incr(Incr(s.addrtok, <<to, t>>), <<from, t>>),
                    !.tokset = Incr(s.tokset, t),
                    !.journal = s.journal \cup {e},
                    !.anchor = Bump(s.anchor, h)]
  BY <1>5 DEF Record
<1>7. Incr(Incr(s.addrtok, <<to, t>>), <<from, t>>) \in [Party \X Name -> Nat]
  BY <1>2 DEF Incr
<1>8. Incr(s.tokset, t) \in [Name -> Nat]
  BY <1>2 DEF Incr
<1>9. Bump(s.anchor, h) \in 0..MaxBlocks
  BY <1>2, BumpType
<1>10. /\ z.seq = s.seq + 1 /\ z.seen = s.seen \cup {x}
       /\ z.cred = s.cred \cup {CredOf(e)} /\ z.deb = s.deb \cup {DebOf(e)}
       /\ z.addrtok = Incr(Incr(s.addrtok, <<to, t>>), <<from, t>>)
       /\ z.tokset = Incr(s.tokset, t)
       /\ z.journal = s.journal \cup {e}
       /\ z.tokreg = s.tokreg
       /\ z.anchor = Bump(s.anchor, h)
  BY <1>6 DEF TokenStore
<1>11. z \in TokenStore
  <2>1. /\ s.seq + 1 \in Nat /\ s.seen \cup {x} \in SUBSET Tx
        /\ s.cred \cup {CredOf(e)} \in SUBSET Row /\ s.deb \cup {DebOf(e)} \in SUBSET Row
        /\ s.journal \cup {e} \in SUBSET Entry
    BY <1>2, <1>3, <1>4
  <2> HIDE DEF Incr, Bump
  <2> QED
    BY <1>6, <1>7, <1>8, <1>9, <2>1 DEF TokenStore
<1> QED
  BY <1>3, <1>10, <1>11

LEMMA OpType ==
  ASSUME NEW x \in Tx
  PROVE  /\ Op[x].kind \in Kinds /\ Op[x].name \in Name /\ Lower[Op[x].name] \in Name
         /\ Op[x].from \in Addr /\ Op[x].to \in Addr /\ Op[x].amount \in Int
         /\ Op[x].from \in Party /\ Op[x].to \in Party /\ Issued \in Party
BY TokenAssumption DEF Party

LEMMA IssueInv ==
  ASSUME NEW s, TokensInv(s), NEW h \in 1..MaxBlocks, NEW x \in Tx
  PROVE  TokensInv(register_issue(s, h, x))
<1> DEFINE t == Lower[Op[x].name]
           to == Op[x].to
           amt == Op[x].amount
           e == [k |-> "issue", h |-> h, q |-> s.seq + 1, tok |-> t, rcp |-> to, adr |-> Issued,
                 amt |-> amt, txid |-> x]
           y == Record(s, "issue", h, x, t, Issued, to, amt)
           z == [y EXCEPT !.tokreg = @ \cup {[tok |-> t, h |-> h, txid |-> x, supply |-> amt]}]
<1>1. CASE (\E r \in s.tokreg : r.tok = t) \/ x \in s.seen
  BY <1>1 DEF register_issue
<1>2. CASE ~((\E r \in s.tokreg : r.tok = t) \/ x \in s.seen)
  <2>1. register_issue(s, h, x) = z
    BY <1>2 DEF register_issue
  <2>2. t \in Name /\ to \in Party /\ Issued \in Party /\ amt \in Int /\ s \in TokenStore /\ h \in Nat
    BY OpType, TokenAssumption DEF TokensInv
  <2>3. e.k = "issue" /\ e.q = s.seq + 1 /\ e.txid = x /\ e.tok = t /\ e.rcp = to /\ e.adr = Issued
    OBVIOUS
  <2>4. RegOf(e) = [tok |-> t, h |-> h, txid |-> x, supply |-> amt] /\ RegOf(e) \in Registration
    BY <2>2 DEF RegOf, Registration
  <2> HIDE DEF t, to, amt
  <2>5. /\ e \in Entry /\ y \in TokenStore
        /\ y.seq = s.seq + 1 /\ y.seen = s.seen \cup {x}
        /\ y.cred = s.cred \cup {CredOf(e)} /\ y.deb = s.deb \cup {DebOf(e)}
        /\ y.addrtok = Incr(Incr(s.addrtok, <<to, t>>), <<Issued, t>>)
        /\ y.tokset = Incr(s.tokset, t)
        /\ y.journal = s.journal \cup {e}
        /\ y.tokreg = s.tokreg
        /\ y.anchor = Bump(s.anchor, h)
    <3> HIDE DEF e, y
    <3> QED
      BY <2>2, RecordFields DEF e, y
  <2> HIDE DEF e, y
  <2>6. z = [y EXCEPT !.tokreg = s.tokreg \cup {RegOf(e)}]
    BY <2>4, <2>5
  <2>7. s.tokreg \cup {RegOf(e)} \in SUBSET Registration
    BY <2>2, <2>4 DEF TokenStore
  <2> HIDE DEF z
  <2>8. /\ z \in TokenStore /\ z.tokreg = s.tokreg \cup {RegOf(e)}
        /\ z.seq = y.seq /\ z.seen = y.seen /\ z.cred = y.cred /\ z.deb = y.deb
        /\ z.addrtok = y.addrtok /\ z.tokset = y.tokset /\ z.journal = y.journal
    BY <2>5, <2>6, <2>7 DEF TokenStore
  <2>9. \A g \in s.tokreg : g.tok # e.tok
    BY <1>2, <2>3
  <2>10. e.txid \notin s.seen
    BY <1>2, <2>3
  <2>11. TokensInv(z)
    BY <2>3, <2>5, <2>8, <2>9, <2>10, AddRow
  <2> QED
    BY <2>1, <2>11
<1> QED
  BY <1>1, <1>2

LEMMA ApplyTransferInv ==
  ASSUME NEW s, TokensInv(s), NEW h \in 1..MaxBlocks, NEW x \in Tx, x \notin s.seen
  PROVE  TokensInv(apply_transfer(s, h, x))
<1> DEFINE t == Op[x].name
           from == Op[x].from
           to == Op[x].to
           amt == Op[x].amount
           e == [k |-> "transfer", h |-> h, q |-> s.seq + 1, tok |-> t, rcp |-> to, adr |-> from,
                 amt |-> amt, txid |-> x]
           z == Record(s, "transfer", h, x, t, from, to, amt)
<1>1. apply_transfer(s, h, x) = z
  BY DEF apply_transfer
<1>2. t \in Name /\ to \in Party /\ from \in Party /\ amt \in Int /\ s \in TokenStore
  BY OpType DEF TokensInv
<1>3. e.k = "transfer" /\ e.q = s.seq + 1 /\ e.txid = x /\ e.tok = t /\ e.rcp = to /\ e.adr = from
  OBVIOUS
<1> HIDE DEF t, to, from, amt
<1>4. /\ e \in Entry /\ z \in TokenStore
      /\ z.seq = s.seq + 1 /\ z.seen = s.seen \cup {x}
      /\ z.cred = s.cred \cup {CredOf(e)} /\ z.deb = s.deb \cup {DebOf(e)}
      /\ z.addrtok = Incr(Incr(s.addrtok, <<to, t>>), <<from, t>>)
      /\ z.tokset = Incr(s.tokset, t)
      /\ z.journal = s.journal \cup {e}
      /\ z.tokreg = s.tokreg
  <2> HIDE DEF e, z
  <2> QED
    BY <1>2, RecordFields DEF e, z
<1> HIDE DEF e, z
<1>5. TokensInv(z)
  BY <1>3, <1>4, AddRow
<1> QED
  BY <1>1, <1>5

(* A refused transfer is journalled and counted nowhere. *)
LEMMA NoopInv ==
  ASSUME NEW s, TokensInv(s), NEW h \in 1..MaxBlocks, NEW x \in Tx, x \notin s.seen
  PROVE  TokensInv(mark_noop(s, h, x))
<1> DEFINE e == [k |-> "noop", h |-> h, q |-> s.seq + 1, tok |-> Op[x].name, rcp |-> Issued,
                 adr |-> Issued, amt |-> 0, txid |-> x]
           z == mark_noop(s, h, x)
           J == s.journal
<1>0. /\ s \in TokenStore /\ IsFiniteSet(J) /\ Keys(J) /\ Images(s) /\ Counts(s)
      /\ \A r \in J : r.q <= s.seq
      /\ J \in SUBSET Entry /\ s.seq \in Nat /\ s.anchor \in 0..MaxBlocks /\ s.seen \in SUBSET Tx
  BY DEF TokensInv, TokenStore
<1>1. e \in Entry /\ e.k = "noop" /\ e.q = s.seq + 1 /\ e.txid = x
  BY <1>0, OpType, TokenAssumption DEF Entry
<1>2. z = [s EXCEPT !.seq = s.seq + 1, !.seen = s.seen \cup {x}, !.anchor = Bump(s.anchor, h),
                    !.journal = s.journal \cup {e}]
  BY DEF mark_noop
<1> HIDE DEF e, z
<1>3. /\ z.seq = s.seq + 1 /\ z.seen = s.seen \cup {x} /\ z.journal = J \cup {e}
      /\ z.cred = s.cred /\ z.deb = s.deb /\ z.tokreg = s.tokreg
      /\ z.addrtok = s.addrtok /\ z.tokset = s.tokset
  BY <1>0, <1>2 DEF TokenStore
<1>4. z \in TokenStore
  <2>1. s.seq + 1 \in Nat /\ s.seen \cup {x} \in SUBSET Tx /\ J \cup {e} \in SUBSET Entry
    BY <1>0, <1>1
  <2>2. Bump(s.anchor, h) \in 0..MaxBlocks
    BY <1>0, BumpType
  <2> QED
    BY <1>0, <1>2, <2>1, <2>2 DEF TokenStore
<1>5. /\ Real(z.journal) = Real(J) /\ Issues(z.journal) = Issues(J)
      /\ \A a, t : Got(z.journal, a, t) = Got(J, a, t) /\ Sent(z.journal, a, t) = Sent(J, a, t)
      /\ \A t : Rows(z.journal, t) = Rows(J, t)
  <2>1. Real(z.journal) = Real(J)
    BY <1>1, <1>3 DEF Real
  <2>2. Issues(z.journal) = Issues(J)
    BY <1>1, <1>3 DEF Issues
  <2> QED
    BY <2>1, <2>2 DEF Got, Sent, Rows
<1>6. IsFiniteSet(z.journal)
  BY <1>0, <1>3, FS_AddElement
<1>7. \A r \in z.journal : r.q <= z.seq
  <2> SUFFICES ASSUME NEW r \in z.journal PROVE r.q <= z.seq
    OBVIOUS
  <2>1. CASE r = e
    BY <2>1, <1>0, <1>1, <1>3
  <2>2. CASE r \in J
    BY <2>2, <1>0, <1>3 DEF Entry
  <2> QED
    BY <2>1, <2>2, <1>3
<1>8. Keys(z.journal)
  <2> SUFFICES ASSUME NEW r \in J, r.q = e.q \/ r.txid = e.txid PROVE FALSE
    BY <1>0, <1>1, <1>3 DEF Keys
  <2>1. r.q # e.q
    BY <1>0, <1>1 DEF Entry
  <2>2. r.txid # e.txid
    BY <1>0, <1>1 DEF Images
  <2> QED
    BY <2>1, <2>2
<1>9. Images(z)
  <2>1. z.seen = {r.txid : r \in z.journal}
    BY <1>0, <1>1, <1>3 DEF Images
  <2> QED
    BY <1>0, <1>3, <1>5, <2>1 DEF Images
<1>10. Counts(z)
  <2>1. ASSUME NEW a \in Party, NEW t \in Name
        PROVE  z.addrtok[<<a, t>>] = Cardinality(Got(z.journal, a, t)) + Cardinality(Sent(z.journal, a, t))
    <3>1. s.addrtok[<<a, t>>] = Cardinality(Got(J, a, t)) + Cardinality(Sent(J, a, t))
      BY <1>0 DEF Counts
    <3>2. Got(z.journal, a, t) = Got(J, a, t) /\ Sent(z.journal, a, t) = Sent(J, a, t)
      BY <1>5
    <3> QED
      BY <1>3, <3>1, <3>2, Zenon
  <2>2. ASSUME NEW t \in Name PROVE z.tokset[t] = Cardinality(Rows(z.journal, t))
    <3>1. s.tokset[t] = Cardinality(Rows(J, t)) /\ Rows(z.journal, t) = Rows(J, t)
      BY <1>0, <1>5 DEF Counts
    <3> QED
      BY <1>3, <3>1, Zenon
  <2> QED
    BY <2>1, <2>2 DEF Counts
<1>11. TokensInv(z)
  BY <1>4, <1>6, <1>7, <1>8, <1>9, <1>10 DEF TokensInv
<1> QED
  BY <1>11 DEF z

LEMMA ApplyTokenInv ==
  ASSUME NEW s, TokensInv(s), NEW e \in Work
  PROVE  TokensInv(ApplyToken(s, e))
<1>1. e.h \in 1..MaxBlocks /\ e.x \in Tx
  BY DEF Work
<1>2. CASE Op[e.x].kind = "token:issue"
  BY <1>1, <1>2, IssueInv DEF ApplyToken
<1>3. CASE Op[e.x].kind = "token:transfer"
  <2>1. ApplyToken(s, e) = Transfer(s, e.h, e.x)
    BY <1>3 DEF ApplyToken
  <2>2. CASE e.x \in s.seen
    BY <2>1, <2>2 DEF Transfer
  <2>3. CASE e.x \notin s.seen
    <3>1. \/ Transfer(s, e.h, e.x) = apply_transfer(s, e.h, e.x)
          \/ Transfer(s, e.h, e.x) = mark_noop(s, e.h, e.x)
      BY <2>3, Zenon DEF Transfer
    <3> QED
      BY <1>1, <2>1, <2>3, <3>1, ApplyTransferInv, NoopInv
  <2> QED
    BY <2>2, <2>3
<1>4. CASE Op[e.x].kind \notin {"token:issue", "token:transfer"}
  BY <1>4 DEF ApplyToken
<1> QED
  BY <1>2, <1>3, <1>4

LEMMA EmptyTokensInv == TokensInv(EmptyTokens)
<1> DEFINE s == EmptyTokens
<1>1. s \in TokenStore
  BY TokenAssumption DEF EmptyTokens, TokenStore
<1>2. /\ s.journal = {} /\ s.seen = {} /\ s.cred = {} /\ s.deb = {} /\ s.tokreg = {}
      /\ s.addrtok = [k \in Party \X Name |-> 0] /\ s.tokset = [t \in Name |-> 0]
  BY DEF EmptyTokens
<1> HIDE DEF s
<1>3. IsFiniteSet(s.journal)
  BY <1>2, FS_EmptySet
<1>4. Images(s) /\ Keys(s.journal)
  BY <1>2 DEF Images, Real, Issues, Keys
<1>5. Counts(s)
  <2>1. /\ \A a, t : Got({}, a, t) = {} /\ Sent({}, a, t) = {}
        /\ \A t : Rows({}, t) = {}
    BY DEF Got, Sent, Rows, Real
  <2>2. Cardinality({}) = 0
    BY FS_EmptySet
  <2> QED
    BY <1>2, <2>1, <2>2 DEF Counts
<1>6. TokensInv(s)
  BY <1>1, <1>2, <1>3, <1>4, <1>5 DEF TokensInv
<1> QED
  BY <1>6 DEF s

(* The rollback undoes exactly the rows it takes out of the journal. *)
LEMMA RollbackInv ==
  ASSUME NEW s, TokensInv(s), NEW height \in 1..MaxBlocks
  PROVE  TokensInv(tokens_rollback(s, height))
<1> DEFINE J == s.journal
           K == Undone(s, height)
           L == J \ K
           z == tokens_rollback(s, height)
<1>0. /\ s \in TokenStore /\ IsFiniteSet(J) /\ Keys(J) /\ Images(s) /\ Counts(s)
      /\ \A r \in J : r.q <= s.seq
      /\ J \in SUBSET Entry /\ s.seq \in Nat
  BY DEF TokensInv, TokenStore
<1>1. K \in SUBSET J /\ L \in SUBSET J
  BY DEF Undone
<1>2. IsFiniteSet(K) /\ IsFiniteSet(L)
  BY <1>0, <1>1, FS_Subset
<1> DEFINE Ck == {c \in s.cred : \E r \in Real(K) : c.tok = r.tok /\ c.party = r.rcp /\ c.h = r.h /\ c.q = r.q}
           Dk == {c \in s.deb : \E r \in Real(K) : c.tok = r.tok /\ c.party = r.adr /\ c.h = r.h /\ c.q = r.q}
           at == [k \in Party \X Name |-> Less(s.addrtok[k], Cardinality(Got(K, k[1], k[2])) + Cardinality(Sent(K, k[1], k[2])))]
           ts == [t \in Name |-> Less(s.tokset[t], Cardinality(Rows(K, t)))]
           rg == {g \in s.tokreg : ~\E r \in K : r.k = "issue" /\ r.tok = g.tok}
           sn == s.seen \ {r.txid : r \in K}
           an == IF height - 1 > 0 THEN height - 1 ELSE 0
<1>3. z = [s EXCEPT !.cred = s.cred \ Ck, !.deb = s.deb \ Dk, !.addrtok = at, !.tokset = ts,
                    !.tokreg = rg, !.seen = sn, !.journal = L, !.anchor = an]
  BY Zenon DEF tokens_rollback, Real, Got, Sent, Rows
<1>4. at \in [Party \X Name -> Nat] /\ ts \in [Name -> Nat] /\ an \in 0..MaxBlocks
  <2>1. s.addrtok \in [Party \X Name -> Nat] /\ s.tokset \in [Name -> Nat]
    BY <1>0 DEF TokenStore
  <2>2. ASSUME NEW m \in Nat, NEW n \in Nat PROVE Less(m, n) \in Nat
    BY DEF Less
  <2>3. ASSUME NEW k \in Party \X Name
        PROVE  Less(s.addrtok[k], Cardinality(Got(K, k[1], k[2])) + Cardinality(Sent(K, k[1], k[2]))) \in Nat
    <3>1. Cardinality(Got(K, k[1], k[2])) + Cardinality(Sent(K, k[1], k[2])) \in Nat
      <4> HIDE DEF K
      <4> QED
        BY <1>2, CountsAreFinite
    <3> QED
      BY <2>1, <2>2, <3>1
  <2>4. ASSUME NEW t \in Name PROVE Less(s.tokset[t], Cardinality(Rows(K, t))) \in Nat
    <3>1. Cardinality(Rows(K, t)) \in Nat
      <4> HIDE DEF K
      <4> QED
        BY <1>2, CountsAreFinite
    <3> QED
      BY <2>1, <2>2, <3>1
  <2>5. at \in [Party \X Name -> Nat]
    BY <2>3, Zenon
  <2>6. ts \in [Name -> Nat]
    BY <2>4, Zenon
  <2>7. an \in 0..MaxBlocks
    BY TokenAssumption
  <2> QED
    BY <2>5, <2>6, <2>7
<1> HIDE DEF z, Ck, Dk, at, ts, rg, sn, an, K
<1>5. /\ z.cred = s.cred \ Ck /\ z.deb = s.deb \ Dk /\ z.addrtok = at /\ z.tokset = ts
      /\ z.tokreg = rg /\ z.seen = sn /\ z.journal = L /\ z.seq = s.seq
  BY <1>0, <1>3 DEF TokenStore
<1>6. z \in TokenStore
  <2>1. /\ s.cred \ Ck \in SUBSET Row /\ s.deb \ Dk \in SUBSET Row
        /\ rg \in SUBSET Registration /\ sn \in SUBSET Tx /\ L \in SUBSET Entry
    BY <1>0, <1>1 DEF TokenStore, rg, sn
  <2> QED
    BY <1>0, <1>3, <1>4, <2>1 DEF TokenStore
<1>7. (\A r \in L : r.q <= s.seq) /\ Keys(L)
  BY <1>0, <1>1 DEF Keys
<1>8. Images(z)
  <2>1. sn = {r.txid : r \in L}
    BY <1>0, <1>1 DEF sn, Images, Keys
  <2>2. s.cred \ Ck = {CredOf(r) : r \in Real(L)}
    <3>1. ASSUME NEW c \in s.cred \ Ck PROVE c \in {CredOf(r) : r \in Real(L)}
      <4>1. PICK r \in Real(J) : c = CredOf(r)
        BY <1>0 DEF Images
      <4>2. r \notin K
        BY <4>1 DEF Ck, CredOf, Real
      <4> QED
        BY <4>1, <4>2 DEF Real
    <3>2. ASSUME NEW r \in Real(L) PROVE CredOf(r) \in s.cred \ Ck
      <4>1. CredOf(r) \in s.cred /\ r \in J /\ r \notin K
        BY <1>0 DEF Images, Real
      <4>2. ASSUME CredOf(r) \in Ck PROVE FALSE
        <5>1. PICK g \in Real(K) : CredOf(r).q = g.q
          BY <4>2 DEF Ck
        <5>2. r.q = g.q /\ g \in J /\ g \in K
          BY <5>1, <1>1 DEF CredOf, Real
        <5> QED
          BY <4>1, <5>2, <1>0 DEF Keys
      <4> QED
        BY <4>1, <4>2
    <3> QED
      BY <3>1, <3>2
  <2>3. s.deb \ Dk = {DebOf(r) : r \in Real(L)}
    <3>1. ASSUME NEW c \in s.deb \ Dk PROVE c \in {DebOf(r) : r \in Real(L)}
      <4>1. PICK r \in Real(J) : c = DebOf(r)
        BY <1>0 DEF Images
      <4>2. r \notin K
        BY <4>1 DEF Dk, DebOf, Real
      <4> QED
        BY <4>1, <4>2 DEF Real
    <3>2. ASSUME NEW r \in Real(L) PROVE DebOf(r) \in s.deb \ Dk
      <4>1. DebOf(r) \in s.deb /\ r \in J /\ r \notin K
        BY <1>0 DEF Images, Real
      <4>2. ASSUME DebOf(r) \in Dk PROVE FALSE
        <5>1. PICK g \in Real(K) : DebOf(r).q = g.q
          BY <4>2 DEF Dk
        <5>2. r.q = g.q /\ g \in J /\ g \in K
          BY <5>1, <1>1 DEF DebOf, Real
        <5> QED
          BY <4>1, <5>2, <1>0 DEF Keys
      <4> QED
        BY <4>1, <4>2
    <3> QED
      BY <3>1, <3>2
  <2>4. rg = {RegOf(r) : r \in Issues(L)}
    <3>1. ASSUME NEW g \in rg PROVE g \in {RegOf(r) : r \in Issues(L)}
      <4>1. PICK r \in Issues(J) : g = RegOf(r)
        BY <1>0 DEF Images, rg
      <4>2. r \notin K
        BY <4>1 DEF rg, RegOf, Issues
      <4> QED
        BY <4>1, <4>2 DEF Issues
    <3>2. ASSUME NEW r \in Issues(L) PROVE RegOf(r) \in rg
      <4>1. RegOf(r) \in s.tokreg /\ r \in J /\ r \notin K /\ r.k = "issue" /\ RegOf(r).tok = r.tok
        BY <1>0 DEF Images, Issues, RegOf
      <4>2. ASSUME NEW g \in K, g.k = "issue", g.tok = RegOf(r).tok PROVE FALSE
        BY <4>1, <4>2, <1>0, <1>1 DEF Keys
      <4> QED
        BY <4>1, <4>2 DEF rg
    <3> QED
      BY <3>1, <3>2
  <2> HIDE DEF L
  <2> QED
    BY <1>5, <2>1, <2>2, <2>3, <2>4 DEF Images
<1>9. Counts(z)
  <2>0. ASSUME NEW m, NEW n \in Nat, NEW d \in Nat, m = n + d PROVE Less(m, n) = d
    BY <2>0 DEF Less
  <2>1. ASSUME NEW a \in Party, NEW t \in Name
        PROVE  at[<<a, t>>] = Cardinality(Got(L, a, t)) + Cardinality(Sent(L, a, t))
    <3> DEFINE v == s.addrtok[<<a, t>>]
               g == Cardinality(Got(J, a, t))
               d == Cardinality(Sent(J, a, t))
               gk == Cardinality(Got(K, a, t))
               dk == Cardinality(Sent(K, a, t))
               gl == Cardinality(Got(L, a, t))
               dl == Cardinality(Sent(L, a, t))
    <3>1. gk \in Nat /\ dk \in Nat
      BY <1>2, CountsAreFinite
    <3>2. gl \in Nat /\ dl \in Nat
      <4> HIDE DEF L
      <4> QED
        BY <1>2, CountsAreFinite
    <3>3. g = gk + gl /\ d = dk + dl
      BY <1>0, <1>1, CountRemove
    <3>4. v = g + d
      BY <1>0 DEF Counts
    <3>5. at[<<a, t>>] = Less(v, gk + dk)
      BY DEF at
    <3> HIDE DEF v, g, d, gk, dk, gl, dl
    <3>6. gk + dk \in Nat /\ gl + dl \in Nat /\ v = (gk + dk) + (gl + dl)
      BY <3>1, <3>2, <3>3, <3>4
    <3>7. Less(v, gk + dk) = gl + dl
      BY <2>0, <3>6
    <3> QED
      BY <3>5, <3>7 DEF gl, dl
  <2>2. ASSUME NEW t \in Name PROVE ts[t] = Cardinality(Rows(L, t))
    <3> DEFINE v == s.tokset[t]
               k == Cardinality(Rows(K, t))
               l == Cardinality(Rows(L, t))
    <3>1. k \in Nat
      BY <1>2, CountsAreFinite
    <3>2. l \in Nat
      <4> HIDE DEF L
      <4> QED
        BY <1>2, CountsAreFinite
    <3>3. v = k + l
      <4>1. v = Cardinality(Rows(J, t))
        BY <1>0 DEF Counts
      <4> QED
        BY <1>0, <1>1, <4>1, CountRemove
    <3>4. ts[t] = Less(v, k)
      BY DEF ts
    <3> HIDE DEF v, k, l
    <3>5. Less(v, k) = l
      BY <2>0, <3>1, <3>2, <3>3
    <3> QED
      BY <3>4, <3>5 DEF l
  <2> HIDE DEF L
  <2> QED
    BY <1>5, <2>1, <2>2 DEF Counts
<1>10. TokensInv(z)
  <2> HIDE DEF L
  <2> QED
    BY <1>2, <1>5, <1>6, <1>7, <1>8, <1>9 DEF TokensInv
<1> QED
  BY <1>10 DEF z

(* Under the invariant every index says what the journal says. *)
LEMMA TokensMatch ==
  ASSUME TokensInv(ti)
  PROVE  IndexesMatchJournal /\ \A g, k \in ti.tokreg : g.tok = k.tok => g = k
<1> DEFINE J == ti.journal
           R == {r \in ti.journal : r.k # "noop"}
<1>0. /\ ti \in TokenStore /\ IsFiniteSet(J) /\ Keys(J) /\ Images(ti) /\ Counts(ti)
      /\ J \in SUBSET Entry /\ ti.addrtok \in [Party \X Name -> Nat]
  BY DEF TokensInv, TokenStore
<1>1. R = Real(J)
  BY DEF Real
<1>2. ASSUME NEW a \in Party, NEW t \in Name
      PROVE  ti.addrtok[<<a, t>>] = Cardinality({r \in ti.cred : r.party = a /\ r.tok = t})
                                    + Cardinality({r \in ti.deb : r.party = a /\ r.tok = t})
  <2>1. ti.addrtok[<<a, t>>] = Cardinality(Got(J, a, t)) + Cardinality(Sent(J, a, t))
    BY <1>0 DEF Counts
  <2>2. Cardinality({r \in ti.cred : r.party = a /\ r.tok = t}) = Cardinality(Got(J, a, t))
    BY CreditCount
  <2>3. Cardinality({r \in ti.deb : r.party = a /\ r.tok = t}) = Cardinality(Sent(J, a, t))
    BY DebitCount
  <2> QED
    BY <2>1, <2>2, <2>3, Zenon
<1>3. ASSUME NEW t \in Name PROVE token_transfers(t) = Cardinality({r \in R : r.tok = t})
  <2>1. {r \in R : r.tok = t} = Rows(J, t)
    BY <1>1 DEF Rows
  <2>2. ti.tokset[t] = Cardinality(Rows(J, t))
    BY <1>0 DEF Counts
  <2> QED
    BY <2>1, <2>2, Zenon DEF token_transfers
<1>4. ASSUME NEW a \in Addr
      PROVE  token_txs_for_address(a) = {r \in R : r.k = "transfer" /\ a \in {r.rcp, r.adr}}
  <2>0. a \in Party
    BY DEF Party
  <2>1. ASSUME NEW j \in token_txs_for_address(a)
        PROVE  j \in R /\ j.k = "transfer" /\ a \in {j.rcp, j.adr}
    <3>1. PICK c \in ti.cred \cup ti.deb : c.party = a /\ c.q = j.q
      BY <2>1, Zenon DEF token_txs_for_address
    <3>2. j \in J /\ j.k = "transfer"
      BY <2>1 DEF token_txs_for_address
    <3>3. PICK r \in Real(J) : c = CredOf(r) \/ c = DebOf(r)
      BY <1>0, <3>1 DEF Images
    <3>4. r.q = j.q /\ a \in {r.rcp, r.adr} /\ r \in J
      BY <3>1, <3>3 DEF CredOf, DebOf, Real
    <3>5. r = j
      BY <3>2, <3>4, <1>0 DEF Keys
    <3> QED
      BY <3>2, <3>4, <3>5
  <2>2. ASSUME NEW j \in R, j.k = "transfer", a \in {j.rcp, j.adr}
        PROVE  j \in token_txs_for_address(a)
    <3>1. j \in J /\ j.tok \in Name /\ j \in Real(J)
      BY <1>0, <1>1 DEF Entry
    <3> DEFINE c == IF a = j.rcp THEN CredOf(j) ELSE DebOf(j)
    <3>2. c \in ti.cred \cup ti.deb
      BY <1>0, <3>1, <2>2 DEF Images
    <3>3. c.tok = j.tok /\ c.party = a /\ c.h = j.h /\ c.q = j.q
      BY <2>2 DEF CredOf, DebOf
    <3>4. j \in Got(J, a, j.tok) \cup Sent(J, a, j.tok)
      BY <2>2, <3>1 DEF Got, Sent
    <3>5. Cardinality(Got(J, a, j.tok)) # 0 \/ Cardinality(Sent(J, a, j.tok)) # 0
      BY <1>0, <3>4, CountsAreFinite, FS_EmptySet
    <3>6. Cardinality(Got(J, a, j.tok)) \in Nat /\ Cardinality(Sent(J, a, j.tok)) \in Nat
      BY <1>0, CountsAreFinite
    <3>7. ti.addrtok[<<a, j.tok>>] = Cardinality(Got(J, a, j.tok)) + Cardinality(Sent(J, a, j.tok))
      BY <1>0, <2>0, <3>1 DEF Counts
    <3>8. ti.addrtok[<<a, j.tok>>] > 0
      BY <3>5, <3>6, <3>7
    <3>9. j.tok \in tokens_user(a)
      BY <3>1, <3>8 DEF tokens_user
    <3> HIDE DEF c
    <3>10. \E r \in ti.cred \cup ti.deb : r.tok = j.tok /\ r.party = a /\ r.h = j.h /\ r.q = j.q
      BY <3>2, <3>3
    <3> QED
      BY <2>2, <3>1, <3>9, <3>10 DEF token_txs_for_address
  <2>3. ASSUME NEW j \in token_txs_for_address(a) PROVE j \in J
    BY DEF token_txs_for_address
  <2> HIDE DEF R
  <2> QED
    BY <2>1, <2>2
<1>5. ti.seen = {r.txid : r \in ti.journal}
  BY <1>0 DEF Images
<1>6. {g.txid : g \in ti.tokreg} = {r.txid : r \in {s \in R : s.k = "issue"}}
  <2>1. {s \in R : s.k = "issue"} = Issues(J)
    BY DEF Issues
  <2>2. ti.tokreg = {RegOf(r) : r \in Issues(J)} /\ \A r \in Issues(J) : RegOf(r).txid = r.txid
    BY <1>0 DEF Images, RegOf
  <2> HIDE DEF R, J
  <2> QED
    BY <2>1, <2>2
<1>7. ASSUME NEW g \in ti.tokreg, NEW k \in ti.tokreg, g.tok = k.tok PROVE g = k
  <2>1. PICK r \in Issues(J), d \in Issues(J) : g = RegOf(r) /\ k = RegOf(d)
    BY <1>0 DEF Images
  <2>2. r.tok = d.tok /\ r \in J /\ d \in J /\ r.k = "issue" /\ d.k = "issue"
    BY <1>7, <2>1 DEF RegOf, Issues
  <2> QED
    BY <2>1, <2>2, <1>0 DEF Keys
<1>8. IndexesMatchJournal
  BY <1>2, <1>3, <1>4, <1>5, <1>6, Zenon DEF IndexesMatchJournal
<1> QED
  BY <1>7, <1>8

-----------------------------------------------------------------------------
(* The aliases.                                                            *)

LEMMA AliasBump ==
  ASSUME NEW s \in AliasStore, NEW h \in 1..MaxBlocks
  PROVE  Bump(s.anchor, h) \in 0..MaxBlocks
BY BumpType DEF AliasStore

LEMMA NoOwnerType == NoOwner \in Owner
BY DEF NoOwner, Owner, Party

LEMMA JournalInv ==
  ASSUME NEW s, AliasesInv(s), NEW h \in 1..MaxBlocks, NEW k \in {"register", "transfer", "free"},
         NEW n \in Name, NEW a \in Party
  PROVE  /\ AliasesInv(Journal(s, h, k, n, a))
         /\ Journal(s, h, k, n, a).fwd = s.fwd /\ Journal(s, h, k, n, a).rev = s.rev
<1> DEFINE e == [h |-> h, q |-> s.seq + 1, k |-> k, al |-> n, a |-> a, prev |-> s.fwd[n]]
           z == Journal(s, h, k, n, a)
<1>0. /\ s \in AliasStore /\ IsFiniteSet(s.ajournal) /\ s.seq \in Nat /\ s.fwd \in [Name -> Owner]
      /\ s.ajournal \in SUBSET AliasEntry /\ h \in Nat
  BY TokenAssumption DEF AliasesInv, AliasStore
<1>1. e \in AliasEntry
  BY <1>0 DEF AliasEntry
<1>2. z = [s EXCEPT !.seq = s.seq + 1, !.anchor = Bump(s.anchor, h), !.ajournal = s.ajournal \cup {e}]
  BY DEF Journal
<1>3. s.seq + 1 \in Nat /\ Bump(s.anchor, h) \in 0..MaxBlocks /\ s.ajournal \cup {e} \in SUBSET AliasEntry
  BY <1>0, <1>1, AliasBump
<1> HIDE DEF e, z
<1>4. z \in AliasStore /\ z.ajournal = s.ajournal \cup {e} /\ z.fwd = s.fwd /\ z.rev = s.rev
  BY <1>0, <1>2, <1>3 DEF AliasStore
<1>5. IsFiniteSet(z.ajournal)
  BY <1>0, <1>4, FS_AddElement
<1> QED
  BY <1>4, <1>5 DEF z, AliasesInv

(* The two tables change together, the journal as Journal left it. *)
LEMMA TablesInv ==
  ASSUME NEW s, AliasesInv(s), NEW n \in Name, NEW o \in Owner, NEW v \in SUBSET (Party \X Nat \X Name)
  PROVE  AliasesInv([s EXCEPT !.fwd[n] = o, !.rev = v])
<1> DEFINE z == [s EXCEPT !.fwd[n] = o, !.rev = v]
           f == [s.fwd EXCEPT ![n] = o]
<1>1. s \in AliasStore /\ s.fwd \in [Name -> Owner] /\ IsFiniteSet(s.ajournal)
  BY DEF AliasesInv, AliasStore
<1>2. z = [s EXCEPT !.fwd = f, !.rev = v] /\ f \in [Name -> Owner]
  BY <1>1 DEF AliasStore
<1> HIDE DEF z, f
<1>3. z \in AliasStore /\ z.ajournal = s.ajournal
  BY <1>1, <1>2 DEF AliasStore
<1>4. AliasesInv(z)
  BY <1>1, <1>3 DEF AliasesInv
<1> QED
  BY <1>4 DEF z

LEMMA RejectedInv ==
  ASSUME NEW s, AliasesInv(s), NEW h \in 1..MaxBlocks
  PROVE  AliasesInv(Rejected(s, h))
<1> DEFINE z == Rejected(s, h)
<1>1. s \in AliasStore /\ IsFiniteSet(s.ajournal) /\ Bump(s.anchor, h) \in 0..MaxBlocks
  BY AliasBump DEF AliasesInv
<1>2. z = [s EXCEPT !.anchor = Bump(s.anchor, h)]
  BY DEF Rejected
<1> HIDE DEF z
<1>3. z \in AliasStore /\ z.ajournal = s.ajournal
  BY <1>1, <1>2 DEF AliasStore
<1> QED
  BY <1>1, <1>3 DEF z, AliasesInv

LEMMA RegisterAliasInv ==
  ASSUME NEW s, AliasesInv(s), NEW h \in 1..MaxBlocks, NEW a \in Party, NEW n \in Name
  PROVE  AliasesInv(register_alias(s, h, a, n))
<1> DEFINE y == Journal(s, h, "register", n, a)
<1>1. AliasesInv(y) /\ y.rev \in SUBSET (Party \X Nat \X Name)
  BY JournalInv DEF AliasesInv, AliasStore
<1>2. h \in Nat /\ [a |-> a, h |-> h] \in Owner
  BY TokenAssumption DEF Owner
<1>3. y.rev \cup {<<a, h, n>>} \in SUBSET (Party \X Nat \X Name)
  BY <1>1, <1>2
<1> HIDE DEF y
<1>4. AliasesInv([y EXCEPT !.fwd[n] = [a |-> a, h |-> h], !.rev = y.rev \cup {<<a, h, n>>}])
  BY <1>1, <1>2, <1>3, TablesInv
<1> QED
  BY <1>4, RejectedInv DEF register_alias, y

LEMMA TransferAliasInv ==
  ASSUME NEW s, AliasesInv(s), NEW h \in 1..MaxBlocks, NEW from \in Party, NEW to \in Party, NEW n \in Name
  PROVE  AliasesInv(transfer_alias(s, h, from, to, n))
<1> DEFINE y == Journal(s, h, "transfer", n, to)
           v == (y.rev \ {<<from, s.fwd[n].h, n>>}) \cup {<<to, h, n>>}
<1>1. AliasesInv(y) /\ y.rev \in SUBSET (Party \X Nat \X Name)
  BY JournalInv DEF AliasesInv, AliasStore
<1>2. h \in Nat /\ [a |-> to, h |-> h] \in Owner
  BY TokenAssumption DEF Owner
<1>3. v \in SUBSET (Party \X Nat \X Name)
  BY <1>1, <1>2
<1> HIDE DEF v
<1>4. AliasesInv([y EXCEPT !.fwd[n] = [a |-> to, h |-> h], !.rev = v])
  <2> HIDE DEF y
  <2> QED
    BY <1>1, <1>2, <1>3, TablesInv
<1> QED
  BY <1>4, RejectedInv DEF transfer_alias, v

LEMMA FreeAliasInv ==
  ASSUME NEW s, AliasesInv(s), NEW h \in 1..MaxBlocks, NEW from \in Party, NEW n \in Name
  PROVE  AliasesInv(free_alias(s, h, from, n))
<1> DEFINE y == Journal(s, h, "free", n, from)
           v == y.rev \ {<<from, s.fwd[n].h, n>>}
<1>1. AliasesInv(y) /\ y.rev \in SUBSET (Party \X Nat \X Name)
  BY JournalInv DEF AliasesInv, AliasStore
<1>2. v \in SUBSET (Party \X Nat \X Name)
  BY <1>1
<1> HIDE DEF v
<1>3. AliasesInv([y EXCEPT !.fwd[n] = NoOwner, !.rev = v])
  <2> HIDE DEF y
  <2> QED
    BY <1>1, <1>2, NoOwnerType, TablesInv
<1> QED
  BY <1>3, RejectedInv DEF free_alias, v

LEMMA ApplyAliasInv ==
  ASSUME NEW s, AliasesInv(s), NEW e \in Work
  PROVE  AliasesInv(ApplyAlias(s, e))
<1> DEFINE o == Op[e.x]
<1>1. e.h \in 1..MaxBlocks /\ e.x \in Tx /\ o.name \in Name /\ o.from \in Party /\ o.to \in Party
  BY OpType DEF Work
<1>2. CASE o.kind \in {"alias=", "alias:register"}
  <2>1. ApplyAlias(s, e) = register_alias(s, e.h, o.from, o.name)
    BY <1>2 DEF ApplyAlias
  <2> QED
    BY <1>1, <2>1, RegisterAliasInv
<1>3. CASE o.kind = "alias:transfer"
  <2>1. ApplyAlias(s, e) = AliasTransfer(s, e.h, o)
    BY <1>3 DEF ApplyAlias
  <2> QED
    BY <1>1, <2>1, TransferAliasInv DEF AliasTransfer
<1>4. CASE o.kind = "alias:free"
  <2>1. ApplyAlias(s, e) = free_alias(s, e.h, o.from, o.name)
    BY <1>4 DEF ApplyAlias
  <2> QED
    BY <1>1, <2>1, FreeAliasInv
<1>5. CASE o.kind \notin {"alias=", "alias:register", "alias:transfer", "alias:free"}
  BY <1>5 DEF ApplyAlias
<1> QED
  BY <1>2, <1>3, <1>4, <1>5

LEMMA EmptyAliasesInv == AliasesInv(EmptyAliases)
<1>1. EmptyAliases \in AliasStore /\ EmptyAliases.ajournal = {}
  BY NoOwnerType, TokenAssumption DEF EmptyAliases, AliasStore
<1> QED
  BY <1>1, FS_EmptySet DEF AliasesInv

(* A journal has a row that was written first. *)
LEMMA OldestIn ==
  ASSUME NEW J \in SUBSET AliasEntry, J # {}
  PROVE  UndoneLast(J) \in J
<1> DEFINE H == {e.h : e \in J}
<1>1. H \in SUBSET Nat /\ H # {}
  BY DEF AliasEntry
<1>2. PICK h \in H : \A d \in H : h <= d
  <2> HIDE DEF H
  <2> QED
    BY <1>1, LeastNatural
<1> DEFINE Q == {e.q : e \in {d \in J : d.h = h}}
<1>3. Q \in SUBSET Nat /\ Q # {}
  BY <1>2 DEF AliasEntry
<1>4. PICK q \in Q : \A d \in Q : q <= d
  <2> HIDE DEF Q
  <2> QED
    BY <1>3, LeastNatural
<1>5. PICK e \in J : e.h = h /\ e.q = q
  BY <1>4
<1>6. ASSUME NEW d \in J PROVE d.h > e.h \/ (d.h = e.h /\ d.q >= e.q)
  <2>1. d.h \in Nat /\ d.q \in Nat /\ e.h \in Nat /\ e.q \in Nat
    BY DEF AliasEntry
  <2>2. h <= d.h
    BY <1>2
  <2>3. ASSUME d.h = h PROVE q <= d.q
    BY <1>4, <2>3
  <2> QED
    BY <1>5, <2>1, <2>2, <2>3
<1> QED
  BY <1>5, <1>6 DEF UndoneLast, Oldest

(* Undoing one row leaves the journal alone. *)
LEMMA UndoType ==
  ASSUME NEW s \in AliasStore, NEW e \in AliasEntry
  PROVE  UndoAlias(s, e) \in AliasStore /\ UndoAlias(s, e).ajournal = s.ajournal
<1> DEFINE z == UndoAlias(s, e)
<1>0. /\ s.fwd \in [Name -> Owner] /\ s.rev \in SUBSET (Party \X Nat \X Name)
      /\ e.al \in Name /\ e.h \in Nat /\ e.a \in Party /\ e.prev \in Owner
      /\ e.prev.a \in Party /\ e.prev.h \in Nat
  BY DEF AliasStore, AliasEntry, Owner
<1>1. \E f \in [Name -> Owner], v \in SUBSET (Party \X Nat \X Name) : z = [s EXCEPT !.fwd = f, !.rev = v]
  <2>1. CASE e.k = "register"
    <3> DEFINE o == IF s.fwd[e.al] # NoOwner /\ s.fwd[e.al].h = e.h THEN NoOwner ELSE s.fwd[e.al]
               f == [s.fwd EXCEPT ![e.al] = o]
               v == s.rev \ {<<e.a, e.h, e.al>>}
    <3>1. o \in Owner
      BY <1>0, NoOwnerType
    <3>2. f \in [Name -> Owner] /\ v \in SUBSET (Party \X Nat \X Name)
      <4> HIDE DEF o
      <4> QED
        BY <1>0, <3>1
    <3>3. z = [s EXCEPT !.fwd = f, !.rev = v]
      BY <2>1 DEF UndoAlias, AliasStore
    <3> HIDE DEF f, v
    <3> QED
      BY <3>2, <3>3
  <2>2. CASE e.k # "register"
    <3> DEFINE f == [s.fwd EXCEPT ![e.al] = e.prev]
               v == (s.rev \ {<<e.a, e.h, e.al>> : k \in {e.k} \ {"free"}})
                    \cup {<<e.prev.a, e.prev.h, e.al>>}
    <3>2. f \in [Name -> Owner] /\ v \in SUBSET (Party \X Nat \X Name)
      BY <1>0
    <3>3. z = [s EXCEPT !.fwd = f, !.rev = v]
      BY <2>2 DEF UndoAlias, AliasStore
    <3> HIDE DEF f, v
    <3> QED
      BY <3>2, <3>3
  <2> QED
    BY <2>1, <2>2
<1>2. PICK f \in [Name -> Owner], v \in SUBSET (Party \X Nat \X Name) : z = [s EXCEPT !.fwd = f, !.rev = v]
  BY <1>1
<1> HIDE DEF z
<1>3. z \in AliasStore /\ z.ajournal = s.ajournal
  BY <1>2 DEF AliasStore
<1> QED
  BY <1>3 DEF z

(* The rollback's pass over the journal, from the newest row to the        *)
(* oldest, ends in a store.                                                *)
LEMMA UndoAllType ==
  ASSUME NEW s \in AliasStore, NEW J \in SUBSET AliasEntry, IsFiniteSet(J)
  PROVE  MapThenFoldSet(LAMBDA e, t : UndoAlias(t, e), s, LAMBDA e : e, UndoneLast, J)
           \in {z \in AliasStore : z.ajournal = s.ajournal}
<1> DEFINE A == {z \in AliasStore : z.ajournal = s.ajournal}
           N == Cardinality(J)
           Upto(m) == {b \in SUBSET J : Cardinality(b) <= m}
           less(b) == b \ {UndoneLast(b)}
           Val(f, b) == IF b = {} THEN s ELSE UndoAlias(f[less(b)], UndoneLast(b))
           Step(f) == [b \in SUBSET J |-> Val(f, b)]
           iter == CHOOSE f : f = Step(f)
<1>1. ASSUME NEW b \in SUBSET J
      PROVE  Cardinality(b) \in Nat /\ Cardinality(b) <= N /\ (Cardinality(b) = 0 <=> b = {})
  BY FS_Subset, FS_CardinalityType, FS_EmptySet
<1>2. N \in Nat
  BY FS_CardinalityType
<1>3. ASSUME NEW b \in SUBSET J, b # {}
      PROVE  /\ UndoneLast(b) \in AliasEntry /\ less(b) \in SUBSET J
             /\ Cardinality(less(b)) = Cardinality(b) - 1
  <2>1. UndoneLast(b) \in b
    BY <1>3, OldestIn
  <2>2. IsFiniteSet(b)
    BY FS_Subset
  <2>3. Cardinality(less(b)) = Cardinality(b) - 1
    BY <2>1, <2>2, FS_RemoveElement
  <2> QED
    BY <2>1, <2>3
<1>4. ASSUME NEW z \in A, NEW b \in SUBSET J, b # {} PROVE UndoAlias(z, UndoneLast(b)) \in A
  BY <1>3, <1>4, UndoType
<1>5. s \in A
  OBVIOUS
<1> HIDE DEF A, less, N
<1> DEFINE Sol(m) == \E f \in [Upto(m) -> A] : \A b \in Upto(m) : f[b] = Val(f, b)
           T == {m \in 0..N : Sol(m)}
<1>6. 0 \in T
  <2> DEFINE f == [b \in Upto(0) |-> s]
  <2>1. \A b \in Upto(0) : b = {}
    BY <1>1
  <2>2. f \in [Upto(0) -> A]
    BY <1>5
  <2>3. \A b \in Upto(0) : f[b] = Val(f, b)
    BY <2>1
  <2> HIDE DEF f, Upto, Val
  <2>4. Sol(0)
    BY <2>2, <2>3
  <2> QED
    BY <1>2, <2>4
<1>7. ASSUME NEW m \in 0..(N - 1), m \in T PROVE m + 1 \in T
  <2>1. PICK f \in [Upto(m) -> A] : \A b \in Upto(m) : f[b] = Val(f, b)
    BY <1>7
  <2> DEFINE g == [b \in Upto(m + 1) |-> IF b \in Upto(m) THEN f[b] ELSE Val(f, b)]
  <2>2. m \in Nat /\ m + 1 \in 0..N
    BY <1>2
  <2>3. Upto(m) \subseteq Upto(m + 1)
    BY <1>1, <2>2
  <2>4. ASSUME NEW b \in Upto(m + 1), b # {} PROVE less(b) \in Upto(m)
    BY <1>1, <1>3, <2>2, <2>4
  <2>5. {} \in Upto(m)
    BY <1>1, <2>2
  <2>6. ASSUME NEW b \in Upto(m + 1) PROVE g[b] \in A /\ g[b] = Val(g, b)
    <3>1. CASE b = {}
      <4>1. g[b] = f[b] /\ f[b] = Val(f, b) /\ f[b] \in A
        BY <2>1, <2>5, <3>1
      <4> QED
        BY <3>1, <4>1
    <3>2. CASE b # {}
      <4>1. less(b) \in Upto(m) /\ less(b) \in Upto(m + 1) /\ b \in SUBSET J
        BY <2>3, <2>4, <3>2
      <4>2. g[less(b)] = f[less(b)] /\ f[less(b)] \in A
        BY <4>1
      <4>3. g[b] = Val(f, b)
        BY <2>1
      <4>4. Val(f, b) = UndoAlias(f[less(b)], UndoneLast(b)) /\ Val(g, b) = UndoAlias(g[less(b)], UndoneLast(b))
        BY <3>2
      <4>5. UndoAlias(f[less(b)], UndoneLast(b)) \in A
        BY <1>4, <3>2, <4>1, <4>2
      <4> HIDE DEF g, Val
      <4> QED
        BY <4>2, <4>3, <4>4, <4>5
    <3> QED
      BY <3>1, <3>2
  <2>7. g \in [Upto(m + 1) -> A]
    <3>1. DOMAIN g = Upto(m + 1) /\ g = [b \in Upto(m + 1) |-> g[b]]
      OBVIOUS
    <3> HIDE DEF g, Upto, Val
    <3> QED
      BY <2>6, <3>1
  <2> HIDE DEF g, Upto, Val
  <2>8. Sol(m + 1)
    BY <2>6, <2>7
  <2> QED
    BY <2>2, <2>8
<1>8. \E f : f = Step(f)
  <2>1. N \in T
    <3> HIDE DEF T
    <3>1. N \in 0..N /\ \A i \in 0..(N - 1) : i \in T => i + 1 \in T
      BY <1>2, <1>7
    <3> QED
      BY <1>2, <1>6, <3>1, UpTo
  <2>2. PICK f \in [Upto(N) -> A] : \A b \in Upto(N) : f[b] = Val(f, b)
    BY <2>1
  <2>3. Upto(N) = SUBSET J
    BY <1>1
  <2> HIDE DEF Upto, Val
  <2>4. f = [b \in SUBSET J |-> f[b]]
    BY <2>2, <2>3
  <2>5. [b \in SUBSET J |-> f[b]] = Step(f)
    BY <2>2, <2>3
  <2> QED
    BY <2>4, <2>5
<1>9. iter = Step(iter)
  <2> HIDE DEF Step
  <2> QED
    BY <1>8
<1>10. ASSUME NEW b \in SUBSET J PROVE iter[b] = Val(iter, b)
  <2>1. iter[b] = Step(iter)[b]
    BY <1>9
  <2> HIDE DEF iter, Val
  <2> QED
    BY <2>1
<1>11. MapThenFoldSet(LAMBDA e, t : UndoAlias(t, e), s, LAMBDA e : e, UndoneLast, J) = iter[J]
  BY DEF MapThenFoldSet, less
<1> HIDE DEF iter
<1> DEFINE W == {m \in 0..N : \A b \in Upto(m) : iter[b] \in A}
<1>12. 0 \in W
  <2>1. \A b \in Upto(0) : b = {}
    BY <1>1
  <2>2. iter[{}] = s
    BY <1>10
  <2> QED
    BY <1>2, <1>5, <2>1, <2>2
<1>13. ASSUME NEW m \in 0..(N - 1), m \in W PROVE m + 1 \in W
  <2>1. m \in Nat /\ m + 1 \in 0..N
    BY <1>2
  <2>2. ASSUME NEW b \in Upto(m + 1) PROVE iter[b] \in A
    <3>1. CASE b = {}
      BY <1>5, <1>10, <3>1
    <3>2. CASE b # {}
      <4>1. less(b) \in Upto(m) /\ b \in SUBSET J
        BY <1>1, <1>3, <2>1, <3>2
      <4>2. iter[less(b)] \in A
        BY <1>13, <4>1
      <4>3. iter[b] = UndoAlias(iter[less(b)], UndoneLast(b))
        BY <1>10, <3>2, <4>1
      <4> QED
        BY <1>4, <3>2, <4>1, <4>2, <4>3
    <3> QED
      BY <3>1, <3>2
  <2> HIDE DEF Upto
  <2> QED
    BY <2>1, <2>2
<1>14. N \in W
  <2> HIDE DEF W
  <2>1. N \in 0..N /\ \A i \in 0..(N - 1) : i \in W => i + 1 \in W
    BY <1>2, <1>13
  <2> QED
    BY <1>2, <1>12, <2>1, UpTo
<1>15. J \in Upto(N)
  BY <1>1, <1>2 DEF N
<1>16. iter[J] \in A
  <2> HIDE DEF Upto
  <2> QED
    BY <1>14, <1>15
<1> QED
  BY <1>11, <1>16 DEF A

LEMMA AliasesRollbackInv ==
  ASSUME NEW s, AliasesInv(s), NEW height \in 1..MaxBlocks
  PROVE  AliasesInv(aliases_rollback(s, height))
<1> DEFINE J == {e \in s.ajournal : e.h >= height}
           y == MapThenFoldSet(LAMBDA e, t : UndoAlias(t, e), s, LAMBDA e : e, UndoneLast, J)
           an == IF height - 1 > 0 THEN height - 1 ELSE 0
           z == aliases_rollback(s, height)
<1>1. s \in AliasStore /\ IsFiniteSet(s.ajournal) /\ s.ajournal \in SUBSET AliasEntry
  BY DEF AliasesInv, AliasStore
<1>2. J \in SUBSET AliasEntry /\ IsFiniteSet(J) /\ IsFiniteSet(s.ajournal \ J)
  <2>1. J \in SUBSET s.ajournal
    OBVIOUS
  <2> HIDE DEF J
  <2> QED
    BY <1>1, <2>1, FS_Subset, FS_Difference
<1>3. y \in AliasStore /\ y.ajournal = s.ajournal
  <2> HIDE DEF J
  <2> QED
    BY <1>1, <1>2, UndoAllType
<1>4. z = [y EXCEPT !.ajournal = @ \ J, !.anchor = an]
  BY DEF aliases_rollback
<1>5. an \in 0..MaxBlocks
  BY TokenAssumption
<1> HIDE DEF y, J, an, z
<1>6. z = [y EXCEPT !.ajournal = s.ajournal \ J, !.anchor = an]
  BY <1>3, <1>4
<1>7. z \in AliasStore /\ z.ajournal = s.ajournal \ J
  BY <1>1, <1>3, <1>5, <1>6 DEF AliasStore
<1>8. AliasesInv(z)
  BY <1>2, <1>7 DEF AliasesInv
<1> QED
  BY <1>8 DEF z

-----------------------------------------------------------------------------
(* The work that is taken from blocks.                                     *)

LEMMA AtType ==
  ASSUME NEW h \in 1..MaxBlocks, NEW body \in Seq(Tx)
  PROVE  At(h, body) \in Seq(Work)
<1>1. DOMAIN body = 1..Len(body) /\ Len(body) \in Nat
  OBVIOUS
<1>2. ASSUME NEW i \in 1..Len(body) PROVE [h |-> h, x |-> body[i]] \in Work
  BY DEF Work
<1>3. [i \in 1..Len(body) |-> [h |-> h, x |-> body[i]]] \in Seq(Work)
  <2> HIDE DEF Work
  <2> QED
    BY <1>1, <1>2
<1> QED
  BY <1>1, <1>3 DEF At

LEMMA OnBlockType ==
  ASSUME NEW h \in 1..MaxBlocks, NEW body \in Seq(Tx)
  PROVE  on_block(h, body) \in Seq(Work)
<1>1. ASSUME NEW ks PROVE OfKind(At(h, body), ks) \in Seq(Work)
  BY AtType, RestrictedType DEF OfKind
<1> HIDE DEF Work
<1> QED
  BY <1>1 DEF on_block

LEMMA ScanType ==
  ASSUME ledger \in Seq(Seq(Tx)), Len(ledger) <= MaxBlocks, NEW from
  PROVE  scan_ledger_operations(from) \in Seq(Work)
<1> DEFINE n == Len(ledger)
           Ops(h) == IF h >= from THEN At(h, ledger[h]) ELSE <<>>
           q == [h \in 1..n |-> Ops(h)]
<1>1. DOMAIN ledger = 1..n /\ n \in Nat /\ n <= MaxBlocks
  OBVIOUS
<1>2. ASSUME NEW h \in 1..n PROVE Ops(h) \in Seq(Work)
  <2>1. h \in 1..MaxBlocks /\ ledger[h] \in Seq(Tx)
    BY <1>1, TokenAssumption
  <2>2. At(h, ledger[h]) \in Seq(Work) /\ <<>> \in Seq(Work)
    BY <2>1, AtType
  <2> QED
    BY <2>2
<1>3. q \in Seq(Seq(Work))
  <2> HIDE DEF n, Ops, Work
  <2> QED
    BY <1>1, <1>2
<1>4. scan_ledger_operations(from) = FlattenSeq(q)
  BY <1>1, Zenon DEF scan_ledger_operations
<1> HIDE DEF q
<1> QED
  BY <1>3, <1>4, FlattenType

LEMMA BackfillType ==
  ASSUME ledger \in Seq(Seq(Tx)), Len(ledger) <= MaxBlocks
  PROVE  backfill \in Seq(Work)
<1>1. ASSUME NEW from, NEW ks PROVE OfKind(scan_ledger_operations(from), ks) \in Seq(Work)
  BY ScanType, RestrictedType DEF OfKind
<1> HIDE DEF Work
<1> QED
  BY <1>1 DEF backfill

-----------------------------------------------------------------------------
(* The inductive invariant of the index. *)

LEMMA IndexInit0 == IndexInit => IndexInv
<1> SUFFICES ASSUME IndexInit PROVE IndexInv
  OBVIOUS
<1>1. TokensInv(ti) /\ AliasesInv(al)
  BY EmptyTokensInv, EmptyAliasesInv DEF IndexInit
<1>2. ledger \in Seq(Seq(Tx)) /\ Len(ledger) <= MaxBlocks
  BY TokenAssumption, SeqMonotonic DEF IndexInit
<1>3. Clean \in Nat
  BY TokenAssumption DEF Clean
<1> QED
  BY <1>1, <1>2, <1>3 DEF IndexInit, IndexInv

LEMMA StaleType ==
  ASSUME dirty \in Nat, NEW height \in Nat, Stale(height)
  PROVE  dirty' \in Nat /\ pristine' \in BOOLEAN
<1>1. dirty' = Min({dirty, height}) /\ pristine' = FALSE
  BY DEF Stale
<1>2. \E m \in {dirty, height} : \A k \in {dirty, height} : m <= k
  OBVIOUS
<1>3. Min({dirty, height}) \in {dirty, height}
  BY <1>2 DEF Min
<1> QED
  BY <1>1, <1>3

LEMMA IndexStep == IndexInv /\ [IndexNext]_indexVars => IndexInv'
<1> SUFFICES ASSUME IndexInv, [IndexNext]_indexVars PROVE IndexInv'
  OBVIOUS
<1>0. /\ phase \in {"down", "backfill", "ready", "project", "tokens", "aliases"}
      /\ ledger \in Seq(Seq(Tx)) /\ Len(ledger) <= MaxBlocks
      /\ block \in Seq(Tx) /\ low \in Nat /\ work \in Seq(Work)
      /\ phase = "project" => Len(ledger) < MaxBlocks
      /\ phase \in {"tokens", "aliases"} => low \in 1..MaxBlocks
      /\ dirty \in Nat /\ pristine \in BOOLEAN
      /\ TokensInv(ti) /\ AliasesInv(al)
  BY DEF IndexInv
<1>1. ti' = ti => TokensInv(ti')
  BY <1>0
<1>2. al' = al => AliasesInv(al')
  BY <1>0
<1>3. <<>> \in Seq(Tx) /\ <<>> \in Seq(Work)
  OBVIOUS
<1> HIDE DEF TokensInv, AliasesInv, Work
<1>4. ASSUME NEW body \in Bodies, dispatch_block(body) PROVE IndexInv'
  <2>1. body \in Seq(Tx)
    BY TokenAssumption
  <2>2. Len(ledger) < MaxBlocks /\ Len(ledger) \in Nat
    BY <1>0, <1>4 DEF dispatch_block
  <2>3. Len(ledger) + 1 \in 1..MaxBlocks
    BY <2>2, TokenAssumption
  <2>4. on_block(Len(ledger) + 1, body) \in Seq(Work)
    BY <2>1, <2>3, OnBlockType
  <2> QED
    BY <1>0, <1>1, <1>2, <1>4, <2>1, <2>2, <2>4 DEF dispatch_block, IndexInv
<1>5. ASSUME Project PROVE IndexInv'
  <2>1. Head(work) \in Work /\ Tail(work) \in Seq(Work)
    BY <1>0, <1>5 DEF Project
  <2>2. TokensInv(ti') /\ AliasesInv(al')
    BY <1>0, <1>5, <2>1, ApplyTokenInv, ApplyAliasInv DEF Project
  <2> QED
    BY <1>0, <1>5, <2>1, <2>2 DEF Project, IndexInv
<1>6. ASSUME commit_block PROVE IndexInv'
  <2>1. Append(ledger, block) \in Seq(Seq(Tx)) /\ Len(Append(ledger, block)) <= MaxBlocks
    BY <1>0, <1>6, TokenAssumption DEF commit_block
  <2> QED
    BY <1>0, <1>1, <1>2, <1>3, <1>6, <2>1 DEF commit_block, Ready, IndexInv
<1>7. ASSUME Refuse PROVE IndexInv'
  <2>1. dirty' \in Nat /\ pristine' \in BOOLEAN
    BY <1>0, <1>7, StaleType DEF Refuse
  <2> QED
    BY <1>0, <1>1, <1>2, <1>3, <1>7, <2>1 DEF Refuse, Ready, IndexInv
<1>8. ASSUME NEW height \in DOMAIN ledger, rollback_under(height) PROVE IndexInv'
  <2>1. height \in 1..Len(ledger) /\ Len(ledger) \in Nat
    BY <1>0
  <2>2. height \in 1..MaxBlocks /\ height \in Nat
    BY <1>0, <2>1, TokenAssumption
  <2>3. SubSeq(ledger, 1, height - 1) \in Seq(Seq(Tx)) /\ Len(SubSeq(ledger, 1, height - 1)) <= MaxBlocks
    <3>1. /\ SubSeq(ledger, 1, height - 1) \in Seq(Seq(Tx))
          /\ Len(SubSeq(ledger, 1, height - 1)) = height - 1
      BY <1>0, <2>1
    <3> QED
      BY <2>2, <3>1, TokenAssumption
  <2> QED
    BY <1>0, <1>1, <1>2, <1>8, <2>2, <2>3 DEF rollback_under, IndexInv
<1>9. ASSUME RollbackTokens PROVE IndexInv'
  <2>1. TokensInv(ti')
    BY <1>0, <1>9, RollbackInv DEF RollbackTokens
  <2>2. dirty' \in Nat
    BY <1>0, <1>9, TokenAssumption DEF RollbackTokens, Clean
  <2> QED
    BY <1>0, <1>2, <1>9, <2>1, <2>2 DEF RollbackTokens, IndexInv
<1>10. ASSUME RollbackAliases PROVE IndexInv'
  <2>1. AliasesInv(al')
    BY <1>0, <1>10, AliasesRollbackInv DEF RollbackAliases
  <2> QED
    BY <1>0, <1>1, <1>3, <1>10, <2>1 DEF RollbackAliases, Ready, IndexInv
<1>11. ASSUME Die PROVE IndexInv'
  <2>1. dirty' \in Nat /\ pristine' \in BOOLEAN
    <3>1. CASE Stale(low)
      BY <1>0, <3>1, StaleType
    <3>2. CASE UNCHANGED dirty /\ pristine' = FALSE
      BY <1>0, <3>2
    <3> QED
      BY <1>11, <3>1, <3>2 DEF Die
  <2> QED
    BY <1>0, <1>1, <1>2, <1>3, <1>11, <2>1 DEF Die, IndexInv
<1>12. ASSUME start PROVE IndexInv'
  <2>1. backfill \in Seq(Work)
    BY <1>0, BackfillType
  <2>2. ti.anchor \in Nat
    BY <1>0 DEF TokensInv, TokenStore
  <2> HIDE DEF backfill
  <2> QED
    BY <1>0, <1>1, <1>2, <1>12, <2>1, <2>2 DEF start, IndexInv
<1>13. ASSUME BackfillDone PROVE IndexInv'
  BY <1>0, <1>1, <1>2, <1>3, <1>13 DEF BackfillDone, Ready, IndexInv
<1>14. ASSUME UNCHANGED indexVars PROVE IndexInv'
  BY <1>0, <1>1, <1>2, <1>14 DEF indexVars, IndexInv
<1> QED
  BY <1>4, <1>5, <1>6, <1>7, <1>8, <1>9, <1>10, <1>11, <1>12, <1>13, <1>14 DEF IndexNext

LEMMA IndexInvConsistent == IndexInv => Consistent
<1> SUFFICES ASSUME IndexInv PROVE Consistent
  OBVIOUS
<1>1. IndexesMatchJournal /\ \A g, k \in ti.tokreg : g.tok = k.tok => g = k
  BY TokensMatch DEF IndexInv
<1>2. /\ ti.anchor \in 0..MaxBlocks /\ ti.seen \subseteq Tx
      /\ ti.addrtok \in [Party \X Name -> Nat] /\ ti.tokset \in [Name -> Nat]
  BY DEF IndexInv, TokensInv, TokenStore
<1>3. al.anchor \in 0..MaxBlocks /\ al.fwd \in [Name -> [a : Party, h : Nat]]
  BY DEF IndexInv, AliasesInv, AliasStore, Owner
<1>4. work \in Seq(EntryType)
  <2>1. Work \subseteq EntryType /\ work \in Seq(Work)
    BY TokenAssumption DEF Work, EntryType, IndexInv
  <2> HIDE DEF Work, EntryType
  <2> QED
    BY <2>1, SeqMonotonic
<1>5. TypeOK
  BY <1>1, <1>2, <1>3, <1>4 DEF IndexInv, TypeOK
<1> QED
  BY <1>1, <1>5 DEF Consistent

(* The invariant holds in every reachable state. *)
THEOREM IndexInvariant == IndexSpec => []IndexInv
<1>1. IndexInit => IndexInv
  BY IndexInit0
<1>2. IndexInv /\ [IndexNext]_indexVars => IndexInv'
  BY IndexStep
<1> QED
  BY <1>1, <1>2, PTL DEF IndexSpec

(* The materialised indexes always say what the journal says, whatever is  *)
(* applied, undone or cut short (token_index.py).                          *)
THEOREM AlwaysIndexConsistent == IndexSpec => []Consistent
<1>1. IndexInv => Consistent
  BY IndexInvConsistent
<1> QED
  BY <1>1, IndexInvariant, PTL

-----------------------------------------------------------------------------
(* Sums over finite sets.                                                  *)

(* A finite set is built by adding its elements one by one. *)
LEMMA OneByOne ==
  ASSUME NEW S, IsFiniteSet(S), NEW T, {} \in T,
         \A A \in SUBSET S, x \in S : A \in T /\ x \notin A => A \cup {x} \in T
  PROVE  S \in T
<1> DEFINE N == Cardinality(S)
           M == {m \in 0..N : \A A \in SUBSET S : Cardinality(A) = m => A \in T}
<1>1. N \in Nat /\ \A A \in SUBSET S : IsFiniteSet(A) /\ Cardinality(A) \in Nat /\ (Cardinality(A) = 0 <=> A = {})
  BY FS_CardinalityType, FS_Subset, FS_EmptySet
<1>2. 0 \in M
  <2>1. ASSUME NEW A \in SUBSET S, Cardinality(A) = 0 PROVE A \in T
    <3>1. A = {}
      BY <1>1, <2>1
    <3> QED
      BY <3>1
  <2>2. 0 \in 0..N
    BY <1>1
  <2> QED
    BY <2>1, <2>2
<1>3. ASSUME NEW m \in 0..(N - 1), m \in M PROVE m + 1 \in M
  <2>1. m + 1 \in 0..N /\ m + 1 # 0 /\ (m + 1) - 1 = m
    BY <1>1
  <2>2. ASSUME NEW A \in SUBSET S, Cardinality(A) = m + 1 PROVE A \in T
    <3>1. A # {}
      BY <1>1, <2>1, <2>2
    <3>2. PICK x \in A : TRUE
      BY <3>1
    <3>3. Cardinality(A \ {x}) = m
      BY <1>1, <2>1, <2>2, FS_RemoveElement
    <3>4. A \ {x} \in T
      BY <1>3, <3>3
    <3>5. (A \ {x}) \cup {x} = A /\ A \ {x} \in SUBSET S /\ x \in S
      OBVIOUS
    <3> QED
      BY <3>4, <3>5
  <2> QED
    BY <2>1, <2>2
<1>4. N \in M
  <2>1. N \in 0..N /\ \A i \in 0..(N - 1) : i \in M => i + 1 \in M
    BY <1>1, <1>3
  <2> HIDE DEF M, N
  <2> QED
    BY <1>1, <1>2, <2>1, UpTo
<1> QED
  BY <1>4

(* The sums of f over the subsets of S, taking an element at a time. *)
Chosen(b) == CHOOSE x \in b : TRUE
Obeys(g, f, S) ==
    \A b \in SUBSET S : g[b] = IF b = {} THEN 0 ELSE f[Chosen(b)] + g[b \ {Chosen(b)}]
Tallies(f, S) ==
    {g \in [SUBSET S -> Int] : Obeys(g, f, S)}
Total(f, S) == (CHOOSE g \in Tallies(f, S) : TRUE)[S]

LEMMA ChosenIn ==
  ASSUME NEW S, NEW b \in SUBSET S, IsFiniteSet(S), b # {}
  PROVE  /\ Chosen(b) \in b /\ b \ {Chosen(b)} \in SUBSET S
         /\ Cardinality(b) \in Nat \ {0} /\ Cardinality(b) <= Cardinality(S)
         /\ Cardinality(b \ {Chosen(b)}) = Cardinality(b) - 1
<1>1. Chosen(b) \in b
  BY DEF Chosen
<1>2. IsFiniteSet(b) /\ Cardinality(b) \in Nat /\ Cardinality(b) # 0 /\ Cardinality(b) <= Cardinality(S)
  BY FS_Subset, FS_CardinalityType, FS_EmptySet
<1> QED
  BY <1>1, <1>2, FS_RemoveElement

LEMMA TallyExists ==
  ASSUME NEW X, NEW f \in [X -> Int], NEW S \in SUBSET X, IsFiniteSet(S)
  PROVE  Tallies(f, S) # {}
<1> DEFINE N == Cardinality(S)
           Upto(m) == {b \in SUBSET S : Cardinality(b) <= m}
           less(b) == b \ {Chosen(b)}
           Val(g, b) == IF b = {} THEN 0 ELSE f[Chosen(b)] + g[less(b)]
<1>1. ASSUME NEW b \in SUBSET S
      PROVE  Cardinality(b) \in Nat /\ Cardinality(b) <= N /\ (Cardinality(b) = 0 <=> b = {})
  BY FS_Subset, FS_CardinalityType, FS_EmptySet
<1>2. N \in Nat
  BY FS_CardinalityType
<1>3. ASSUME NEW b \in SUBSET S, b # {}
      PROVE  f[Chosen(b)] \in Int /\ less(b) \in SUBSET S /\ Cardinality(less(b)) = Cardinality(b) - 1
  BY <1>3, ChosenIn
<1> HIDE DEF less, N
<1> DEFINE Sol(m) == \E g \in [Upto(m) -> Int] : \A b \in Upto(m) : g[b] = Val(g, b)
           T == {m \in 0..N : Sol(m)}
<1>6. 0 \in T
  <2> DEFINE g == [b \in Upto(0) |-> 0]
  <2>1. \A b \in Upto(0) : b = {}
    BY <1>1
  <2>2. g \in [Upto(0) -> Int]
    OBVIOUS
  <2>3. \A b \in Upto(0) : g[b] = Val(g, b)
    BY <2>1
  <2> HIDE DEF g, Upto, Val
  <2>4. Sol(0)
    BY <2>2, <2>3
  <2> QED
    BY <1>2, <2>4
<1>7. ASSUME NEW m \in 0..(N - 1), m \in T PROVE m + 1 \in T
  <2>1. PICK g \in [Upto(m) -> Int] : \A b \in Upto(m) : g[b] = Val(g, b)
    BY <1>7
  <2> DEFINE k == [b \in Upto(m + 1) |-> IF b \in Upto(m) THEN g[b] ELSE Val(g, b)]
  <2>2. m \in Nat /\ m + 1 \in 0..N
    BY <1>2
  <2>3. Upto(m) \subseteq Upto(m + 1)
    BY <1>1, <2>2
  <2>4. ASSUME NEW b \in Upto(m + 1), b # {} PROVE less(b) \in Upto(m)
    BY <1>1, <1>3, <2>2, <2>4
  <2>5. {} \in Upto(m)
    BY <1>1, <2>2
  <2>6. ASSUME NEW b \in Upto(m + 1) PROVE k[b] \in Int /\ k[b] = Val(k, b)
    <3>1. CASE b = {}
      <4>1. k[b] = g[b] /\ g[b] = Val(g, b) /\ g[b] \in Int
        BY <2>1, <2>5, <3>1
      <4> QED
        BY <3>1, <4>1
    <3>2. CASE b # {}
      <4>1. less(b) \in Upto(m) /\ less(b) \in Upto(m + 1) /\ b \in SUBSET S
        BY <2>3, <2>4, <3>2
      <4>2. k[less(b)] = g[less(b)] /\ g[less(b)] \in Int
        BY <4>1
      <4>3. k[b] = Val(g, b)
        BY <2>1
      <4>4. Val(g, b) = f[Chosen(b)] + g[less(b)] /\ Val(k, b) = f[Chosen(b)] + k[less(b)]
        BY <3>2
      <4>5. f[Chosen(b)] \in Int
        BY <1>3, <3>2, <4>1
      <4> HIDE DEF k, Val
      <4> QED
        BY <4>2, <4>3, <4>4, <4>5
    <3> QED
      BY <3>1, <3>2
  <2>7. k \in [Upto(m + 1) -> Int]
    <3>1. DOMAIN k = Upto(m + 1) /\ k = [b \in Upto(m + 1) |-> k[b]]
      OBVIOUS
    <3> HIDE DEF k, Upto, Val
    <3> QED
      BY <2>6, <3>1
  <2> HIDE DEF k, Upto, Val
  <2>8. Sol(m + 1)
    BY <2>6, <2>7
  <2> QED
    BY <2>2, <2>8
<1>8. N \in T
  <2> HIDE DEF T
  <2>1. N \in 0..N /\ \A i \in 0..(N - 1) : i \in T => i + 1 \in T
    BY <1>2, <1>7
  <2> QED
    BY <1>2, <1>6, <2>1, UpTo
<1>9. PICK g \in [Upto(N) -> Int] : \A b \in Upto(N) : g[b] = Val(g, b)
  BY <1>8
<1>10. Upto(N) = SUBSET S
  BY <1>1
<1>11. g \in Tallies(f, S)
  <2> HIDE DEF Upto
  <2> QED
    BY <1>9, <1>10 DEF Tallies, Obeys, less
<1> QED
  BY <1>11

(* Whatever obeys the recursion has the same values. *)
LEMMA TallyUnique ==
  ASSUME NEW X, NEW f \in [X -> Int], NEW S \in SUBSET X, IsFiniteSet(S), NEW g \in Tallies(f, S),
         NEW k, Obeys(k, f, S)
  PROVE  \A b \in SUBSET S : k[b] = g[b]
<1> DEFINE N == Cardinality(S)
           T == {m \in 0..N : \A b \in SUBSET S : Cardinality(b) = m => k[b] = g[b]}
<1>1. ASSUME NEW b \in SUBSET S
      PROVE  Cardinality(b) \in Nat /\ Cardinality(b) <= N /\ (Cardinality(b) = 0 <=> b = {})
  BY FS_Subset, FS_CardinalityType, FS_EmptySet
<1>2. N \in Nat
  BY FS_CardinalityType
<1>3. /\ \A b \in SUBSET S : g[b] = IF b = {} THEN 0 ELSE f[Chosen(b)] + g[b \ {Chosen(b)}]
      /\ \A b \in SUBSET S : k[b] = IF b = {} THEN 0 ELSE f[Chosen(b)] + k[b \ {Chosen(b)}]
  BY DEF Tallies, Obeys
<1>4. 0 \in T
  <2>1. k[{}] = 0 /\ g[{}] = 0
    BY <1>3
  <2>2. ASSUME NEW b \in SUBSET S, Cardinality(b) = 0 PROVE k[b] = g[b]
    <3>1. b = {}
      BY <1>1, <2>2
    <3> QED
      BY <2>1, <3>1
  <2> QED
    BY <1>2, <2>2
<1>5. ASSUME NEW m \in 0..(N - 1), m \in T PROVE m + 1 \in T
  <2>1. m + 1 \in 0..N /\ m + 1 # 0 /\ (m + 1) - 1 = m
    BY <1>2
  <2>2. ASSUME NEW b \in SUBSET S, Cardinality(b) = m + 1 PROVE k[b] = g[b]
    <3>1. b # {}
      BY <1>1, <2>1, <2>2
    <3> DEFINE c == b \ {Chosen(b)}
    <3>2. c \in SUBSET S /\ Cardinality(c) = m
      BY <2>1, <2>2, <3>1, ChosenIn
    <3>3. k[c] = g[c]
      BY <1>5, <3>2
    <3>4. k[b] = f[Chosen(b)] + k[c] /\ g[b] = f[Chosen(b)] + g[c]
      BY <1>3, <3>1
    <3> QED
      BY <3>3, <3>4
  <2> QED
    BY <2>1, <2>2
<1>6. \A i \in 0..N : i \in T
  <2>1. \A i \in 0..(N - 1) : i \in T => i + 1 \in T
    BY <1>5
  <2> HIDE DEF T, N
  <2> QED
    BY <1>2, <1>4, <2>1, UpTo
<1>7. ASSUME NEW b \in SUBSET S PROVE k[b] = g[b]
  <2>1. Cardinality(b) \in 0..N
    BY <1>1, <1>2
  <2> QED
    BY <1>6, <2>1
<1> QED
  BY <1>7

LEMMA TotalIs ==
  ASSUME NEW X, NEW f \in [X -> Int], NEW S \in SUBSET X, IsFiniteSet(S), NEW g \in Tallies(f, S),
         NEW b \in SUBSET S
  PROVE  Total(f, b) = g[b] /\ Total(f, b) \in Int
<1>1. b \in SUBSET X /\ IsFiniteSet(b)
  BY FS_Subset
<1>2. Tallies(f, b) # {}
  BY <1>1, TallyExists
<1> DEFINE k == CHOOSE z \in Tallies(f, b) : TRUE
<1>3. k \in Tallies(f, b) /\ Total(f, b) = k[b]
  BY <1>2 DEF Total
<1> HIDE DEF k
<1>4. Obeys(g, f, S)
  BY DEF Tallies
<1>5. SUBSET b \subseteq SUBSET S
  OBVIOUS
<1>6. Obeys(g, f, b)
  BY <1>4, <1>5, Zenon DEF Obeys
<1>7. \A c \in SUBSET b : g[c] = k[c]
  BY <1>1, <1>3, <1>6, TallyUnique
<1>8. g[b] \in Int
  BY DEF Tallies
<1> QED
  BY <1>3, <1>7, <1>8

LEMMA TotalStep ==
  ASSUME NEW X, NEW f \in [X -> Int], NEW S \in SUBSET X, IsFiniteSet(S)
  PROVE  /\ Total(f, S) \in Int
         /\ S = {} => Total(f, S) = 0
         /\ S # {} => Total(f, S) = f[Chosen(S)] + Total(f, S \ {Chosen(S)})
<1>1. PICK g \in Tallies(f, S) : TRUE
  BY TallyExists
<1>2. Total(f, S) = g[S] /\ Total(f, S) \in Int
  BY TotalIs
<1>3. Total(f, S \ {Chosen(S)}) = g[S \ {Chosen(S)}]
  BY TotalIs
<1>4. g[S] = IF S = {} THEN 0 ELSE f[Chosen(S)] + g[S \ {Chosen(S)}]
  BY DEF Tallies, Obeys
<1> QED
  BY <1>2, <1>3, <1>4

(* The sum does not depend on the order. *)
LEMMA TotalRemove ==
  ASSUME NEW X, NEW f \in [X -> Int], NEW S \in SUBSET X, IsFiniteSet(S), NEW x \in S
  PROVE  Total(f, S) = f[x] + Total(f, S \ {x})
<1> DEFINE N == Cardinality(S)
           OK(b) == \A y \in b : Total(f, b) = f[y] + Total(f, b \ {y})
           T == {m \in 0..N : \A b \in SUBSET S : Cardinality(b) = m => OK(b)}
<1>1. ASSUME NEW b \in SUBSET S
      PROVE  /\ Cardinality(b) \in Nat /\ Cardinality(b) <= N /\ (Cardinality(b) = 0 <=> b = {})
             /\ IsFiniteSet(b) /\ b \in SUBSET X
  BY FS_Subset, FS_CardinalityType, FS_EmptySet
<1>2. N \in Nat
  BY FS_CardinalityType
<1>3. 0 \in T
  BY <1>1, <1>2
<1>4. ASSUME NEW m \in 0..(N - 1), m \in T PROVE m + 1 \in T
  <2>1. m + 1 \in 0..N /\ m + 1 # 0 /\ (m + 1) - 1 = m
    BY <1>2
  <2>2. ASSUME NEW b \in SUBSET S, Cardinality(b) = m + 1, NEW y \in b
        PROVE  Total(f, b) = f[y] + Total(f, b \ {y})
    <3> DEFINE c == Chosen(b)
    <3>1. c \in b /\ c \in X /\ y \in X /\ IsFiniteSet(b) /\ b \in SUBSET X
      BY <1>1, ChosenIn
    <3>2. Total(f, b) = f[c] + Total(f, b \ {c})
      BY <3>1, TotalStep
    <3>3. CASE c = y
      BY <3>2, <3>3
    <3> HIDE DEF c
    <3>4. CASE c # y
      <4>1. b \ {c} \in SUBSET S /\ Cardinality(b \ {c}) = m
        BY <2>1, <2>2, <3>1, FS_RemoveElement
      <4>2. b \ {y} \in SUBSET S /\ Cardinality(b \ {y}) = m
        BY <2>1, <2>2, <3>1, FS_RemoveElement
      <4>3. OK(b \ {c}) /\ OK(b \ {y})
        BY <1>4, <4>1, <4>2
      <4>4. Total(f, b \ {c}) = f[y] + Total(f, (b \ {c}) \ {y})
        BY <3>4, <4>3
      <4>5. Total(f, b \ {y}) = f[c] + Total(f, (b \ {y}) \ {c})
        BY <3>1, <3>4, <4>3
      <4>6. Total(f, (b \ {c}) \ {y}) = Total(f, (b \ {y}) \ {c})
        <5>1. (b \ {c}) \ {y} = (b \ {y}) \ {c}
          OBVIOUS
        <5> QED
          BY <5>1
      <4>7. f[c] \in Int /\ f[y] \in Int /\ Total(f, (b \ {y}) \ {c}) \in Int
        <5>1. (b \ {y}) \ {c} \in SUBSET S
          OBVIOUS
        <5>2. (b \ {y}) \ {c} \in SUBSET X /\ IsFiniteSet((b \ {y}) \ {c})
          BY <1>1, <5>1
        <5> QED
          BY <3>1, <5>2, TotalStep
      <4> QED
        BY <3>2, <4>4, <4>5, <4>6, <4>7
    <3> QED
      BY <3>3, <3>4
  <2> QED
    BY <2>1, <2>2
<1>5. N \in T
  <2>1. N \in 0..N /\ \A i \in 0..(N - 1) : i \in T => i + 1 \in T
    BY <1>2, <1>4
  <2> HIDE DEF T, N
  <2> QED
    BY <1>2, <1>3, <2>1, UpTo
<1> QED
  BY <1>5

LEMMA TotalAdd ==
  ASSUME NEW X, NEW f \in [X -> Int], NEW S \in SUBSET X, IsFiniteSet(S), NEW x \in X, x \notin S
  PROVE  Total(f, S \cup {x}) = Total(f, S) + f[x] /\ Total(f, S) \in Int
<1>1. S \cup {x} \in SUBSET X /\ IsFiniteSet(S \cup {x}) /\ x \in S \cup {x} /\ (S \cup {x}) \ {x} = S
  BY FS_AddElement
<1>2. Total(f, S \cup {x}) = f[x] + Total(f, (S \cup {x}) \ {x})
  BY <1>1, TotalRemove
<1>3. Total(f, S) \in Int /\ f[x] \in Int
  BY TotalStep
<1>4. Total(f, (S \cup {x}) \ {x}) = Total(f, S)
  BY <1>1, Zenon
<1> QED
  BY <1>2, <1>3, <1>4

(* Only the values on the set matter. *)
LEMMA TotalSame ==
  ASSUME NEW X, NEW f \in [X -> Int], NEW Y, NEW g \in [Y -> Int], NEW S \in SUBSET X, S \in SUBSET Y,
         IsFiniteSet(S), \A x \in S : f[x] = g[x]
  PROVE  Total(f, S) = Total(g, S)
<1>1. PICK h \in Tallies(f, S) : TRUE
  BY TallyExists
<1>2. ASSUME NEW b \in SUBSET S
      PROVE  h[b] = IF b = {} THEN 0 ELSE g[Chosen(b)] + h[b \ {Chosen(b)}]
  <2>1. b # {} => Chosen(b) \in S
    BY DEF Chosen
  <2>2. h[b] = IF b = {} THEN 0 ELSE f[Chosen(b)] + h[b \ {Chosen(b)}]
    BY DEF Tallies, Obeys
  <2> QED
    BY <2>1, <2>2
<1>3. h \in Tallies(g, S)
  BY <1>2 DEF Tallies, Obeys
<1> QED
  BY <1>3, TotalIs

(* A sum of nothing negative grows with the set. *)
LEMMA TotalNotNegative ==
  ASSUME NEW X, NEW f \in [X -> Int], NEW S \in SUBSET X, IsFiniteSet(S), \A x \in S : f[x] >= 0
  PROVE  Total(f, S) >= 0
<1> DEFINE T == {A \in SUBSET S : Total(f, A) >= 0}
<1>1. {} \in T
  <2>1. {} \in SUBSET X /\ IsFiniteSet({})
    BY FS_EmptySet
  <2>2. Total(f, {}) = 0
    BY <2>1, TotalStep
  <2> QED
    BY <2>2
<1>2. ASSUME NEW A \in SUBSET S, NEW x \in S, A \in T, x \notin A PROVE A \cup {x} \in T
  <2>1. IsFiniteSet(A) /\ A \in SUBSET X /\ x \in X
    BY FS_Subset
  <2>2. Total(f, A \cup {x}) = Total(f, A) + f[x] /\ Total(f, A) \in Int
    BY <1>2, <2>1, TotalAdd
  <2>3. Total(f, A) >= 0 /\ f[x] >= 0 /\ f[x] \in Int
    BY <1>2
  <2> QED
    BY <2>2, <2>3
<1>3. S \in T
  <2> HIDE DEF T
  <2> QED
    BY <1>1, <1>2, OneByOne
<1> QED
  BY <1>3

LEMMA TotalUnion ==
  ASSUME NEW X, NEW f \in [X -> Int], NEW S \in SUBSET X, IsFiniteSet(S), NEW K \in SUBSET X,
         IsFiniteSet(K), S \cap K = {}
  PROVE  Total(f, S \cup K) = Total(f, S) + Total(f, K) /\ Total(f, S) \in Int /\ Total(f, K) \in Int
<1> DEFINE T == {A \in SUBSET K : Total(f, S \cup A) = Total(f, S) + Total(f, A)}
<1>0. Total(f, S) \in Int /\ Total(f, K) \in Int
  BY TotalStep
<1>1. {} \in T
  <2>1. Total(f, {}) = 0 /\ S \cup {} = S
    BY TotalStep, FS_EmptySet
  <2> QED
    BY <1>0, <2>1
<1>2. ASSUME NEW A \in SUBSET K, NEW x \in K, A \in T, x \notin A PROVE A \cup {x} \in T
  <2>1. IsFiniteSet(A) /\ A \in SUBSET X /\ x \in X /\ f[x] \in Int
    BY FS_Subset
  <2>2. Total(f, A \cup {x}) = Total(f, A) + f[x] /\ Total(f, A) \in Int
    BY <1>2, <2>1, TotalAdd
  <2>3. S \cup A \in SUBSET X /\ IsFiniteSet(S \cup A) /\ x \notin S \cup A
    <3>1. IsFiniteSet(S \cup A)
      BY <2>1, FS_Union
    <3> QED
      BY <1>2, <2>1, <3>1
  <2>4. Total(f, (S \cup A) \cup {x}) = Total(f, S \cup A) + f[x]
    <3> DEFINE U == S \cup A
    <3>1. U \in SUBSET X /\ IsFiniteSet(U) /\ x \notin U /\ x \in X
      BY <2>1, <2>3
    <3> HIDE DEF U
    <3>2. Total(f, U \cup {x}) = Total(f, U) + f[x]
      BY <3>1, TotalAdd
    <3> QED
      BY <3>2 DEF U
  <2>5. Total(f, S \cup (A \cup {x})) = Total(f, (S \cup A) \cup {x})
    <3>1. S \cup (A \cup {x}) = (S \cup A) \cup {x}
      OBVIOUS
    <3> QED
      BY <3>1
  <2>6. Total(f, S \cup A) = Total(f, S) + Total(f, A)
    BY <1>2
  <2>7. Total(f, S \cup (A \cup {x})) = Total(f, S) + Total(f, A \cup {x})
    BY <1>0, <2>1, <2>2, <2>4, <2>5, <2>6
  <2> QED
    BY <2>7
<1>3. K \in T
  <2> HIDE DEF T
  <2> QED
    BY <1>1, <1>2, OneByOne
<1> QED
  BY <1>0, <1>3

(* One more at one place is one more in the sum. *)
LEMMA TotalPoint ==
  ASSUME NEW X, IsFiniteSet(X), NEW f \in [X -> Int], NEW p \in X, NEW v \in Int,
         NEW g \in [X -> Int], g[p] = f[p] + v, \A x \in X : x # p => g[x] = f[x]
  PROVE  Total(g, X) = Total(f, X) + v
<1>1. Total(f, X) = f[p] + Total(f, X \ {p}) /\ Total(g, X) = g[p] + Total(g, X \ {p})
  BY TotalRemove
<1>2. IsFiniteSet(X \ {p}) /\ X \ {p} \in SUBSET X
  BY FS_Subset
<1>3. Total(f, X \ {p}) = Total(g, X \ {p})
  BY <1>2, TotalSame
<1>4. Total(f, X \ {p}) \in Int /\ f[p] \in Int
  BY <1>2, TotalStep
<1> QED
  BY <1>1, <1>3, <1>4

LEMMA TotalZero ==
  ASSUME NEW X, NEW f \in [X -> Int], NEW S \in SUBSET X, IsFiniteSet(S), \A x \in S : f[x] = 0
  PROVE  Total(f, S) = 0
<1> DEFINE T == {A \in SUBSET S : Total(f, A) = 0}
<1>1. {} \in T
  <2>1. {} \in SUBSET X /\ IsFiniteSet({})
    BY FS_EmptySet
  <2>2. Total(f, {}) = 0
    BY <2>1, TotalStep
  <2> QED
    BY <2>2
<1>2. ASSUME NEW A \in SUBSET S, NEW x \in S, A \in T, x \notin A PROVE A \cup {x} \in T
  <2>1. IsFiniteSet(A) /\ A \in SUBSET X /\ x \in X
    BY FS_Subset
  <2>2. Total(f, A \cup {x}) = Total(f, A) + f[x]
    BY <1>2, <2>1, TotalAdd
  <2>3. Total(f, A) = 0 /\ f[x] = 0
    BY <1>2
  <2> QED
    BY <2>2, <2>3
<1>3. S \in T
  <2> HIDE DEF T
  <2> QED
    BY <1>1, <1>2, OneByOne
<1> QED
  BY <1>3

-----------------------------------------------------------------------------
(* The sums of the model are totals.                                       *)

LEMMA SumIs ==
  ASSUME NEW S, IsFiniteSet(S), \A r \in S : r.amt \in Int
  PROVE  Sum(S) = Total([r \in S |-> r.amt], S)
<1> DEFINE f == [r \in S |-> r.amt]
           less(b) == b \ {Chosen(b)}
           Step(g) == [b \in SUBSET S |-> IF b = {} THEN 0 ELSE Chosen(b).amt + g[less(b)]]
           iter == CHOOSE g : g = Step(g)
<1>1. f \in [S -> Int] /\ S \in SUBSET S
  OBVIOUS
<1>2. \A b \in SUBSET S : b # {} => Chosen(b) \in S /\ f[Chosen(b)] = Chosen(b).amt
  BY DEF Chosen
<1> HIDE DEF f
<1>3. PICK h \in Tallies(f, S) : TRUE
  BY <1>1, TallyExists
<1>4. h = Step(h)
  <2>1. h \in [SUBSET S -> Int] /\ Obeys(h, f, S)
    BY <1>3 DEF Tallies
  <2>2. ASSUME NEW b \in SUBSET S PROVE h[b] = Step(h)[b]
    BY <1>2, <2>1 DEF Obeys
  <2> QED
    BY <2>1, <2>2
<1>5. iter = Step(iter)
  <2> HIDE DEF Step
  <2> QED
    BY <1>4
<1>6. Obeys(iter, f, S)
  <2> SUFFICES ASSUME NEW b \in SUBSET S
               PROVE  iter[b] = IF b = {} THEN 0 ELSE f[Chosen(b)] + iter[less(b)]
    BY DEF Obeys
  <2>1. iter[b] = Step(iter)[b]
    BY <1>5
  <2> HIDE DEF iter
  <2> QED
    BY <1>2, <2>1
<1>7. Sum(S) = iter[S]
  BY DEF Sum, MapThenSumSet, MapThenFoldSet, Chosen
<1> HIDE DEF iter
<1>8. iter[S] = h[S] /\ Total(f, S) = h[S]
  BY <1>1, <1>3, <1>6, TallyUnique, TotalIs
<1> QED
  BY <1>7, <1>8 DEF f

LEMMA SupplyIs ==
  ASSUME NEW t, NEW B \in [Party -> Int], \A a \in Party : B[a] = token_balance(t, a),
         NEW S, S = {a \in Party : token_balance(t, a) > 0}, IsFiniteSet(S)
  PROVE  token_detail_supply(t) = Total(B, S)
<1> DEFINE less(b) == b \ {Chosen(b)}
           Step(g) == [b \in SUBSET S |-> IF b = {} THEN 0 ELSE token_balance(t, Chosen(b)) + g[less(b)]]
           iter == CHOOSE g : g = Step(g)
<1>1. S \in SUBSET Party
  OBVIOUS
<1>2. \A b \in SUBSET S : b # {} => Chosen(b) \in S /\ B[Chosen(b)] = token_balance(t, Chosen(b))
  BY <1>1 DEF Chosen
<1>3. PICK h \in Tallies(B, S) : TRUE
  BY <1>1, TallyExists
<1>4. h = Step(h)
  <2>1. h \in [SUBSET S -> Int] /\ Obeys(h, B, S)
    BY <1>3 DEF Tallies
  <2>2. ASSUME NEW b \in SUBSET S PROVE h[b] = Step(h)[b]
    BY <1>2, <2>1 DEF Obeys
  <2> QED
    BY <2>1, <2>2
<1>5. iter = Step(iter)
  <2> HIDE DEF Step
  <2> QED
    BY <1>4
<1>6. Obeys(iter, B, S)
  <2> SUFFICES ASSUME NEW b \in SUBSET S
               PROVE  iter[b] = IF b = {} THEN 0 ELSE B[Chosen(b)] + iter[less(b)]
    BY DEF Obeys
  <2>1. iter[b] = Step(iter)[b]
    BY <1>5
  <2> HIDE DEF iter
  <2> QED
    BY <1>2, <2>1
<1>7. token_detail_supply(t) = iter[S]
  BY DEF token_detail_supply, MapThenSumSet, MapThenFoldSet, Chosen
<1> HIDE DEF iter
<1>8. iter[S] = h[S] /\ Total(B, S) = h[S]
  BY <1>1, <1>3, <1>6, TallyUnique, TotalIs
<1> QED
  BY <1>7, <1>8

-----------------------------------------------------------------------------
(* What a party has got and sent, by the journal.                          *)

Amt == [r \in Entry |-> r.amt]
RowAmt == [r \in Row |-> r.amt]
GotBelow(J, a, t, H) == {r \in Got(J, a, t) : r.h < H}
SentBelow(J, a, t, H) == {r \in Sent(J, a, t) : r.h < H}
Held(J, a, t, H) == Total(Amt, GotBelow(J, a, t, H)) - Total(Amt, SentBelow(J, a, t, H))

LEMMA AmtType == Amt \in [Entry -> Int] /\ RowAmt \in [Row -> Int]
BY DEF Amt, RowAmt, Entry, Row

LEMMA RowSum ==
  ASSUME NEW C \in SUBSET Row, IsFiniteSet(C)
  PROVE  Sum(C) = Total(RowAmt, C)
<1> DEFINE f == [r \in C |-> r.amt]
<1>1. \A r \in C : r.amt \in Int
  BY DEF Row
<1>2. Sum(C) = Total(f, C)
  BY <1>1, SumIs
<1>3. f \in [C -> Int] /\ C \in SUBSET C /\ \A r \in C : f[r] = RowAmt[r]
  BY <1>1 DEF RowAmt
<1> HIDE DEF f
<1>4. Total(f, C) = Total(RowAmt, C)
  BY <1>3, AmtType, TotalSame
<1> QED
  BY <1>2, <1>4

(* Distinct entries stand for distinct rows, of the same amount. *)
LEMMA CreditSum ==
  ASSUME NEW J \in SUBSET Entry, Keys(J), NEW D \in SUBSET J, IsFiniteSet(D)
  PROVE  Sum({CredOf(r) : r \in D}) = Total(Amt, D)
<1> DEFINE Im(A) == {CredOf(r) : r \in A}
           T == {A \in SUBSET D : IsFiniteSet(Im(A)) /\ Total(RowAmt, Im(A)) = Total(Amt, A)}
<1>1. {} \in T
  <2>1. Im({}) = {}
    OBVIOUS
  <2>2. Total(RowAmt, {}) = 0 /\ Total(Amt, {}) = 0 /\ IsFiniteSet({})
    BY FS_EmptySet, AmtType, TotalStep
  <2> QED
    BY <2>1, <2>2
<1>2. ASSUME NEW A \in SUBSET D, NEW x \in D, A \in T, x \notin A PROVE A \cup {x} \in T
  <2>1. Im(A \cup {x}) = Im(A) \cup {CredOf(x)}
    OBVIOUS
  <2>2. Im(A) \in SUBSET Row /\ CredOf(x) \in Row /\ A \in SUBSET Entry /\ x \in Entry
    BY DEF CredOf, Entry, Row
  <2>3. CredOf(x) \notin Im(A)
    <3> SUFFICES ASSUME NEW r \in A, CredOf(x) = CredOf(r) PROVE FALSE
      OBVIOUS
    <3>1. x.q = r.q
      BY DEF CredOf
    <3> QED
      BY <1>2, <3>1 DEF Keys
  <2>4. RowAmt[CredOf(x)] = Amt[x]
    BY <2>2 DEF RowAmt, Amt, CredOf
  <2>5. IsFiniteSet(A) /\ IsFiniteSet(Im(A)) /\ Total(RowAmt, Im(A)) = Total(Amt, A)
    BY <1>2, FS_Subset
  <2> HIDE DEF Im
  <2>6. IsFiniteSet(Im(A) \cup {CredOf(x)})
    BY <2>5, FS_AddElement
  <2>7. Total(RowAmt, Im(A) \cup {CredOf(x)}) = Total(RowAmt, Im(A)) + RowAmt[CredOf(x)]
    BY <2>2, <2>3, <2>5, AmtType, TotalAdd
  <2>8. Total(Amt, A \cup {x}) = Total(Amt, A) + Amt[x]
    BY <1>2, <2>2, <2>5, AmtType, TotalAdd
  <2> QED
    BY <2>1, <2>4, <2>5, <2>6, <2>7, <2>8
<1>3. D \in T
  <2> HIDE DEF T
  <2> QED
    BY <1>1, <1>2, OneByOne
<1>4. Im(D) \in SUBSET Row
  BY DEF CredOf, Entry, Row
<1>5. Sum(Im(D)) = Total(RowAmt, Im(D))
  BY <1>3, <1>4, RowSum
<1> QED
  BY <1>3, <1>5

LEMMA DebitSum ==
  ASSUME NEW J \in SUBSET Entry, Keys(J), NEW D \in SUBSET J, IsFiniteSet(D)
  PROVE  Sum({DebOf(r) : r \in D}) = Total(Amt, D)
<1> DEFINE Im(A) == {DebOf(r) : r \in A}
           T == {A \in SUBSET D : IsFiniteSet(Im(A)) /\ Total(RowAmt, Im(A)) = Total(Amt, A)}
<1>1. {} \in T
  <2>1. Im({}) = {}
    OBVIOUS
  <2>2. Total(RowAmt, {}) = 0 /\ Total(Amt, {}) = 0 /\ IsFiniteSet({})
    BY FS_EmptySet, AmtType, TotalStep
  <2> QED
    BY <2>1, <2>2
<1>2. ASSUME NEW A \in SUBSET D, NEW x \in D, A \in T, x \notin A PROVE A \cup {x} \in T
  <2>1. Im(A \cup {x}) = Im(A) \cup {DebOf(x)}
    OBVIOUS
  <2>2. Im(A) \in SUBSET Row /\ DebOf(x) \in Row /\ A \in SUBSET Entry /\ x \in Entry
    BY DEF DebOf, Entry, Row
  <2>3. DebOf(x) \notin Im(A)
    <3> SUFFICES ASSUME NEW r \in A, DebOf(x) = DebOf(r) PROVE FALSE
      OBVIOUS
    <3>1. x.q = r.q
      BY DEF DebOf
    <3> QED
      BY <1>2, <3>1 DEF Keys
  <2>4. RowAmt[DebOf(x)] = Amt[x]
    BY <2>2 DEF RowAmt, Amt, DebOf
  <2>5. IsFiniteSet(A) /\ IsFiniteSet(Im(A)) /\ Total(RowAmt, Im(A)) = Total(Amt, A)
    BY <1>2, FS_Subset
  <2> HIDE DEF Im
  <2>6. IsFiniteSet(Im(A) \cup {DebOf(x)})
    BY <2>5, FS_AddElement
  <2>7. Total(RowAmt, Im(A) \cup {DebOf(x)}) = Total(RowAmt, Im(A)) + RowAmt[DebOf(x)]
    BY <2>2, <2>3, <2>5, AmtType, TotalAdd
  <2>8. Total(Amt, A \cup {x}) = Total(Amt, A) + Amt[x]
    BY <1>2, <2>2, <2>5, AmtType, TotalAdd
  <2> QED
    BY <2>1, <2>4, <2>5, <2>6, <2>7, <2>8
<1>3. D \in T
  <2> HIDE DEF T
  <2> QED
    BY <1>1, <1>2, OneByOne
<1>4. Im(D) \in SUBSET Row
  BY DEF DebOf, Entry, Row
<1>5. Sum(Im(D)) = Total(RowAmt, Im(D))
  BY <1>3, <1>4, RowSum
<1> QED
  BY <1>3, <1>5

(* The queries of the store, by its journal. *)
Credits(s, a, t) == {r \in s.cred : r.tok = t /\ r.party = a}
Debits(s, a, t) == {r \in s.deb : r.tok = t /\ r.party = a}

LEMMA StoreSums ==
  ASSUME NEW s, TokensInv(s), NEW a, NEW t
  PROVE  /\ Sum(Credits(s, a, t)) = Total(Amt, Got(s.journal, a, t))
         /\ Sum(Debits(s, a, t)) = Total(Amt, Sent(s.journal, a, t))
         /\ \A h \in Nat : token_credit(s, t, a, h) = Total(Amt, GotBelow(s.journal, a, t, h))
         /\ \A h \in Nat : token_debit(s, t, a, h) = Total(Amt, SentBelow(s.journal, a, t, h + 1))
<1> DEFINE J == s.journal
<1>1. J \in SUBSET Entry /\ Keys(J) /\ IsFiniteSet(J)
  BY DEF TokensInv, TokenStore
<1>2. s.cred = {CredOf(r) : r \in Real(J)} /\ s.deb = {DebOf(r) : r \in Real(J)}
  BY DEF TokensInv, Images
<1>3. Got(J, a, t) \in SUBSET J /\ Sent(J, a, t) \in SUBSET J
  BY DEF Got, Sent, Real
<1>4. \A h : GotBelow(J, a, t, h) \in SUBSET J /\ SentBelow(J, a, t, h) \in SUBSET J
  BY <1>3 DEF GotBelow, SentBelow
<1>5. \A r \in Real(J) : r.h \in Nat
  BY <1>1 DEF Real, Entry
<1> HIDE DEF J
<1>6. Sum(Credits(s, a, t)) = Total(Amt, Got(J, a, t))
  <2>1. Credits(s, a, t) = {CredOf(r) : r \in Got(J, a, t)}
    BY <1>2 DEF Got, CredOf, Credits
  <2>2. IsFiniteSet(Got(J, a, t))
    BY <1>1, <1>3, FS_Subset
  <2> QED
    BY <1>1, <1>3, <2>1, <2>2, CreditSum
<1>7. Sum(Debits(s, a, t)) = Total(Amt, Sent(J, a, t))
  <2>1. Debits(s, a, t) = {DebOf(r) : r \in Sent(J, a, t)}
    BY <1>2 DEF Sent, DebOf, Debits
  <2>2. IsFiniteSet(Sent(J, a, t))
    BY <1>1, <1>3, FS_Subset
  <2> QED
    BY <1>1, <1>3, <2>1, <2>2, DebitSum
<1>8. ASSUME NEW h \in Nat PROVE token_credit(s, t, a, h) = Total(Amt, GotBelow(J, a, t, h))
  <2>1. {r \in s.cred : r.tok = t /\ r.party = a /\ r.h < h} = {CredOf(r) : r \in GotBelow(J, a, t, h)}
    BY <1>2 DEF GotBelow, Got, CredOf
  <2>2. IsFiniteSet(GotBelow(J, a, t, h))
    BY <1>1, <1>4, FS_Subset
  <2> QED
    BY <1>1, <1>4, <2>1, <2>2, CreditSum DEF token_credit
<1>9. ASSUME NEW h \in Nat PROVE token_debit(s, t, a, h) = Total(Amt, SentBelow(J, a, t, h + 1))
  <2>0. \A r \in Real(J) : r.h <= h <=> r.h < h + 1
    BY <1>5
  <2>1. {r \in s.deb : r.tok = t /\ r.party = a /\ r.h <= h} = {DebOf(r) : r \in SentBelow(J, a, t, h + 1)}
    <3>1. \A r \in Real(J) : DebOf(r).tok = r.tok /\ DebOf(r).party = r.adr /\ DebOf(r).h = r.h
      BY DEF DebOf
    <3>2. SentBelow(J, a, t, h + 1) = {r \in Real(J) : r.tok = t /\ r.adr = a /\ r.h <= h}
      BY <2>0 DEF SentBelow, Sent
    <3> QED
      BY <1>2, <3>1, <3>2
  <2>2. IsFiniteSet(SentBelow(J, a, t, h + 1))
    BY <1>1, <1>4, FS_Subset
  <2> QED
    BY <1>1, <1>4, <2>1, <2>2, DebitSum DEF token_debit
<1> QED
  BY <1>6, <1>7, <1>8, <1>9 DEF J

(* How what a party holds changes with the journal. *)
LEMMA HeldType ==
  ASSUME NEW J \in SUBSET Entry, IsFiniteSet(J), NEW a, NEW t, NEW H
  PROVE  /\ GotBelow(J, a, t, H) \in SUBSET Entry /\ IsFiniteSet(GotBelow(J, a, t, H))
         /\ SentBelow(J, a, t, H) \in SUBSET Entry /\ IsFiniteSet(SentBelow(J, a, t, H))
         /\ Total(Amt, GotBelow(J, a, t, H)) \in Int /\ Total(Amt, SentBelow(J, a, t, H)) \in Int
         /\ Held(J, a, t, H) \in Int
<1>1. GotBelow(J, a, t, H) \in SUBSET J /\ SentBelow(J, a, t, H) \in SUBSET J
  BY DEF GotBelow, SentBelow, Got, Sent, Real
<1>2. /\ GotBelow(J, a, t, H) \in SUBSET Entry /\ IsFiniteSet(GotBelow(J, a, t, H))
      /\ SentBelow(J, a, t, H) \in SUBSET Entry /\ IsFiniteSet(SentBelow(J, a, t, H))
  BY <1>1, FS_Subset
<1>3. Total(Amt, GotBelow(J, a, t, H)) \in Int /\ Total(Amt, SentBelow(J, a, t, H)) \in Int
  BY <1>2, AmtType, TotalStep
<1> QED
  BY <1>2, <1>3 DEF Held

Gain(e, a, t, H) == IF e.tok = t /\ e.rcp = a /\ e.h < H THEN e.amt ELSE 0
Loss(e, a, t, H) == IF e.tok = t /\ e.adr = a /\ e.h < H THEN e.amt ELSE 0

LEMMA HeldAdd ==
  ASSUME NEW J \in SUBSET Entry, IsFiniteSet(J), NEW e \in Entry, e \notin J, e.k # "noop",
         NEW a, NEW t, NEW H
  PROVE  Held(J \cup {e}, a, t, H) = Held(J, a, t, H) + Gain(e, a, t, H) - Loss(e, a, t, H)
<1> DEFINE G == GotBelow(J, a, t, H)
           S == SentBelow(J, a, t, H)
           g == e.tok = t /\ e.rcp = a /\ e.h < H
           s == e.tok = t /\ e.adr = a /\ e.h < H
<1>1. e \notin G /\ e \notin S
  BY DEF GotBelow, SentBelow, Got, Sent, Real
<1>2. GotBelow(J \cup {e}, a, t, H) = IF g THEN G \cup {e} ELSE G
  BY DEF GotBelow, Got, Real
<1>3. SentBelow(J \cup {e}, a, t, H) = IF s THEN S \cup {e} ELSE S
  BY DEF SentBelow, Sent, Real
<1>4. Amt[e] = e.amt /\ e.amt \in Int
  BY DEF Amt, Entry
<1>5. /\ G \in SUBSET Entry /\ IsFiniteSet(G) /\ S \in SUBSET Entry /\ IsFiniteSet(S)
      /\ Total(Amt, G) \in Int /\ Total(Amt, S) \in Int
  BY HeldType
<1>6. Held(J, a, t, H) = Total(Amt, G) - Total(Amt, S)
  BY DEF Held
<1> HIDE DEF G, S, g, s
<1>7. Total(Amt, G \cup {e}) = Total(Amt, G) + e.amt /\ Total(Amt, S \cup {e}) = Total(Amt, S) + e.amt
  BY <1>1, <1>4, <1>5, AmtType, TotalAdd
<1>8. Total(Amt, GotBelow(J \cup {e}, a, t, H)) = Total(Amt, G) + (IF g THEN e.amt ELSE 0)
  <2>1. CASE g
    BY <1>2, <1>7, <2>1
  <2>2. CASE ~g
    BY <1>2, <1>5, <2>2
  <2> QED
    BY <2>1, <2>2
<1>9. Total(Amt, SentBelow(J \cup {e}, a, t, H)) = Total(Amt, S) + (IF s THEN e.amt ELSE 0)
  <2>1. CASE s
    BY <1>3, <1>7, <2>1
  <2>2. CASE ~s
    BY <1>3, <1>5, <2>2
  <2> QED
    BY <2>1, <2>2
<1>10. Held(J \cup {e}, a, t, H) =
         Total(Amt, GotBelow(J \cup {e}, a, t, H)) - Total(Amt, SentBelow(J \cup {e}, a, t, H))
  BY DEF Held
<1>11. Held(J \cup {e}, a, t, H) = Held(J, a, t, H) + (IF g THEN e.amt ELSE 0) - (IF s THEN e.amt ELSE 0)
  BY <1>4, <1>5, <1>6, <1>8, <1>9, <1>10
<1> QED
  BY <1>11 DEF g, s, Gain, Loss

LEMMA HeldNoop ==
  ASSUME NEW J, NEW e, e.k = "noop", NEW a, NEW t, NEW H
  PROVE  Held(J \cup {e}, a, t, H) = Held(J, a, t, H)
<1>1. Real(J \cup {e}) = Real(J)
  BY DEF Real
<1>2. GotBelow(J \cup {e}, a, t, H) = GotBelow(J, a, t, H)
  BY <1>1 DEF GotBelow, Got
<1>3. SentBelow(J \cup {e}, a, t, H) = SentBelow(J, a, t, H)
  BY <1>1 DEF SentBelow, Sent
<1> QED
  BY <1>2, <1>3 DEF Held

LEMMA HeldCut ==
  ASSUME NEW J \in SUBSET Entry, NEW L \in Nat, NEW H \in Nat, NEW a, NEW t
  PROVE  Held({r \in J : r.h < L}, a, t, H) = Held(J, a, t, IF H <= L THEN H ELSE L)
<1> DEFINE M == IF H <= L THEN H ELSE L
           K == {r \in J : r.h < L}
<1>1. \A r \in J : (r.h < L /\ r.h < H) <=> r.h < M
  BY DEF Entry
<1> HIDE DEF M
<1>2. GotBelow(K, a, t, H) = GotBelow(J, a, t, M)
  BY <1>1 DEF GotBelow, Got, Real
<1>3. SentBelow(K, a, t, H) = SentBelow(J, a, t, M)
  BY <1>1 DEF SentBelow, Sent, Real
<1> HIDE DEF K
<1>4. Held(K, a, t, H) = Held(J, a, t, M)
  BY <1>2, <1>3 DEF Held
<1> QED
  BY <1>4 DEF K, M

(* What the overspend check finds is still held at any later height at     *)
(* which nothing more was sent.                                            *)
LEMMA HeldLater ==
  ASSUME NEW s, TokensInv(s), NEW a, NEW t,
         NEW h \in Nat, NEW H \in Nat, h < H,
         \A r \in Got(s.journal, a, t) : r.h < H => r.amt >= 0,
         \A r \in Sent(s.journal, a, t) : r.h < H => r.h <= h
  PROVE  Held(s.journal, a, t, H) >= token_credit(s, t, a, h) - token_debit(s, t, a, h)
<1> DEFINE J == s.journal
           G == GotBelow(J, a, t, h)
           D == {r \in Got(J, a, t) : r.h < H /\ ~(r.h < h)}
<1>1. J \in SUBSET Entry /\ IsFiniteSet(J) /\ \A r \in J : r.h \in Nat /\ r.amt \in Int
  BY DEF TokensInv, TokenStore, Entry
<1>2. \A r \in Got(J, a, t) \cup Sent(J, a, t) : r \in J
  BY DEF Got, Sent, Real
<1>3. GotBelow(J, a, t, H) = G \cup D
  BY <1>1, <1>2 DEF GotBelow
<1>4. SentBelow(J, a, t, H) = SentBelow(J, a, t, h + 1)
  <2>1. \A r \in Sent(J, a, t) : r.h < H <=> r.h < h + 1
    BY <1>1, <1>2
  <2> QED
    BY <2>1 DEF SentBelow
<1>5. G \cap D = {} /\ G \in SUBSET J /\ D \in SUBSET J
  BY <1>2 DEF GotBelow
<1>6. IsFiniteSet(G) /\ IsFiniteSet(D) /\ G \in SUBSET Entry /\ D \in SUBSET Entry
  BY <1>1, <1>5, FS_Subset
<1>7. \A r \in D : Amt[r] >= 0
  BY <1>1, <1>5, <1>6 DEF Amt
<1>8. /\ token_credit(s, t, a, h) = Total(Amt, G)
      /\ token_debit(s, t, a, h) = Total(Amt, SentBelow(J, a, t, h + 1))
  BY StoreSums
<1>9. Total(Amt, SentBelow(J, a, t, h + 1)) \in Int
  BY <1>1, HeldType
<1>10. Held(J, a, t, H) = Total(Amt, GotBelow(J, a, t, H)) - Total(Amt, SentBelow(J, a, t, H))
  BY DEF Held
<1> HIDE DEF J, G, D
<1>11. Total(Amt, G \cup D) = Total(Amt, G) + Total(Amt, D) /\ Total(Amt, G) \in Int /\ Total(Amt, D) \in Int
  BY <1>5, <1>6, AmtType, TotalUnion
<1>12. Total(Amt, D) >= 0
  BY <1>6, <1>7, AmtType, TotalNotNegative
<1>13. Held(J, a, t, H) = Total(Amt, G \cup D) - Total(Amt, SentBelow(J, a, t, h + 1))
  BY <1>3, <1>4, <1>10, Zenon
<1>14. Held(J, a, t, H) >= token_credit(s, t, a, h) - token_debit(s, t, a, h)
  BY <1>8, <1>9, <1>11, <1>12, <1>13
<1> QED
  BY <1>14 DEF J

(* Every row takes from one party what it gives to another. *)
LEMMA Conservation ==
  ASSUME IsFiniteSet(Party), NEW J \in SUBSET Entry, IsFiniteSet(J), NEW t, NEW H
  PROVE  Total([a \in Party |-> Held(J, a, t, H)], Party) = 0
<1> DEFINE B(K) == [a \in Party |-> Held(K, a, t, H)]
           T == {K \in SUBSET J : Total(B(K), Party) = 0}
<1>1. ASSUME NEW K \in SUBSET J PROVE B(K) \in [Party -> Int]
  BY FS_Subset, HeldType
<1>2. {} \in T
  <2>1. \A a : GotBelow({}, a, t, H) = {} /\ SentBelow({}, a, t, H) = {}
    BY DEF GotBelow, SentBelow, Got, Sent, Real
  <2>2. Total(Amt, {}) = 0
    BY FS_EmptySet, AmtType, TotalStep
  <2>3. \A a : Held({}, a, t, H) = 0
    BY <2>1, <2>2 DEF Held
  <2>4. B({}) \in [Party -> Int] /\ \A a \in Party : B({})[a] = 0
    BY <2>3
  <2> HIDE DEF B
  <2>5. Total(B({}), Party) = 0
    BY <2>4, TotalZero
  <2> QED
    BY <2>5
<1>3. ASSUME NEW K \in SUBSET J, NEW e \in J, K \in T, e \notin K PROVE K \cup {e} \in T
  <2>1. K \in SUBSET Entry /\ IsFiniteSet(K) /\ e \in Entry /\ K \cup {e} \in SUBSET J
    BY FS_Subset
  <2>2. B(K) \in [Party -> Int] /\ B(K \cup {e}) \in [Party -> Int] /\ Total(B(K), Party) = 0
    BY <1>1, <1>3, <2>1
  <2>a. ASSUME e.k # "noop", NEW a
        PROVE  /\ Held(K \cup {e}, a, t, H) = Held(K, a, t, H) + Gain(e, a, t, H) - Loss(e, a, t, H)
               /\ Held(K, a, t, H) \in Int
    <3>1. e \notin K /\ K \in SUBSET Entry /\ IsFiniteSet(K) /\ e \in Entry
      BY <1>3, <2>1
    <3> HIDE DEF B, T
    <3>2. Held(K, a, t, H) \in Int
      BY <3>1, HeldType
    <3>3. Held(K \cup {e}, a, t, H) = Held(K, a, t, H) + Gain(e, a, t, H) - Loss(e, a, t, H)
      BY <3>1, <2>a, HeldAdd
    <3> QED
      BY <3>2, <3>3
  <2>3. CASE e.k = "noop" \/ e.tok # t \/ ~(e.h < H)
    <3>1. ASSUME NEW a \in Party PROVE Held(K \cup {e}, a, t, H) = Held(K, a, t, H)
      <4>1. CASE e.k = "noop"
        BY <4>1, HeldNoop
      <4>2. CASE e.k # "noop"
        <5>1. Held(K \cup {e}, a, t, H) = Held(K, a, t, H) + Gain(e, a, t, H) - Loss(e, a, t, H)
          BY <2>a, <4>2
        <5>2. Held(K, a, t, H) \in Int
          BY <2>a, <4>2
        <5> QED
          BY <2>3, <4>2, <5>1, <5>2 DEF Gain, Loss
      <4> QED
        BY <4>1, <4>2
    <3>2. B(K \cup {e}) = B(K)
      BY <3>1
    <3> HIDE DEF B
    <3> QED
      BY <2>1, <2>2, <3>2
  <2>4. CASE e.k # "noop" /\ e.tok = t /\ e.h < H
    <3> DEFINE p == e.rcp
               q == e.adr
               v == e.amt
               f == [B(K) EXCEPT ![p] = @ + v]
    <3>1. p \in Party /\ q \in Party /\ v \in Int
      BY <2>1 DEF Entry
    <3>2. ASSUME NEW a \in Party
          PROVE  B(K \cup {e})[a] = B(K)[a] + (IF p = a THEN v ELSE 0) - (IF q = a THEN v ELSE 0)
      <4>1. Held(K \cup {e}, a, t, H) = Held(K, a, t, H) + Gain(e, a, t, H) - Loss(e, a, t, H)
        BY <2>a, <2>4
      <4>2. B(K \cup {e})[a] = Held(K \cup {e}, a, t, H) /\ B(K)[a] = Held(K, a, t, H)
        OBVIOUS
      <4> HIDE DEF B
      <4> QED
        BY <2>4, <4>1, <4>2 DEF Gain, Loss
    <3> HIDE DEF B, p, q, v
    <3>3. f \in [Party -> Int] /\ f[p] = B(K)[p] + v /\ \A a \in Party : a # p => f[a] = B(K)[a]
      BY <2>2, <3>1
    <3> HIDE DEF f
    <3>4. Total(f, Party) = Total(B(K), Party) + v
      BY <2>2, <3>1, <3>3, TotalPoint
    <3>5. /\ B(K \cup {e})[q] = f[q] + (0 - v)
          /\ \A a \in Party : a # q => B(K \cup {e})[a] = f[a]
      <4>1. \A a \in Party : f[a] = B(K)[a] + (IF p = a THEN v ELSE 0) /\ B(K)[a] \in Int
        BY <2>2, <3>1, <3>3
      <4>2. ASSUME NEW a \in Party
            PROVE  B(K \cup {e})[a] = f[a] - (IF q = a THEN v ELSE 0) /\ f[a] \in Int
        <5>1. B(K \cup {e})[a] = B(K)[a] + (IF p = a THEN v ELSE 0) - (IF q = a THEN v ELSE 0)
          BY <3>2
        <5>2. f[a] = B(K)[a] + (IF p = a THEN v ELSE 0) /\ f[a] \in Int
          BY <3>3, <4>1
        <5> QED
          BY <3>1, <4>1, <5>1, <5>2
      <4>3. B(K \cup {e})[q] = f[q] - v /\ f[q] \in Int
        BY <3>1, <4>2
      <4>4. B(K \cup {e})[q] = f[q] + (0 - v)
        BY <3>1, <4>3
      <4>5. ASSUME NEW a \in Party, a # q PROVE B(K \cup {e})[a] = f[a]
        <5>1. B(K \cup {e})[a] = f[a] - 0 /\ f[a] \in Int
          BY <4>2, <4>5
        <5> QED
          BY <5>1
      <4> QED
        BY <4>4, <4>5
    <3>6. Total(B(K \cup {e}), Party) = Total(f, Party) + (0 - v)
      <4>1. 0 - v \in Int
        BY <3>1
      <4> DEFINE g == B(K \cup {e})
                 w == 0 - v
      <4>2. g \in [Party -> Int] /\ g[q] = f[q] + w /\ w \in Int /\ \A a \in Party : a # q => g[a] = f[a]
        BY <2>2, <3>5, <4>1
      <4> HIDE DEF g, w
      <4>3. Total(g, Party) = Total(f, Party) + w
        BY <3>1, <3>3, <4>2, TotalPoint
      <4> QED
        BY <4>3 DEF g, w
    <3>7. Total(B(K \cup {e}), Party) = 0
      BY <2>2, <3>1, <3>4, <3>6
    <3> QED
      BY <2>1, <3>7
  <2> QED
    BY <2>3, <2>4
<1>4. J \in T
  <2> HIDE DEF T
  <2> QED
    BY <1>2, <1>3, OneByOne
<1> QED
  BY <1>4

-----------------------------------------------------------------------------
(* No holder overspends.                                                   *)

(* Every row of the journal is of the kind of its transaction, between     *)
(* parties of that kind; only an issuance can be of a negative amount.     *)
RowsSound(J) ==
    \A r \in J :
      /\ r.k = "issue" => /\ Op[r.txid].kind = "token:issue" /\ r.adr = Issued
                          /\ r.rcp \in Addr /\ r.rcp = Op[r.txid].to
      /\ r.k = "transfer" => r.adr \in Addr /\ r.rcp \in Addr
      /\ r.k # "issue" => r.amt >= 0
      /\ r.h \in 1..MaxBlocks

(* Below H, a was not issued a negative supply of t. *)
Endowed(J, a, t, H) == \A r \in Issues(J) : r.tok = t /\ r.rcp = a /\ r.h < H => r.amt >= 0

Solvent(J, H) == \A t \in Name, a \in Addr : Endowed(J, a, t, H) => Held(J, a, t, H) >= 0

(* A balance is what is held below a height above every block. *)
LEMMA BalanceIs ==
  ASSUME TokensInv(ti), RowsSound(ti.journal), NEW t, NEW a
  PROVE  token_balance(t, a) = Held(ti.journal, a, t, Clean)
<1>1. \A r \in ti.journal : r.h < Clean
  BY TokenAssumption DEF RowsSound, Clean
<1>2. /\ GotBelow(ti.journal, a, t, Clean) = Got(ti.journal, a, t)
      /\ SentBelow(ti.journal, a, t, Clean) = Sent(ti.journal, a, t)
  BY <1>1 DEF GotBelow, SentBelow, Got, Sent, Real
<1> QED
  <2>1. /\ Sum(Credits(ti, a, t)) = Total(Amt, Got(ti.journal, a, t))
        /\ Sum(Debits(ti, a, t)) = Total(Amt, Sent(ti.journal, a, t))
    BY StoreSums
  <2>2. Held(ti.journal, a, t, Clean) = Total(Amt, Got(ti.journal, a, t)) - Total(Amt, Sent(ti.journal, a, t))
    BY <1>2 DEF Held
  <2> QED
    BY <2>1, <2>2, Zenon DEF token_balance, Credits, Debits

(* The pseudo-address owes what was issued. *)
LEMMA IssuedOwes ==
  ASSUME TokensInv(ti), RowsSound(ti.journal), NEW t
  PROVE  /\ Held(ti.journal, Issued, t, Clean) = 0 - Total(Amt, {r \in Issues(ti.journal) : r.tok = t})
         /\ {r \in Issues(ti.journal) : r.tok = t} \in SUBSET Entry
         /\ IsFiniteSet({r \in Issues(ti.journal) : r.tok = t})
<1> DEFINE J == ti.journal
           I == {r \in Issues(J) : r.tok = t}
<1>1. J \in SUBSET Entry /\ IsFiniteSet(J) /\ \A r \in J : r.h < Clean
  BY TokenAssumption DEF TokensInv, TokenStore, RowsSound, Clean
<1>2. \A r \in J : r.k \in {"issue", "transfer", "noop"}
  BY <1>1 DEF Entry
<1>3. Issued \notin Addr
  BY TokenAssumption
<1>4. GotBelow(J, Issued, t, Clean) = {}
  BY <1>2, <1>3 DEF GotBelow, Got, Real, RowsSound
<1>5. SentBelow(J, Issued, t, Clean) = I
  BY <1>1, <1>2, <1>3 DEF SentBelow, Sent, Real, Issues, RowsSound
<1>6. I \in SUBSET J
  BY DEF Issues
<1>7. I \in SUBSET Entry /\ IsFiniteSet(I)
  BY <1>1, <1>6, FS_Subset
<1>8. Total(Amt, {}) = 0
  BY FS_EmptySet, AmtType, TotalStep
<1>9. Held(J, Issued, t, Clean) = 0 - Total(Amt, I)
  BY <1>4, <1>5, <1>8 DEF Held
<1> QED
  BY <1>7, <1>9

(* The registry has it as the supply. *)
LEMMA RegisteredSupply ==
  ASSUME TokensInv(ti), NEW t
  PROVE  Sum({[amt |-> g.supply, tok |-> g.tok] : g \in {k \in ti.tokreg : k.tok = t}})
           = Total(Amt, {r \in Issues(ti.journal) : r.tok = t})
<1> DEFINE J == ti.journal
           I == {r \in Issues(J) : r.tok = t}
           P(r) == [amt |-> r.amt, tok |-> r.tok]
           S == {[amt |-> g.supply, tok |-> g.tok] : g \in {k \in ti.tokreg : k.tok = t}}
<1>1. J \in SUBSET Entry /\ Keys(J) /\ ti.tokreg = {RegOf(r) : r \in Issues(J)}
  BY DEF TokensInv, TokenStore, Images
<1>2. S = {P(r) : r \in I}
  <2>1. \A r \in Issues(J) : RegOf(r).supply = r.amt /\ RegOf(r).tok = r.tok
    BY DEF RegOf
  <2>2. {k \in ti.tokreg : k.tok = t} = {RegOf(r) : r \in I}
    BY <1>1, <2>1
  <2> QED
    BY <2>1, <2>2
<1>3. \A r, g \in I : r = g
  BY <1>1 DEF Issues, Keys
<1>4. CASE I = {}
  <2>1. S = {}
    BY <1>2, <1>4
  <2> HIDE DEF S, I
  <2> DEFINE f == [r \in S |-> r.amt]
  <2>2. Sum(S) = Total(f, S)
    BY <2>1, FS_EmptySet, SumIs
  <2>3. f \in [S -> Int] /\ S \in SUBSET S /\ IsFiniteSet(S)
    BY <2>1, FS_EmptySet
  <2> HIDE DEF f
  <2>4. Total(f, S) = 0
    BY <2>1, <2>3, TotalStep
  <2>5. Total(Amt, I) = 0
    BY <1>4, FS_EmptySet, AmtType, TotalStep
  <2> QED
    BY <2>2, <2>4, <2>5 DEF S, I
<1>5. CASE I # {}
  <2>1. PICK e \in I : I = {e}
    BY <1>3, <1>5
  <2>2. e \in Entry /\ Amt[e] = e.amt /\ e.amt \in Int
    BY <1>1 DEF Issues, Amt, Entry
  <2>3. S = {P(e)} /\ P(e).amt = e.amt
    BY <1>2, <2>1
  <2> HIDE DEF S, I, P
  <2> DEFINE f == [r \in S |-> r.amt]
             p == P(e)
  <2>4. IsFiniteSet(S) /\ IsFiniteSet(I) /\ \A r \in S : r.amt \in Int
    BY <2>1, <2>2, <2>3, FS_Singleton
  <2>5. Sum(S) = Total(f, S)
    BY <2>4, SumIs
  <2>6. f \in [S -> Int] /\ S \in SUBSET S /\ p \in S /\ f[p] = e.amt /\ S \ {p} = {}
    BY <2>3, <2>4
  <2> HIDE DEF f, p
  <2>7. Total(f, S) = f[p] + Total(f, S \ {p})
    BY <2>4, <2>6, TotalRemove
  <2>8. {} \in SUBSET S /\ IsFiniteSet({})
    BY FS_EmptySet
  <2>9. Total(f, {}) = 0
    BY <2>6, <2>8, TotalStep
  <2>10. Total(f, S) = e.amt
    <3>1. Total(f, S \ {p}) = 0
      BY <2>6, <2>9, Zenon
    <3> QED
      BY <2>2, <2>6, <2>7, <3>1
  <2>11. I \in SUBSET Entry /\ e \in I /\ I \ {e} = {} /\ {} \in SUBSET Entry
    BY <2>1, <2>2
  <2>12. Total(Amt, I) = Amt[e] + Total(Amt, I \ {e})
    BY <2>4, <2>11, AmtType, TotalRemove
  <2>13. Total(Amt, {}) = 0
    BY <2>8, <2>11, AmtType, TotalStep
  <2>14. Total(Amt, I) = e.amt
    <3>1. Total(Amt, I \ {e}) = 0
      BY <2>11, <2>13, Zenon
    <3> QED
      BY <2>2, <2>12, <3>1
  <2> QED
    BY <2>5, <2>10, <2>14 DEF S, I
<1> QED
  BY <1>4, <1>5

(* Where nobody owes, the balances are not negative and the holders        *)
(* together have the supply.                                               *)
LEMMA SolventSupply ==
  ASSUME IsFiniteSet(Addr), TokensInv(ti), RowsSound(ti.journal), Solvent(ti.journal, Clean),
         NEW t \in Name
  PROVE  /\ \A a \in Addr :
               \/ token_balance(t, a) >= 0
               \/ \E g \in ti.tokreg : g.tok = t /\ g.supply < 0 /\ Op[g.txid].to = a
         /\ \/ token_detail_supply(t) = Sum({[amt |-> g.supply, tok |-> g.tok] :
                                                g \in {k \in ti.tokreg : k.tok = t}})
            \/ \E g \in ti.tokreg : g.tok = t /\ g.supply < 0
<1> DEFINE J == ti.journal
           B == [a \in Party |-> Held(J, a, t, Clean)]
           I == {r \in Issues(J) : r.tok = t}
           S == {a \in Party : token_balance(t, a) > 0}
<1>1. J \in SUBSET Entry /\ IsFiniteSet(J)
  BY DEF TokensInv, TokenStore
<1>2. B \in [Party -> Int]
  BY <1>1, HeldType
<1>3. \A a : token_balance(t, a) = Held(J, a, t, Clean)
  BY BalanceIs
<1>0. /\ \A a \in Addr : Endowed(J, a, t, Clean) => Held(J, a, t, Clean) >= 0
      /\ \A r \in Issues(J) : r.amt \in Int /\ r.rcp = Op[r.txid].to /\ RegOf(r) \in ti.tokreg
  BY <1>1 DEF Solvent, Issues, RowsSound, TokensInv, Images, Entry
<1>24. ASSUME NEW a \in Addr, ~Endowed(J, a, t, Clean)
       PROVE  \E g \in ti.tokreg : g.tok = t /\ g.supply < 0 /\ Op[g.txid].to = a
  <2>1. PICK r \in Issues(J) : r.tok = t /\ r.rcp = a /\ ~(r.amt >= 0)
    BY <1>24 DEF Endowed
  <2>2. RegOf(r) \in ti.tokreg /\ RegOf(r).tok = t /\ RegOf(r).supply < 0 /\ Op[RegOf(r).txid].to = a
    BY <1>0, <2>1 DEF RegOf
  <2> QED
    BY <2>2
<1>25. \A a \in Addr : \/ token_balance(t, a) >= 0
                        \/ \E g \in ti.tokreg : g.tok = t /\ g.supply < 0 /\ Op[g.txid].to = a
  BY <1>0, <1>3, <1>24
<1> SUFFICES ASSUME ~\E g \in ti.tokreg : g.tok = t /\ g.supply < 0
             PROVE  token_detail_supply(t) = Sum({[amt |-> g.supply, tok |-> g.tok] :
                                                    g \in {k \in ti.tokreg : k.tok = t}})
  BY <1>25
<1>4. \A a \in Addr : Held(J, a, t, Clean) >= 0
  BY <1>0, <1>24
<1>5. \A a \in Party : B[a] = token_balance(t, a)
  BY <1>3
<1>6. Party = Addr \cup {Issued} /\ Issued \in Party /\ Issued \notin Addr /\ Party \ {Issued} = Addr /\ Addr \in SUBSET Party
  BY TokenAssumption DEF Party
<1>7. IsFiniteSet(Party)
  BY <1>6, FS_AddElement
<1>8. Total(B, Party) = 0
  BY <1>1, <1>7, Conservation
<1>9. B[Issued] = 0 - Total(Amt, I) /\ I \in SUBSET Entry /\ IsFiniteSet(I)
  BY <1>6, IssuedOwes
<1>10. \A r \in I : Amt[r] >= 0
  <2> SUFFICES ASSUME NEW r \in I PROVE Amt[r] >= 0
    OBVIOUS
  <2>1. r \in Issues(J) /\ r.tok = t /\ r \in Entry /\ Amt[r] = r.amt
    BY <1>9 DEF Amt
  <2>2. RegOf(r) \in ti.tokreg /\ RegOf(r).tok = t /\ RegOf(r).supply = r.amt /\ r.amt \in Int
    BY <1>0, <2>1 DEF RegOf
  <2> QED
    BY <2>1, <2>2
<1>11. \A a \in Addr : B[a] >= 0
  BY <1>4, <1>6
<1>12. S = {a \in Party : B[a] > 0}
  BY <1>5
<1> HIDE DEF B, I, S
<1>13. Total(Amt, I) \in Int /\ Total(Amt, I) >= 0
  BY <1>9, <1>10, AmtType, TotalStep, TotalNotNegative
<1>14. Total(B, Party) = B[Issued] + Total(B, Party \ {Issued})
  BY <1>2, <1>6, <1>7, TotalRemove
<1>15. Total(B, Addr) \in Int
  BY <1>2, <1>6, TotalStep
<1>16. Total(B, Addr) = Total(Amt, I)
  <2>1. Total(B, Party \ {Issued}) = Total(B, Addr)
    BY <1>6, Zenon
  <2> QED
    BY <1>8, <1>9, <1>13, <1>14, <1>15, <2>1
<1>17. /\ S \in SUBSET Addr /\ S \cup (Addr \ S) = Addr /\ S \cap (Addr \ S) = {}
       /\ \A a \in Addr \ S : B[a] = 0
  <2>1. B[Issued] <= 0
    BY <1>9, <1>13
  <2>2. \A a \in Addr : B[a] \in Int
    BY <1>2, <1>6
  <2> QED
    BY <1>2, <1>6, <1>11, <1>12, <2>1, <2>2
<1>18. IsFiniteSet(S) /\ IsFiniteSet(Addr \ S) /\ S \in SUBSET Party /\ Addr \ S \in SUBSET Party
  BY <1>6, <1>17, FS_Subset
<1>19. Total(B, Addr \ S) = 0
  BY <1>2, <1>17, <1>18, TotalZero
<1>20. Total(B, S \cup (Addr \ S)) = Total(B, S) + Total(B, Addr \ S) /\ Total(B, S) \in Int
  <2> DEFINE Z == Addr \ S
  <2>1. Z \in SUBSET Party /\ IsFiniteSet(Z) /\ S \cap Z = {}
    BY <1>17, <1>18
  <2> HIDE DEF Z
  <2>2. Total(B, S \cup Z) = Total(B, S) + Total(B, Z) /\ Total(B, S) \in Int
    BY <1>2, <1>18, <2>1, TotalUnion
  <2> QED
    BY <2>2 DEF Z
<1>21. Total(B, S) = Total(Amt, I)
  <2>1. Total(B, S \cup (Addr \ S)) = Total(B, Addr)
    BY <1>17, Zenon
  <2> QED
    BY <1>16, <1>19, <1>20, <2>1
<1>22. token_detail_supply(t) = Total(B, S)
  BY <1>2, <1>5, <1>18, SupplyIs DEF S
<1>23. Sum({[amt |-> g.supply, tok |-> g.tok] : g \in {k \in ti.tokreg : k.tok = t}}) = Total(Amt, I)
  BY RegisteredSupply DEF I
<1> QED
  BY <1>21, <1>22, <1>23

-----------------------------------------------------------------------------
(* Which operations the work consists of, and in which order.              *)

IsTransfer(x) == Op[x].kind = "token:transfer"
Of(R, ks) == {e \in R : Op[e.x].kind \in ks}
Scanned(from) ==
    {e \in Work : /\ e.h \in DOMAIN ledger /\ e.h >= from
                  /\ \E i \in DOMAIN ledger[e.h] : ledger[e.h][i] = e.x}
NoTransfers(s) == \A e \in Range(s) : ~IsTransfer(e.x)
TransfersOrdered(s) ==
    \A i, j \in DOMAIN s : i <= j /\ IsTransfer(s[i].x) /\ IsTransfer(s[j].x) => s[i].h <= s[j].h

LEMMA ConcatIs ==
  ASSUME NEW E, NEW s \in Seq(E), NEW t \in Seq(E)
  PROVE  /\ s \o t \in Seq(E)
         /\ Range(s \o t) = Range(s) \cup Range(t)
         /\ NoTransfers(s) /\ TransfersOrdered(t) => TransfersOrdered(s \o t)
         /\ TransfersOrdered(s) /\ NoTransfers(t) => TransfersOrdered(s \o t)
<1> DEFINE u == s \o t
<1>1. /\ u \in Seq(E) /\ Len(u) = Len(s) + Len(t) /\ Len(s) \in Nat /\ Len(t) \in Nat
      /\ DOMAIN u = 1..Len(u) /\ DOMAIN s = 1..Len(s) /\ DOMAIN t = 1..Len(t)
      /\ \A k \in 1..Len(s) : u[k] = s[k]
      /\ \A k \in 1..Len(t) : u[Len(s) + k] = t[k]
  OBVIOUS
<1> HIDE DEF u
<1>2. ASSUME NEW k \in DOMAIN u, k \notin DOMAIN s
      PROVE  k - Len(s) \in DOMAIN t /\ u[k] = t[k - Len(s)]
  <2>1. k - Len(s) \in 1..Len(t) /\ Len(s) + (k - Len(s)) = k
    BY <1>1, <1>2
  <2> QED
    BY <1>1, <2>1
<1>3. /\ \A k \in DOMAIN s : k \in DOMAIN u /\ u[k] = s[k]
      /\ \A j \in DOMAIN t : Len(s) + j \in DOMAIN u /\ u[Len(s) + j] = t[j]
  BY <1>1
<1>4. Range(u) = Range(s) \cup Range(t)
  <2>1. \A e \in Range(u) : e \in Range(s) \/ e \in Range(t)
    BY <1>2, <1>3 DEF Range
  <2>2. \A e \in Range(s) : e \in Range(u)
    BY <1>3 DEF Range
  <2>3. \A e \in Range(t) : e \in Range(u)
    BY <1>3 DEF Range
  <2> QED
    BY <2>1, <2>2, <2>3
<1>5. ASSUME NoTransfers(s), TransfersOrdered(t) PROVE TransfersOrdered(u)
  <2> SUFFICES ASSUME NEW i \in DOMAIN u, NEW j \in DOMAIN u, i <= j, IsTransfer(u[i].x), IsTransfer(u[j].x)
               PROVE  u[i].h <= u[j].h
    BY DEF TransfersOrdered
  <2>1. i \notin DOMAIN s /\ j \notin DOMAIN s
    BY <1>3, <1>5 DEF NoTransfers, Range
  <2>2. i - Len(s) <= j - Len(s)
    BY <1>1
  <2> QED
    BY <1>2, <1>5, <2>1, <2>2 DEF TransfersOrdered
<1>6. ASSUME TransfersOrdered(s), NoTransfers(t) PROVE TransfersOrdered(u)
  <2> SUFFICES ASSUME NEW i \in DOMAIN u, NEW j \in DOMAIN u, i <= j, IsTransfer(u[i].x), IsTransfer(u[j].x)
               PROVE  u[i].h <= u[j].h
    BY DEF TransfersOrdered
  <2>1. i \in DOMAIN s /\ j \in DOMAIN s
    BY <1>2, <1>6 DEF NoTransfers, Range
  <2> QED
    BY <1>3, <1>6, <2>1 DEF TransfersOrdered
<1> QED
  BY <1>1, <1>4, <1>5, <1>6 DEF u

LEMMA OfKindIs ==
  ASSUME NEW ops \in Seq(Work), NEW ks
  PROVE  /\ OfKind(ops, ks) \in Seq(Work)
         /\ Range(OfKind(ops, ks)) = Of(Range(ops), ks)
         /\ Ordered(ops) => Ordered(OfKind(ops, ks))
<1> DEFINE keep == {ops[i] : i \in {j \in DOMAIN ops : Op[ops[j].x].kind \in ks}}
           z == OfKind(ops, ks)
<1>1. z = Restricted(ops, keep)
  BY DEF OfKind
<1>2. keep = Of(Range(ops), ks)
  BY DEF Of, Range
<1> HIDE DEF keep, z
<1>4. /\ \A k \in DOMAIN z : z[k] \in keep /\ \E j \in DOMAIN ops : z[k] = ops[j]
      /\ \A j \in DOMAIN ops : ops[j] \in keep => \E k \in DOMAIN z : z[k] = ops[j]
      /\ Ordered(ops) => Ordered(z)
  BY <1>1, RestrictedIs
<1>5. z \in Seq(Work)
  BY <1>1, RestrictedType
<1>6. \A e \in Range(z) : e \in keep
  BY <1>4 DEF Range
<1>7. \A e \in keep : e \in Range(z)
  <2>1. \A e \in keep : \E j \in DOMAIN ops : e = ops[j]
    BY <1>2 DEF Of, Range
  <2> QED
    BY <1>4, <2>1 DEF Range
<1>8. Range(z) = keep
  BY <1>6, <1>7
<1> QED
  BY <1>2, <1>4, <1>5, <1>8 DEF z

LEMMA OnBlockIs ==
  ASSUME NEW h \in 1..MaxBlocks, NEW body \in Seq(Tx)
  PROVE  Range(on_block(h, body)) = {[h |-> h, x |-> body[i]] : i \in DOMAIN body}
<1> DEFINE ops == At(h, body)
           s == OfKind(ops, {"token:issue"})
           t == OfKind(ops, Kinds \ {"token:issue"})
<1>1. ops \in Seq(Work) /\ Range(ops) = {[h |-> h, x |-> body[i]] : i \in DOMAIN body}
  BY AtType DEF At, Range
<1>2. on_block(h, body) = s \o t
  BY DEF on_block
<1>a. \A e \in Range(ops) : e.x \in Tx
  BY <1>1
<1> HIDE DEF ops
<1>3. /\ s \in Seq(Work) /\ t \in Seq(Work)
      /\ Range(s) = Of(Range(ops), {"token:issue"}) /\ Range(t) = Of(Range(ops), Kinds \ {"token:issue"})
  BY <1>1, OfKindIs
<1> HIDE DEF s, t
<1>4. Range(s \o t) = Range(s) \cup Range(t)
  BY <1>3, ConcatIs
<1>5. \A e \in Range(ops) : Op[e.x].kind \in Kinds
  BY <1>a, TokenAssumption
<1>6. Range(s) \cup Range(t) = Range(ops)
  BY <1>3, <1>5 DEF Of
<1> QED
  BY <1>1, <1>2, <1>4, <1>6

LEMMA LedgerScanIs ==
  ASSUME ledger \in Seq(Seq(Tx)), Len(ledger) <= MaxBlocks, NEW from
  PROVE  /\ scan_ledger_operations(from) \in Seq(Work)
         /\ Range(scan_ledger_operations(from)) = Scanned(from)
         /\ Ordered(scan_ledger_operations(from))
<1> DEFINE n == Len(ledger)
           z == scan_ledger_operations(from)
           Ops(h) == IF h >= from THEN At(h, ledger[h]) ELSE <<>>
           q == [h \in 1..n |-> Ops(h)]
<1>1. DOMAIN ledger = 1..n /\ n \in Nat /\ n <= MaxBlocks
  OBVIOUS
<1>2. ASSUME NEW h \in 1..n PROVE Ops(h) \in Seq(Work)
  <2>1. h \in 1..MaxBlocks /\ ledger[h] \in Seq(Tx)
    BY <1>1, TokenAssumption
  <2>2. At(h, ledger[h]) \in Seq(Work) /\ <<>> \in Seq(Work)
    BY <2>1, AtType
  <2> QED
    BY <2>2
<1>3. q \in Seq(Seq(Work)) /\ DOMAIN q = 1..n
  <2> HIDE DEF n, Ops, Work
  <2> QED
    BY <1>1, <1>2
<1>4. z = FlattenSeq(q)
  BY <1>1, Zenon DEF scan_ledger_operations
<1>5. \A h \in 1..n : q[h] = Ops(h)
  OBVIOUS
<1>6. ASSUME NEW h \in 1..n
      PROVE  /\ \A j \in DOMAIN q[h] : h >= from /\ j \in DOMAIN ledger[h] /\ q[h][j] = [h |-> h, x |-> ledger[h][j]]
             /\ h >= from => DOMAIN q[h] = DOMAIN ledger[h]
  <2>1. CASE h >= from
    <3>1. q[h] = At(h, ledger[h])
      BY <1>5, <2>1
    <3>2. DOMAIN q[h] = DOMAIN ledger[h] /\ \A j \in DOMAIN ledger[h] : q[h][j] = [h |-> h, x |-> ledger[h][j]]
      BY <3>1 DEF At
    <3> QED
      BY <2>1, <3>2
  <2>2. CASE ~(h >= from)
    <3>1. q[h] = <<>>
      BY <1>5, <2>2
    <3> QED
      BY <2>2, <3>1
  <2> QED
    BY <2>1, <2>2
<1> HIDE DEF q, n, z
<1>7. ByHeight(q)
  BY <1>3, <1>6 DEF ByHeight
<1>8. Range(z) = Parts(q) /\ Ordered(z)
  BY <1>3, <1>4, <1>7, FlattenIs
<1>9. z \in Seq(Work)
  BY <1>3, <1>4, FlattenType
<1>10. ASSUME NEW e \in Range(z) PROVE e \in Scanned(from)
  <2>1. PICK k \in DOMAIN z : e = z[k]
    BY DEF Range
  <2>2. PICK i \in DOMAIN q : e \in Range(q[i])
    BY <1>8 DEF Parts
  <2>3. PICK j \in DOMAIN q[i] : e = q[i][j]
    BY <2>2 DEF Range
  <2>4. i \in DOMAIN ledger /\ i >= from /\ j \in DOMAIN ledger[i] /\ e = [h |-> i, x |-> ledger[i][j]]
    BY <1>1, <1>3, <1>6, <2>3
  <2>5. e.h = i /\ e.x = ledger[i][j]
    BY <2>4
  <2>6. e \in Work
    BY <1>9, <2>1
  <2> QED
    BY <2>4, <2>5, <2>6 DEF Scanned
<1>11. ASSUME NEW e \in Scanned(from) PROVE e \in Range(z)
  <2>1. e \in Work /\ e.h \in DOMAIN ledger /\ e.h >= from
    BY DEF Scanned
  <2>2. PICK i \in DOMAIN ledger[e.h] : ledger[e.h][i] = e.x
    BY DEF Scanned
  <2>3. e = [h |-> e.h, x |-> e.x]
    BY <2>1 DEF Work
  <2>4. e.h \in DOMAIN q /\ i \in DOMAIN q[e.h] /\ q[e.h][i] = [h |-> e.h, x |-> ledger[e.h][i]]
    BY <1>1, <1>3, <1>6, <2>1
  <2>5. q[e.h][i] = e
    BY <2>2, <2>3, <2>4
  <2> QED
    <3>1. e \in Range(q[e.h])
      BY <2>4, <2>5 DEF Range
    <3>2. e \in Parts(q)
      BY <2>4, <3>1 DEF Parts
    <3> QED
      BY <1>8, <3>2
<1>12. Range(z) = Scanned(from)
  BY <1>10, <1>11
<1> QED
  BY <1>8, <1>9, <1>12 DEF z

LEMMA BackfillIs ==
  ASSUME ledger \in Seq(Seq(Tx)), Len(ledger) <= MaxBlocks
  PROVE  /\ Range(backfill) \subseteq Scanned(ti.anchor) \cup Scanned(al.anchor)
         /\ Of(Scanned(ti.anchor), {"token:transfer"}) \subseteq Range(backfill)
         /\ TransfersOrdered(backfill)
<1> DEFINE tk == scan_ledger_operations(ti.anchor)
           as == scan_ledger_operations(al.anchor)
           A == OfKind(tk, {"token:issue"})
           B == OfKind(tk, {"token:transfer"})
           C == OfKind(as, {"alias="})
           D == OfKind(as, AliasOps)
<1>1. backfill = ((A \o B) \o C) \o D
  BY DEF backfill
<1>2. tk \in Seq(Work) /\ Ordered(tk) /\ Range(tk) = Scanned(ti.anchor)
  BY LedgerScanIs
<1>3. as \in Seq(Work) /\ Range(as) = Scanned(al.anchor)
  BY LedgerScanIs
<1> HIDE DEF tk, as
<1>4. A \in Seq(Work) /\ Range(A) = Of(Range(tk), {"token:issue"})
  BY <1>2, OfKindIs
<1>5. B \in Seq(Work) /\ Range(B) = Of(Range(tk), {"token:transfer"}) /\ Ordered(B)
  BY <1>2, OfKindIs
<1>6. C \in Seq(Work) /\ Range(C) = Of(Range(as), {"alias="})
  BY <1>3, OfKindIs
<1>7. D \in Seq(Work) /\ Range(D) = Of(Range(as), AliasOps)
  BY <1>3, OfKindIs
<1> HIDE DEF A, B, C, D
<1>8. NoTransfers(A) /\ NoTransfers(C) /\ NoTransfers(D)
  BY <1>4, <1>6, <1>7 DEF NoTransfers, IsTransfer, AliasOps, Of
<1>9. TransfersOrdered(B)
  BY <1>5 DEF TransfersOrdered, Ordered
<1> DEFINE U == A \o B
           V == U \o C
<1>10. U \in Seq(Work) /\ TransfersOrdered(U) /\ Range(U) = Range(A) \cup Range(B)
  BY <1>4, <1>5, <1>8, <1>9, ConcatIs
<1> HIDE DEF U
<1>11. V \in Seq(Work) /\ TransfersOrdered(V) /\ Range(V) = Range(U) \cup Range(C)
  <2>0. U \in Seq(Work) /\ C \in Seq(Work)
    BY <1>6, <1>10
  <2>1. V \in Seq(Work) /\ Range(V) = Range(U) \cup Range(C)
    BY <2>0, ConcatIs
  <2>2. TransfersOrdered(U) /\ NoTransfers(C) => TransfersOrdered(V)
    BY <2>0, ConcatIs
  <2> QED
    BY <1>8, <1>10, <2>1, <2>2
<1>12. backfill = V \o D
  BY <1>1 DEF U
<1> HIDE DEF V
<1>13. TransfersOrdered(V \o D) /\ Range(V \o D) = Range(V) \cup Range(D)
  <2>0. V \in Seq(Work) /\ D \in Seq(Work)
    BY <1>7, <1>11
  <2>1. Range(V \o D) = Range(V) \cup Range(D)
    BY <2>0, ConcatIs
  <2>2. TransfersOrdered(V) /\ NoTransfers(D) => TransfersOrdered(V \o D)
    BY <2>0, ConcatIs
  <2> QED
    BY <1>8, <1>11, <2>1, <2>2
<1>14. Range(backfill) = Range(A) \cup Range(B) \cup Range(C) \cup Range(D) /\ TransfersOrdered(backfill)
  BY <1>10, <1>11, <1>12, <1>13
<1> QED
  BY <1>2, <1>3, <1>4, <1>5, <1>6, <1>7, <1>14 DEF Of

-----------------------------------------------------------------------------
(* One operation adds at most one row to the journal.                      *)

Checked(s, r) ==
    r.amt > 0 /\ token_credit(s, r.tok, r.adr, r.h) - token_debit(s, r.tok, r.adr, r.h) >= r.amt

(* The row that the operation x of block h adds to the store s. *)
IsRowOf(r, s, h, x) ==
    /\ r \in Entry /\ r \notin s.journal /\ r.txid = x /\ r.h = h
    /\ \/ r.k = "issue" /\ Op[x].kind = "token:issue" /\ r.adr = Issued /\ r.rcp = Op[x].to
       \/ r.k = "noop" /\ IsTransfer(x) /\ r.amt = 0
       \/ r.k = "transfer" /\ IsTransfer(x) /\ r.adr \in Addr /\ Checked(s, r)
    /\ r.k # "noop" => r.rcp \in Addr

Adds(s, z, h, x, r) == IsRowOf(r, s, h, x) /\ z.journal = s.journal \cup {r} /\ z.anchor = Bump(s.anchor, h)

LEMMA NewIsNotOld ==
  ASSUME NEW s, TokensInv(s), NEW r, r.txid \notin s.seen
  PROVE  r \notin s.journal
BY DEF TokensInv, Images

LEMMA IssueRow ==
  ASSUME NEW s, TokensInv(s), NEW h \in 1..MaxBlocks, NEW x \in Tx, Op[x].kind = "token:issue",
         register_issue(s, h, x) # s
  PROVE  \E r : Adds(s, register_issue(s, h, x), h, x, r)
<1> DEFINE t == Lower[Op[x].name]
           to == Op[x].to
           amt == Op[x].amount
           r == [k |-> "issue", h |-> h, q |-> s.seq + 1, tok |-> t, rcp |-> to, adr |-> Issued,
                 amt |-> amt, txid |-> x]
           y == Record(s, "issue", h, x, t, Issued, to, amt)
           z == [y EXCEPT !.tokreg = @ \cup {[tok |-> t, h |-> h, txid |-> x, supply |-> amt]}]
<1>2. register_issue(s, h, x) = z /\ x \notin s.seen
  BY DEF register_issue
<1>3. t \in Name /\ to \in Party /\ to \in Addr /\ Issued \in Party /\ amt \in Int /\ s \in TokenStore
  BY OpType DEF TokensInv
<1>4. r.k = "issue" /\ r.txid = x /\ r.h = h /\ r.rcp = to /\ r.adr = Issued /\ r.amt = amt
  OBVIOUS
<1>5. to = Op[x].to
  OBVIOUS
<1> HIDE DEF t, to, amt
<1>6. /\ r \in Entry /\ y \in TokenStore
      /\ y.seq = s.seq + 1 /\ y.seen = s.seen \cup {x}
      /\ y.cred = s.cred \cup {CredOf(r)} /\ y.deb = s.deb \cup {DebOf(r)}
      /\ y.addrtok = Incr(Incr(s.addrtok, <<to, t>>), <<Issued, t>>)
      /\ y.tokset = Incr(s.tokset, t)
      /\ y.journal = s.journal \cup {r}
      /\ y.tokreg = s.tokreg
      /\ y.anchor = Bump(s.anchor, h)
  <2> HIDE DEF r, y
  <2> QED
    BY <1>3, RecordFields DEF r, y
<1> HIDE DEF r, y
<1>7. z.journal = y.journal /\ z.anchor = y.anchor
  BY <1>6 DEF TokenStore
<1>8. r \notin s.journal
  BY <1>2, <1>4, NewIsNotOld
<1>9. IsRowOf(r, s, h, x)
  BY <1>3, <1>4, <1>5, <1>6, <1>8 DEF IsRowOf
<1> QED
  BY <1>2, <1>6, <1>7, <1>9 DEF Adds

LEMMA TransferRow ==
  ASSUME NEW s, TokensInv(s), NEW h \in 1..MaxBlocks, NEW x \in Tx, IsTransfer(x), x \notin s.seen
  PROVE  \E r : Adds(s, Transfer(s, h, x), h, x, r)
<1> DEFINE t == Op[x].name
           from == Op[x].from
           to == Op[x].to
           amt == Op[x].amount
           ok == amt > 0 /\ token_credit(s, t, from, h) - token_debit(s, t, from, h) >= amt
<1>2. /\ t \in Name /\ to \in Party /\ to \in Addr /\ from \in Party /\ from \in Addr /\ Issued \in Party
      /\ amt \in Int /\ s \in TokenStore /\ s.seq \in Nat /\ h \in Nat
  BY OpType, TokenAssumption DEF TokensInv, TokenStore
<1>3. CASE ok
  <2> DEFINE r == [k |-> "transfer", h |-> h, q |-> s.seq + 1, tok |-> t, rcp |-> to, adr |-> from,
                   amt |-> amt, txid |-> x]
             z == Record(s, "transfer", h, x, t, from, to, amt)
  <2>1. Transfer(s, h, x) = z
    BY <1>3 DEF Transfer, apply_transfer
  <2>2. r.k = "transfer" /\ r.txid = x /\ r.h = h /\ r.tok = t /\ r.rcp = to /\ r.adr = from /\ r.amt = amt
    OBVIOUS
  <2> HIDE DEF t, from, to, amt
  <2>3. /\ r \in Entry /\ z \in TokenStore
        /\ z.seq = s.seq + 1 /\ z.seen = s.seen \cup {x}
        /\ z.cred = s.cred \cup {CredOf(r)} /\ z.deb = s.deb \cup {DebOf(r)}
        /\ z.addrtok = Incr(Incr(s.addrtok, <<to, t>>), <<from, t>>)
        /\ z.tokset = Incr(s.tokset, t)
        /\ z.journal = s.journal \cup {r}
        /\ z.tokreg = s.tokreg
        /\ z.anchor = Bump(s.anchor, h)
    <3> HIDE DEF r, z
    <3> QED
      BY <1>2, RecordFields DEF r, z
  <2> HIDE DEF r, z
  <2>4. r \notin s.journal
    BY <2>2, NewIsNotOld
  <2>5. Checked(s, r)
    BY <1>3, <2>2 DEF Checked
  <2>6. IsRowOf(r, s, h, x)
    BY <1>2, <2>2, <2>3, <2>4, <2>5 DEF IsRowOf
  <2> QED
    BY <2>1, <2>3, <2>6 DEF Adds
<1>4. CASE ~ok
  <2> DEFINE r == [k |-> "noop", h |-> h, q |-> s.seq + 1, tok |-> t, rcp |-> Issued,
                   adr |-> Issued, amt |-> 0, txid |-> x]
             z == mark_noop(s, h, x)
  <2>1. Transfer(s, h, x) = z
    BY <1>4 DEF Transfer
  <2>2. r.k = "noop" /\ r.txid = x /\ r.h = h /\ r.amt = 0
    OBVIOUS
  <2>3. r \in Entry
    BY <1>2 DEF Entry
  <2>4. z = [s EXCEPT !.seq = s.seq + 1, !.seen = s.seen \cup {x}, !.anchor = Bump(s.anchor, h),
                      !.journal = s.journal \cup {r}]
    BY DEF mark_noop
  <2> HIDE DEF r, z
  <2>5. z.journal = s.journal \cup {r} /\ z.anchor = Bump(s.anchor, h)
    BY <1>2, <2>4 DEF TokenStore
  <2>6. r \notin s.journal
    BY <2>2, NewIsNotOld
  <2>7. IsRowOf(r, s, h, x)
    BY <2>2, <2>3, <2>6 DEF IsRowOf
  <2> QED
    BY <2>1, <2>5, <2>7 DEF Adds
<1> QED
  BY <1>3, <1>4

(* An operation leaves the store alone, a transfer only when it was        *)
(* processed before; or it adds one row.                                   *)
LEMMA OneRow ==
  ASSUME NEW s, TokensInv(s), NEW e \in Work, NEW z, z = ApplyToken(s, e)
  PROVE  \/ z = s /\ (IsTransfer(e.x) => e.x \in s.seen)
         \/ e.x \notin s.seen /\ \E r : Adds(s, z, e.h, e.x, r)
<1>0. e.h \in 1..MaxBlocks /\ e.x \in Tx
  BY DEF Work
<1>1. CASE Op[e.x].kind = "token:issue"
  <2>1. z = register_issue(s, e.h, e.x) /\ ~IsTransfer(e.x)
    BY <1>1 DEF ApplyToken, IsTransfer
  <2>2. z # s => e.x \notin s.seen
    BY <2>1 DEF register_issue
  <2> QED
    BY <1>0, <1>1, <2>1, <2>2, IssueRow
<1>2. CASE Op[e.x].kind = "token:transfer"
  <2>1. z = Transfer(s, e.h, e.x) /\ IsTransfer(e.x)
    BY <1>2 DEF ApplyToken, IsTransfer
  <2>2. CASE e.x \in s.seen
    BY <2>1, <2>2 DEF Transfer
  <2>3. CASE e.x \notin s.seen
    BY <1>0, <2>1, <2>3, TransferRow
  <2> QED
    BY <2>2, <2>3
<1>3. CASE Op[e.x].kind # "token:issue" /\ Op[e.x].kind # "token:transfer"
  BY <1>3 DEF ApplyToken, IsTransfer
<1> QED
  BY <1>1, <1>2, <1>3

LEMMA RolledBack ==
  ASSUME NEW s, TokensInv(s), NEW height \in 1..MaxBlocks, NEW z, z = tokens_rollback(s, height)
  PROVE  z.journal = {r \in s.journal : r.h < height} /\ z.anchor = height - 1
<1>1. s \in TokenStore /\ \A r \in s.journal : r.h \in Nat
  BY DEF TokensInv, TokenStore, Entry
<1>2. z.journal = s.journal \ Undone(s, height) /\ z.anchor = IF height - 1 > 0 THEN height - 1 ELSE 0
  BY <1>1 DEF tokens_rollback, TokenStore
<1>3. height - 1 > 0 \/ height - 1 = 0
  BY TokenAssumption
<1>4. \A r \in s.journal : ~(r.h >= height) <=> r.h < height
  BY <1>1, TokenAssumption
<1> QED
  BY <1>2, <1>3, <1>4 DEF Undone

LEMMA SoundAdd ==
  ASSUME NEW s, NEW h \in 1..MaxBlocks, NEW x \in Tx, RowsSound(s.journal),
         NEW r, IsRowOf(r, s, h, x)
  PROVE  RowsSound(s.journal \cup {r})
<1>1. r.txid = x /\ r.h = h /\ (r.k # "issue" => r.amt >= 0)
  BY DEF IsRowOf, Checked, Entry
<1>2. r.k = "issue" => /\ Op[r.txid].kind = "token:issue" /\ r.adr = Issued
                       /\ r.rcp \in Addr /\ r.rcp = Op[r.txid].to
  BY <1>1 DEF IsRowOf
<1>3. r.k = "transfer" => r.adr \in Addr /\ r.rcp \in Addr
  BY DEF IsRowOf
<1> QED
  BY <1>1, <1>2, <1>3 DEF RowsSound

(* A transfer that passed the check leaves nobody owing below a height     *)
(* between which and its own nothing more was sent.                        *)
LEMMA SolventAdd ==
  ASSUME NEW s, TokensInv(s), RowsSound(s.journal), NEW h \in 1..MaxBlocks, NEW x \in Tx,
         NEW r, IsRowOf(r, s, h, x), NEW H \in Nat, Solvent(s.journal, H),
         r.k = "transfer" /\ h < H =>
           \A g \in s.journal : g.k # "issue" /\ g.h < H => g.h <= h
  PROVE  Solvent(s.journal \cup {r}, H)
<1> DEFINE J == s.journal
<1>1. J \in SUBSET Entry /\ IsFiniteSet(J)
  BY DEF TokensInv, TokenStore
<1>2. r \in Entry /\ r \notin J /\ r.h = h /\ h \in Nat /\ r.amt \in Int /\ (r.k # "issue" => r.amt >= 0)
  BY TokenAssumption DEF IsRowOf, Checked, Entry
<1> SUFFICES ASSUME NEW t \in Name, NEW a \in Addr, Endowed(J \cup {r}, a, t, H)
             PROVE  Held(J \cup {r}, a, t, H) >= 0
  BY DEF Solvent
<1>0. /\ \A e \in J : e.k = "issue" /\ e.tok = t /\ e.rcp = a /\ e.h < H => e.amt >= 0
      /\ r.tok = t /\ r.rcp = a /\ r.h < H => r.amt >= 0
  BY <1>2 DEF Endowed, Issues
<1>3. Held(J, a, t, H) \in Int /\ Held(J, a, t, H) >= 0
  <2>1. Endowed(J, a, t, H)
    BY <1>0 DEF Endowed, Issues
  <2> QED
    BY <1>1, <2>1, HeldType DEF Solvent
<1> DEFINE g == Gain(r, a, t, H)
           l == Loss(r, a, t, H)
<1>4. g \in Int /\ g >= 0 /\ l \in Int
  BY <1>0, <1>2 DEF Gain, Loss
<1>5. CASE r.k = "noop"
  BY <1>3, <1>5, HeldNoop
<1>6. CASE r.k # "noop" /\ l = 0
  <2>1. Held(J \cup {r}, a, t, H) = Held(J, a, t, H) + g - l
    BY <1>1, <1>2, <1>6, HeldAdd
  <2> HIDE DEF g, l
  <2> QED
    BY <1>3, <1>4, <1>6, <2>1
<1>7. CASE r.k # "noop" /\ l # 0
  <2>1. Held(J \cup {r}, a, t, H) = Held(J, a, t, H) + g - l
    BY <1>1, <1>2, <1>7, HeldAdd
  <2>2. r.tok = t /\ r.adr = a /\ h < H /\ l = r.amt
    BY <1>2, <1>7 DEF Loss
  <2>3. r.k = "transfer" /\ Checked(s, r)
    BY <1>7, <2>2, TokenAssumption DEF IsRowOf
  <2>4. \A e \in Sent(J, a, t) : e.h < H => e.h <= h
    <3> SUFFICES ASSUME NEW e \in Sent(J, a, t), e.h < H PROVE e.h <= h
      OBVIOUS
    <3>1. e \in J /\ e.adr = a
      BY DEF Sent, Real
    <3>2. e.k # "issue"
      BY <3>1, TokenAssumption DEF RowsSound
    <3> QED
      BY <2>2, <2>3, <3>1, <3>2
  <2>5. \A e \in Got(J, a, t) : e.h < H => e.amt >= 0
    BY <1>0 DEF RowsSound, Got, Real
  <2>6. Held(J, a, t, H) >= token_credit(s, t, a, h) - token_debit(s, t, a, h)
    BY <1>2, <2>2, <2>4, <2>5, HeldLater
  <2>7. token_credit(s, t, a, h) - token_debit(s, t, a, h) >= r.amt
    BY <1>2, <2>2, <2>3 DEF Checked
  <2>8. token_credit(s, t, a, h) \in Int /\ token_debit(s, t, a, h) \in Int
    <3>1. /\ token_credit(s, t, a, h) = Total(Amt, GotBelow(s.journal, a, t, h))
          /\ token_debit(s, t, a, h) = Total(Amt, SentBelow(s.journal, a, t, h + 1))
      BY <1>2, StoreSums
    <3>2. Total(Amt, GotBelow(J, a, t, h)) \in Int /\ Total(Amt, SentBelow(J, a, t, h + 1)) \in Int
      BY <1>1, HeldType
    <3> QED
      BY <3>1, <3>2
  <2> HIDE DEF g, l
  <2> QED
    BY <1>2, <1>3, <1>4, <2>1, <2>2, <2>6, <2>7, <2>8
<1> QED
  BY <1>5, <1>6, <1>7

LEMMA SolventCut ==
  ASSUME NEW J \in SUBSET Entry, NEW L \in Nat, NEW H \in Nat,
         \A n \in Nat : n <= L /\ n <= H => Solvent(J, n)
  PROVE  Solvent({r \in J : r.h < L}, H)
<1> DEFINE M == IF H <= L THEN H ELSE L
<1>1. M \in Nat /\ M <= L /\ M <= H
  OBVIOUS
<1>2. \A a, t : Held({r \in J : r.h < L}, a, t, H) = Held(J, a, t, M)
  BY HeldCut
<1> HIDE DEF M
<1>3. Solvent(J, M)
  BY <1>1
<1>4. ASSUME NEW a, NEW t, Endowed({r \in J : r.h < L}, a, t, H) PROVE Endowed(J, a, t, M)
  <2>1. \A r \in J : r.h < M => r.h < L /\ r.h < H
    BY DEF Entry, M
  <2> QED
    BY <1>4, <2>1 DEF Endowed, Issues
<1> QED
  BY <1>2, <1>3, <1>4, Zenon DEF Solvent

LEMMA SolventEmpty ==
  ASSUME NEW H
  PROVE  Solvent({}, H)
<1> SUFFICES ASSUME NEW t \in Name, NEW a \in Addr PROVE Held({}, a, t, H) >= 0
  BY DEF Solvent
<1>1. GotBelow({}, a, t, H) = {} /\ SentBelow({}, a, t, H) = {}
  BY DEF GotBelow, SentBelow, Got, Sent, Real
<1>2. Total(Amt, {}) = 0
  BY FS_EmptySet, AmtType, TotalStep
<1>3. Held({}, a, t, H) = Total(Amt, {}) - Total(Amt, {})
  BY <1>1, Zenon DEF Held
<1> QED
  BY <1>2, <1>3

(* The first operation of the work, and the rest. *)
LEMMA FirstOfWork ==
  ASSUME NEW w \in Seq(Work), w # <<>>
  PROVE  /\ Head(w) \in Work /\ Tail(w) \in Seq(Work)
         /\ Range(w) = {Head(w)} \cup Range(Tail(w))
         /\ TransfersOrdered(w) =>
              /\ TransfersOrdered(Tail(w))
              /\ IsTransfer(Head(w).x) => \A e \in Range(Tail(w)) : IsTransfer(e.x) => Head(w).h <= e.h
<1> DEFINE v == Tail(w)
<1>1. /\ Len(w) \in Nat /\ Len(w) > 0 /\ DOMAIN w = 1..Len(w) /\ v \in Seq(Work) /\ Len(v) = Len(w) - 1
      /\ DOMAIN v = 1..Len(v) /\ Head(w) = w[1] /\ Head(w) \in Work
      /\ \A i \in 1..Len(v) : v[i] = w[i + 1]
  <2> HIDE DEF Work
  <2> QED
    OBVIOUS
<1> HIDE DEF v
<1>2. 1 \in DOMAIN w /\ \A i \in DOMAIN v : i + 1 \in DOMAIN w /\ v[i] = w[i + 1] /\ 1 <= i + 1
  BY <1>1
<1>3. \A i \in DOMAIN w : i = 1 \/ (i - 1 \in DOMAIN v /\ v[i - 1] = w[i])
  BY <1>1
<1>4. Range(w) = {w[1]} \cup Range(v)
  <2>1. \A e \in Range(w) : e = w[1] \/ e \in Range(v)
    BY <1>3 DEF Range
  <2>2. w[1] \in Range(w)
    BY <1>2 DEF Range
  <2>3. \A e \in Range(v) : e \in Range(w)
    BY <1>2 DEF Range
  <2> QED
    BY <2>1, <2>2, <2>3
<1>5. ASSUME TransfersOrdered(w) PROVE TransfersOrdered(v)
  <2> SUFFICES ASSUME NEW i \in DOMAIN v, NEW j \in DOMAIN v, i <= j, IsTransfer(v[i].x), IsTransfer(v[j].x)
               PROVE  v[i].h <= v[j].h
    BY DEF TransfersOrdered
  <2>1. i + 1 <= j + 1
    BY <1>1
  <2> QED
    BY <1>2, <1>5, <2>1 DEF TransfersOrdered
<1>6. ASSUME TransfersOrdered(w), IsTransfer(w[1].x), NEW e \in Range(v), IsTransfer(e.x) PROVE w[1].h <= e.h
  <2>1. PICK i \in DOMAIN v : e = v[i]
    BY DEF Range
  <2> QED
    BY <1>2, <1>6, <2>1 DEF TransfersOrdered
<1> QED
  BY <1>1, <1>4, <1>5, <1>6 DEF v

-----------------------------------------------------------------------------
(* The inductive invariant of the overspend rule.                          *)

(* The transaction x was processed at height h or below. *)
Done(J, x, h) == \E r \in J : r.txid = x /\ r.h <= h
Pending(w, x, h) == [h |-> h, x |-> x] \in Range(w)

(* No transfer of the ledger below dirty was missed. *)
LedgerDone ==
    \A h \in DOMAIN ledger : \A i \in DOMAIN ledger[h] :
      h < dirty /\ IsTransfer(ledger[h][i]) => Done(ti.journal, ledger[h][i], h)

(* The first scan of a downloaded ledger takes the transfers in order. *)
FirstScan ==
    /\ low = 0
    /\ \A h \in DOMAIN ledger : \A i \in DOMAIN ledger[h] :
         IsTransfer(ledger[h][i]) => Done(ti.journal, ledger[h][i], h) \/ Pending(work, ledger[h][i], h)
    /\ \A e \in Range(work) : IsTransfer(e.x) => \A r \in ti.journal : r.k # "issue" => r.h <= e.h
    /\ TransfersOrdered(work)

(* The highest block whose rows may be there. *)
Top == IF phase = "project" THEN Len(ledger) + 1 ELSE Len(ledger)

(* No row below dirty is above the ledger, but for the block that is being *)
(* projected; and dirty is above the ledger only when nothing is stale.    *)
Heights ==
    phase # "tokens" =>
      /\ dirty = Clean => ti.anchor <= Top
      /\ dirty # Clean => dirty <= Len(ledger) + 1
      /\ \A r \in ti.journal : r.h < dirty => r.h <= Top

(* What is still to be projected. *)
WorkLeft ==
    /\ phase \in {"project", "tokens"} => low = Len(ledger) + 1
    /\ phase = "project" =>
         /\ \A e \in Range(work) : e.h = Len(ledger) + 1
         /\ Len(ledger) + 1 < dirty =>
              \A i \in DOMAIN block : IsTransfer(block[i]) =>
                \/ Done(ti.journal, block[i], Len(ledger) + 1)
                \/ Pending(work, block[i], Len(ledger) + 1)
    /\ phase = "backfill" => Range(work) \subseteq Scanned(0) /\ (dirty = Clean => low <= Len(ledger))

NoneMissed ==
    \/ LedgerDone
    \/ phase = "down" /\ ti = EmptyTokens
    \/ phase = "backfill" /\ FirstScan

SpendInv ==
    /\ IndexInv
    /\ RowsSound(ti.journal)
    /\ Heights
    /\ WorkLeft
    /\ NoneMissed
    /\ \A H \in Nat : H <= dirty => Solvent(ti.journal, H)

LEMMA StaleIs ==
  ASSUME dirty \in Nat, NEW height \in Nat, Stale(height)
  PROVE  dirty' \in Nat /\ dirty' <= dirty /\ dirty' <= height /\ dirty' \in {dirty, height}
<1>1. dirty' = Min({dirty, height})
  BY DEF Stale
<1>2. \E m \in {dirty, height} : \A k \in {dirty, height} : m <= k
  OBVIOUS
<1>3. Min({dirty, height}) \in {dirty, height} /\ \A k \in {dirty, height} : Min({dirty, height}) <= k
  BY <1>2 DEF Min
<1> QED
  BY <1>1, <1>3

LEMMA SpendFacts ==
  ASSUME SpendInv
  PROVE  /\ phase \in {"down", "backfill", "ready", "project", "tokens", "aliases"}
         /\ ledger \in Seq(Seq(Tx)) /\ Len(ledger) <= MaxBlocks /\ Len(ledger) \in Nat
         /\ DOMAIN ledger = 1..Len(ledger)
         /\ block \in Seq(Tx) /\ low \in Nat /\ work \in Seq(Work)
         /\ phase = "project" => Len(ledger) < MaxBlocks
         /\ phase \in {"tokens", "aliases"} => low \in 1..MaxBlocks
         /\ dirty \in Nat /\ Clean \in Nat /\ Clean = MaxBlocks + 2 /\ MaxBlocks \in Nat
         /\ TokensInv(ti) /\ RowsSound(ti.journal) /\ ti.journal \in SUBSET Entry
         /\ ti.anchor \in Nat
         /\ \A r \in ti.journal : r.h \in Nat /\ r.h < Clean
BY TokenAssumption DEF SpendInv, IndexInv, TokensInv, TokenStore, RowsSound, Clean

LEMMA SpendInit == IndexInit => SpendInv
<1> SUFFICES ASSUME IndexInit PROVE SpendInv
  OBVIOUS
<1>1. IndexInv
  BY IndexInit0
<1>2. phase = "down" /\ ti = EmptyTokens /\ ti.journal = {} /\ ti.anchor = 0 /\ dirty = Clean
  BY DEF IndexInit, EmptyTokens
<1>3. ledger \in Seq(Seq(Tx)) /\ Len(ledger) \in Nat
  BY <1>1 DEF IndexInv
<1>4. RowsSound(ti.journal)
  BY <1>2 DEF RowsSound
<1>5. Heights
  BY <1>2, <1>3 DEF Heights, Top
<1>6. WorkLeft
  BY <1>2 DEF WorkLeft
<1>7. NoneMissed
  BY <1>2 DEF NoneMissed
<1>8. \A H \in Nat : H <= dirty => Solvent(ti.journal, H)
  BY <1>2, SolventEmpty
<1> QED
  BY <1>1, <1>4, <1>5, <1>6, <1>7, <1>8 DEF SpendInv

(* A block is handed to the plugins, and committed. *)
LEMMA SpendDispatch ==
  ASSUME SpendInv, NEW body \in Bodies, dispatch_block(body), IndexInv'
  PROVE  SpendInv'
<1> DEFINE h == Len(ledger) + 1
<1>0. /\ dirty \in Nat /\ Clean \in Nat /\ ti.anchor \in Nat
      /\ Len(ledger) \in Nat /\ Heights /\ NoneMissed /\ RowsSound(ti.journal)
      /\ \A H \in Nat : H <= dirty => Solvent(ti.journal, H)
      /\ \A r \in ti.journal : r.h \in Nat
  BY SpendFacts DEF SpendInv
<1>1. /\ phase = "ready" /\ phase' = "project" /\ ledger' = ledger /\ ti' = ti /\ dirty' = dirty
      /\ low' = h /\ block' = body /\ work' = on_block(h, body) /\ Len(ledger) < MaxBlocks
  BY DEF dispatch_block
<1>2. body \in Seq(Tx) /\ h \in 1..MaxBlocks
  BY <1>0, <1>1, TokenAssumption
<1>3. Range(on_block(h, body)) = {[h |-> h, x |-> body[i]] : i \in DOMAIN body}
  BY <1>2, OnBlockIs
<1>4. Range(work') = {[h |-> h, x |-> body[i]] : i \in DOMAIN body}
  BY <1>1, <1>3, Zenon
<1>5. Heights'
  BY <1>0, <1>1 DEF Heights, Top
<1>6. WorkLeft'
  <2>1. \A e \in Range(work') : e.h = h
    BY <1>4
  <2>2. \A i \in DOMAIN body : Pending(work', body[i], h)
    BY <1>4 DEF Pending
  <2> QED
    BY <1>1, <2>1, <2>2 DEF WorkLeft
<1>7. NoneMissed'
  BY <1>0, <1>1 DEF NoneMissed, LedgerDone
<1>8. RowsSound(ti'.journal) /\ \A H \in Nat : H <= dirty' => Solvent(ti'.journal, H)
  BY <1>0, <1>1
<1> QED
  BY <1>5, <1>6, <1>7, <1>8 DEF SpendInv

LEMMA SpendCommit ==
  ASSUME SpendInv, commit_block, IndexInv'
  PROVE  SpendInv'
<1> DEFINE n == Len(ledger)
<1>0. /\ dirty \in Nat /\ Clean \in Nat /\ ti.anchor \in Nat /\ ledger \in Seq(Seq(Tx)) /\ block \in Seq(Tx)
      /\ n \in Nat /\ DOMAIN ledger = 1..n /\ Heights /\ NoneMissed /\ WorkLeft /\ RowsSound(ti.journal)
      /\ \A H \in Nat : H <= dirty => Solvent(ti.journal, H)
      /\ \A r \in ti.journal : r.h \in Nat
  BY SpendFacts DEF SpendInv
<1>1. /\ phase = "project" /\ work = <<>> /\ ledger' = Append(ledger, block) /\ phase' = "ready"
      /\ ti' = ti /\ dirty' = dirty
  BY DEF commit_block, Ready
<1>2. /\ Len(ledger') = n + 1 /\ DOMAIN ledger' = 1..(n + 1) /\ ledger'[n + 1] = block
      /\ \A h \in 1..n : ledger'[h] = ledger[h]
  BY <1>0, <1>1
<1> HIDE DEF n
<1>3. Heights'
  <2>1. /\ dirty = Clean => ti.anchor <= n + 1
        /\ dirty # Clean => dirty <= n + 1
        /\ \A r \in ti.journal : r.h < dirty => r.h <= n + 1
    BY <1>0, <1>1 DEF Heights, Top, n
  <2> QED
    BY <1>0, <1>1, <1>2, <2>1 DEF Heights, Top
<1>4. LedgerDone'
  <2> SUFFICES ASSUME NEW h \in DOMAIN ledger', NEW i \in DOMAIN ledger'[h],
                      h < dirty', IsTransfer(ledger'[h][i])
               PROVE  Done(ti'.journal, ledger'[h][i], h)
    BY DEF LedgerDone
  <2>1. CASE h = n + 1
    <3>1. ledger'[h] = block /\ n + 1 < dirty
      BY <1>1, <1>2, <2>1
    <3>2. \/ Done(ti.journal, block[i], n + 1)
          \/ Pending(work, block[i], n + 1)
      BY <1>0, <1>1, <3>1 DEF WorkLeft, n
    <3>3. Range(work) = {}
      BY <1>1 DEF Range
    <3> QED
      BY <1>1, <2>1, <3>1, <3>2, <3>3 DEF Pending
  <2>2. CASE h # n + 1
    <3>1. h \in DOMAIN ledger /\ ledger'[h] = ledger[h]
      BY <1>0, <1>2, <2>2
    <3> QED
      BY <1>0, <1>1, <3>1 DEF NoneMissed, LedgerDone
  <2> QED
    BY <2>1, <2>2
<1>5. WorkLeft' /\ NoneMissed'
  BY <1>1, <1>4 DEF WorkLeft, NoneMissed
<1>6. RowsSound(ti'.journal) /\ \A H \in Nat : H <= dirty' => Solvent(ti'.journal, H)
  BY <1>0, <1>1
<1> QED
  BY <1>3, <1>5, <1>6 DEF SpendInv

(* Nothing is done any more: the block was refused, or the process ended.  *)
(* Whatever was not finished is at or above dirty.                         *)
LEMMA SpendStop ==
  ASSUME SpendInv, IndexInv', phase' \in {"ready", "down"}, ledger' = ledger, ti' = ti,
         dirty' \in Nat, dirty' <= dirty, dirty' # dirty => dirty' <= Len(ledger) + 1,
         phase \in {"project", "tokens"} => dirty' <= Len(ledger) + 1,
         phase = "down" => phase' = "down",
         phase = "backfill" /\ FirstScan => LedgerDone'
  PROVE  SpendInv'
<1>0. /\ dirty \in Nat /\ Clean \in Nat /\ Clean = MaxBlocks + 2 /\ MaxBlocks \in Nat /\ ti.anchor \in Nat
      /\ Len(ledger) \in Nat /\ Len(ledger) <= MaxBlocks
      /\ DOMAIN ledger = 1..Len(ledger) /\ Heights /\ NoneMissed /\ RowsSound(ti.journal)
      /\ \A H \in Nat : H <= dirty => Solvent(ti.journal, H)
      /\ \A r \in ti.journal : r.h \in Nat
  BY SpendFacts DEF SpendInv
<1>1. Heights'
  <2>1. CASE dirty' <= Len(ledger) + 1
    <3>1. dirty' # Clean
      BY <1>0, <2>1
    <3>2. \A r \in ti.journal : r.h < dirty' => r.h <= Len(ledger)
      BY <1>0, <2>1
    <3> QED
      BY <2>1, <3>1, <3>2 DEF Heights, Top
  <2>2. CASE ~(dirty' <= Len(ledger) + 1)
    <3>1. dirty' = dirty /\ phase # "project" /\ phase # "tokens"
      BY <2>2
    <3> QED
      BY <1>0, <3>1 DEF Heights, Top
  <2> QED
    BY <2>1, <2>2
<1>2. WorkLeft'
  BY DEF WorkLeft
<1>3. NoneMissed'
  <2>1. LedgerDone => LedgerDone'
    BY <1>0 DEF LedgerDone
  <2> QED
    BY <1>0, <2>1 DEF NoneMissed
<1>4. \A H \in Nat : H <= dirty' => Solvent(ti'.journal, H)
  <2> SUFFICES ASSUME NEW H \in Nat, H <= dirty' PROVE Solvent(ti.journal, H)
    OBVIOUS
  <2>1. H <= dirty
    BY <1>0
  <2> QED
    BY <1>0, <2>1
<1>5. RowsSound(ti'.journal)
  BY <1>0
<1> QED
  BY <1>1, <1>2, <1>3, <1>4, <1>5 DEF SpendInv

LEMMA SpendRefuse ==
  ASSUME SpendInv, Refuse, IndexInv'
  PROVE  SpendInv'
<1>1. phase = "project" /\ phase' = "ready" /\ ledger' = ledger /\ ti' = ti /\ Stale(low)
  BY DEF Refuse, Ready
<1>2. dirty \in Nat /\ low \in Nat /\ low = Len(ledger) + 1
  BY <1>1, SpendFacts DEF SpendInv, WorkLeft
<1>3. dirty' \in Nat /\ dirty' <= dirty /\ dirty' <= Len(ledger) + 1
  BY <1>1, <1>2, StaleIs
<1> QED
  BY <1>1, <1>3, SpendStop

(* When the scan is over, nothing was missed. *)
LEMMA ScanOver ==
  ASSUME FirstScan, work = <<>>, ledger' = ledger, ti' = ti
  PROVE  LedgerDone'
<1>1. Range(work) = {}
  BY DEF Range
<1> QED
  BY <1>1 DEF FirstScan, LedgerDone, Pending

LEMMA SpendDie ==
  ASSUME SpendInv, Die, IndexInv'
  PROVE  SpendInv'
<1>0. /\ dirty \in Nat /\ low \in Nat /\ Clean \in Nat /\ Len(ledger) \in Nat /\ DOMAIN ledger = 1..Len(ledger)
      /\ Heights /\ WorkLeft
  BY SpendFacts DEF SpendInv
<1>1. phase # "down" /\ phase' = "down" /\ ledger' = ledger /\ ti' = ti
  BY DEF Die
<1>2. CASE phase = "tokens" \/ phase = "project"
  <2>1. Stale(low) /\ low = Len(ledger) + 1
    BY <1>0, <1>2 DEF Die, WorkLeft
  <2>2. dirty' \in Nat /\ dirty' <= dirty /\ dirty' <= Len(ledger) + 1
    BY <1>0, <2>1, StaleIs
  <2> QED
    BY <1>1, <1>2, <2>2, SpendStop
<1>3. CASE phase = "backfill" /\ work # <<>>
  <2>1. Stale(low)
    BY <1>3 DEF Die
  <2>2. dirty' \in Nat /\ dirty' <= dirty /\ dirty' <= low /\ dirty' \in {dirty, low}
    BY <1>0, <2>1, StaleIs
  <2>3. dirty' # dirty => dirty' <= Len(ledger) + 1
    <3>1. CASE dirty = Clean
      BY <1>0, <1>3, <2>2, <3>1 DEF WorkLeft
    <3>2. CASE dirty # Clean
      BY <1>0, <1>3, <2>2, <3>2 DEF Heights
    <3> QED
      BY <3>1, <3>2
  <2>4. FirstScan => LedgerDone'
    <3> SUFFICES ASSUME FirstScan PROVE LedgerDone'
      OBVIOUS
    <3>1. dirty' = 0
      BY <2>2 DEF FirstScan
    <3> QED
      BY <1>0, <1>1, <3>1 DEF LedgerDone
  <2> QED
    BY <1>1, <1>3, <2>2, <2>3, <2>4, SpendStop
<1>4. CASE phase \notin {"tokens", "project"} /\ ~(phase = "backfill" /\ work # <<>>)
  <2>1. dirty' = dirty /\ dirty' \in Nat /\ dirty' <= dirty
    BY <1>0, <1>4 DEF Die
  <2>2. phase = "backfill" /\ FirstScan => LedgerDone'
    BY <1>1, <1>4, ScanOver
  <2> QED
    BY <1>1, <1>4, <2>1, <2>2, SpendStop
<1> QED
  BY <1>2, <1>3, <1>4

LEMMA SpendScanned ==
  ASSUME SpendInv, BackfillDone, IndexInv'
  PROVE  SpendInv'
<1>1. phase = "backfill" /\ work = <<>> /\ phase' = "ready" /\ ledger' = ledger /\ ti' = ti /\ dirty' = dirty
  BY DEF BackfillDone, Ready
<1>2. dirty' \in Nat /\ dirty' <= dirty
  BY <1>1, SpendFacts
<1>3. FirstScan => LedgerDone'
  BY <1>1, ScanOver
<1> QED
  BY <1>1, <1>2, <1>3, SpendStop

LEMMA SpendAliases ==
  ASSUME SpendInv, RollbackAliases, IndexInv'
  PROVE  SpendInv'
<1>1. phase = "aliases" /\ phase' = "ready" /\ ledger' = ledger /\ ti' = ti /\ dirty' = dirty
  BY DEF RollbackAliases, Ready
<1>2. dirty' \in Nat /\ dirty' <= dirty
  BY <1>1, SpendFacts
<1> QED
  BY <1>1, <1>2, SpendStop

(* Blocks leave the ledger, and then their rows the index. *)
LEMMA SpendRollback ==
  ASSUME SpendInv, NEW height \in DOMAIN ledger, rollback_under(height), IndexInv'
  PROVE  SpendInv'
<1>0. /\ ledger \in Seq(Seq(Tx)) /\ Len(ledger) \in Nat /\ DOMAIN ledger = 1..Len(ledger)
      /\ NoneMissed /\ RowsSound(ti.journal)
      /\ \A H \in Nat : H <= dirty => Solvent(ti.journal, H)
  BY SpendFacts DEF SpendInv
<1>1. /\ phase = "ready" /\ phase' = "tokens" /\ ledger' = SubSeq(ledger, 1, height - 1) /\ low' = height
      /\ ti' = ti /\ dirty' = dirty
  BY DEF rollback_under
<1>2. height \in 1..Len(ledger)
  BY <1>0
<1>3. /\ Len(ledger') = height - 1 /\ DOMAIN ledger' = 1..(height - 1)
      /\ \A h \in 1..(height - 1) : ledger'[h] = ledger[h]
  BY <1>0, <1>1, <1>2
<1>4. Heights'
  BY <1>1 DEF Heights
<1>5. WorkLeft'
  BY <1>1, <1>2, <1>3 DEF WorkLeft
<1>6. NoneMissed'
  <2>1. LedgerDone
    BY <1>0, <1>1 DEF NoneMissed
  <2>2. \A h \in DOMAIN ledger' : h \in DOMAIN ledger /\ ledger'[h] = ledger[h]
    BY <1>0, <1>2, <1>3
  <2> QED
    BY <1>1, <2>1, <2>2 DEF NoneMissed, LedgerDone
<1>7. RowsSound(ti'.journal) /\ \A H \in Nat : H <= dirty' => Solvent(ti'.journal, H)
  BY <1>0, <1>1
<1> QED
  BY <1>4, <1>5, <1>6, <1>7 DEF SpendInv

LEMMA SpendTokens ==
  ASSUME SpendInv, RollbackTokens, IndexInv'
  PROVE  SpendInv'
<1> DEFINE J == ti.journal
<1>0. /\ dirty \in Nat /\ Clean \in Nat /\ Len(ledger) \in Nat /\ DOMAIN ledger = 1..Len(ledger)
      /\ NoneMissed /\ RowsSound(J) /\ J \in SUBSET Entry /\ TokensInv(ti) /\ WorkLeft
      /\ \A H \in Nat : H <= dirty => Solvent(J, H)
      /\ \A r \in J : r.h \in Nat
  BY SpendFacts DEF SpendInv
<1>1. /\ phase = "tokens" /\ phase' = "aliases" /\ ledger' = ledger /\ low' = low
      /\ ti' = tokens_rollback(ti, low) /\ dirty' = IF low <= dirty THEN Clean ELSE dirty
  BY DEF RollbackTokens
<1>2. low \in 1..MaxBlocks /\ low = Len(ledger) + 1 /\ low \in Nat
  BY <1>0, <1>1, SpendFacts DEF WorkLeft
<1>3. ti'.journal = {r \in J : r.h < low} /\ ti'.anchor = low - 1
  BY <1>0, <1>1, <1>2, RolledBack
<1>4. Heights'
  <2>1. \A r \in ti'.journal : r.h <= Len(ledger)
    BY <1>0, <1>2, <1>3
  <2>2. dirty' # Clean => dirty' <= Len(ledger) + 1
    BY <1>0, <1>1, <1>2
  <2>3. ti'.anchor <= Len(ledger)
    BY <1>0, <1>2, <1>3
  <2> QED
    BY <1>1, <2>1, <2>2, <2>3 DEF Heights, Top
<1>5. WorkLeft'
  BY <1>1 DEF WorkLeft
<1>6. LedgerDone'
  <2> SUFFICES ASSUME NEW h \in DOMAIN ledger, NEW i \in DOMAIN ledger[h],
                      h < dirty', IsTransfer(ledger[h][i])
               PROVE  Done(ti'.journal, ledger[h][i], h)
    BY <1>1 DEF LedgerDone
  <2>1. h < dirty /\ h < low /\ h \in Nat
    BY <1>0, <1>1, <1>2
  <2>2. Done(J, ledger[h][i], h)
    BY <1>0, <1>1, <2>1 DEF NoneMissed, LedgerDone
  <2>3. PICK r \in J : r.txid = ledger[h][i] /\ r.h <= h
    BY <2>2 DEF Done
  <2>4. r.h < low
    BY <1>0, <1>2, <2>1, <2>3
  <2> QED
    BY <1>3, <2>3, <2>4 DEF Done
<1>7. RowsSound(ti'.journal)
  BY <1>0, <1>3 DEF RowsSound
<1>8. ASSUME NEW H \in Nat, H <= dirty' PROVE Solvent(ti'.journal, H)
  <2>1. \A n \in Nat : n <= low /\ n <= H => n <= dirty
    BY <1>0, <1>1, <1>2, <1>8
  <2>2. \A n \in Nat : n <= low /\ n <= H => Solvent(J, n)
    BY <1>0, <2>1
  <2>3. Solvent({r \in J : r.h < low}, H)
    <3> HIDE DEF J
    <3> QED
      BY <1>0, <1>2, <2>2, SolventCut
  <2> QED
    BY <1>3, <2>3, Zenon
<1> QED
  BY <1>1, <1>4, <1>5, <1>6, <1>7, <1>8 DEF SpendInv, NoneMissed

(* The ledger is scanned from the anchor. *)
LEMMA SpendStart ==
  ASSUME SpendInv, start, IndexInv'
  PROVE  SpendInv'
<1>0. /\ dirty \in Nat /\ Clean \in Nat /\ ti.anchor \in Nat /\ ledger \in Seq(Seq(Tx))
      /\ Len(ledger) \in Nat /\ Len(ledger) <= MaxBlocks /\ DOMAIN ledger = 1..Len(ledger) /\ MaxBlocks \in Nat
      /\ Heights /\ NoneMissed /\ RowsSound(ti.journal)
      /\ \A H \in Nat : H <= dirty => Solvent(ti.journal, H)
  BY SpendFacts DEF SpendInv
<1>1. /\ phase = "down" /\ phase' = "backfill" /\ low' = ti.anchor /\ work' = backfill
      /\ ledger' = ledger /\ ti' = ti /\ dirty' = dirty
  BY DEF start
<1> HIDE DEF backfill
<1>2. /\ Range(backfill) \subseteq Scanned(ti.anchor) \cup Scanned(al.anchor)
      /\ Of(Scanned(ti.anchor), {"token:transfer"}) \subseteq Range(backfill)
      /\ TransfersOrdered(backfill)
  BY <1>0, BackfillIs
<1>3. Range(work') = Range(backfill) /\ TransfersOrdered(work')
  BY <1>1, <1>2
<1>4. Heights'
  BY <1>0, <1>1 DEF Heights, Top
<1>5. WorkLeft'
  <2>1. \A e \in Range(work') : e \in Scanned(0)
    BY <1>0, <1>2, <1>3 DEF Scanned
  <2>2. Scanned(0)' = Scanned(0)
    BY <1>1 DEF Scanned
  <2>3. dirty' = Clean => low' <= Len(ledger)
    BY <1>0, <1>1 DEF Heights, Top
  <2> QED
    BY <1>1, <2>1, <2>2, <2>3 DEF WorkLeft
<1>6. NoneMissed'
  <2>1. CASE LedgerDone
    BY <1>1, <2>1 DEF LedgerDone, NoneMissed
  <2>2. CASE ti = EmptyTokens
    <3>1. ti.journal = {} /\ ti.anchor = 0
      BY <2>2 DEF EmptyTokens
    <3>2. ASSUME NEW h \in DOMAIN ledger, NEW i \in DOMAIN ledger[h], IsTransfer(ledger[h][i])
          PROVE  Pending(work', ledger[h][i], h)
      <4> DEFINE e == [h |-> h, x |-> ledger[h][i]]
      <4>1. ledger[h] \in Seq(Tx) /\ h \in 1..MaxBlocks
        BY <1>0
      <4>2. ledger[h][i] \in Tx
        BY <4>1
      <4>3. e \in Work /\ e.h = h /\ e.x = ledger[h][i]
        BY <4>1, <4>2 DEF Work
      <4> HIDE DEF e
      <4>4. e \in Scanned(0)
        BY <4>1, <4>3 DEF Scanned
      <4>5. e \in Of(Scanned(0), {"token:transfer"})
        BY <3>2, <4>3, <4>4 DEF Of, IsTransfer
      <4>6. e \in Range(work')
        BY <1>2, <1>3, <3>1, <4>5
      <4> QED
        BY <4>6 DEF Pending, e
    <3>3. FirstScan'
      BY <1>1, <1>3, <3>1, <3>2 DEF FirstScan
    <3> QED
      BY <1>1, <3>3 DEF NoneMissed
  <2> QED
    BY <1>0, <1>1, <2>1, <2>2 DEF NoneMissed
<1>7. RowsSound(ti'.journal) /\ \A H \in Nat : H <= dirty' => Solvent(ti'.journal, H)
  BY <1>0, <1>1
<1> QED
  BY <1>4, <1>5, <1>6, <1>7 DEF SpendInv

(* Every row below dirty that is not an issuance is at the height of a     *)
(* transfer that is now processed for the first time, or below it.         *)
LEMMA NothingLater ==
  ASSUME SpendInv, phase \in {"project", "backfill"}, NEW e \in Range(work), e \in Work,
         IsTransfer(e.x), e.x \notin ti.seen, e.h < dirty, NEW r \in ti.journal, r.k # "issue", r.h < dirty
  PROVE  r.h <= e.h
<1>0. Heights /\ WorkLeft /\ NoneMissed /\ Images(ti)
  BY DEF SpendInv, IndexInv, TokensInv
<1>1. CASE phase = "project"
  BY <1>0, <1>1 DEF Heights, WorkLeft, Top
<1>2. CASE phase = "backfill" /\ LedgerDone
  <2>1. e \in Scanned(0)
    BY <1>0, <1>2 DEF WorkLeft
  <2>2. PICK i \in DOMAIN ledger[e.h] : ledger[e.h][i] = e.x
    BY <2>1 DEF Scanned
  <2>3. e.h \in DOMAIN ledger
    BY <2>1 DEF Scanned
  <2>4. Done(ti.journal, e.x, e.h)
    BY <1>2, <2>2, <2>3 DEF LedgerDone
  <2> QED
    BY <1>0, <2>4 DEF Done, Images
<1>3. CASE phase = "backfill" /\ FirstScan
  BY <1>3 DEF FirstScan
<1> QED
  BY <1>0, <1>1, <1>2, <1>3 DEF NoneMissed

(* One operation. *)
LEMMA SpendProject ==
  ASSUME SpendInv, Project, IndexInv'
  PROVE  SpendInv'
<1> DEFINE J == ti.journal
           K == ti'.journal
           e == Head(work)
<1>0. /\ dirty \in Nat /\ Clean \in Nat /\ MaxBlocks \in Nat /\ ti.anchor \in Nat
      /\ Len(ledger) \in Nat /\ DOMAIN ledger = 1..Len(ledger) /\ work \in Seq(Work)
      /\ Heights /\ WorkLeft /\ NoneMissed /\ RowsSound(J) /\ TokensInv(ti) /\ Images(ti)
      /\ \A H \in Nat : H <= dirty => Solvent(J, H)
      /\ \A r \in J : r.h \in Nat /\ r.h < Clean
  BY SpendFacts DEF SpendInv, TokensInv
<1>1. /\ phase \in {"project", "backfill"} /\ phase' = phase /\ work # <<>> /\ work' = Tail(work)
      /\ ti' = ApplyToken(ti, e)
      /\ ledger' = ledger /\ block' = block /\ low' = low /\ dirty' = dirty
  BY DEF Project
<1>2. e \in Work /\ e \in Range(work) /\ Range(work) = {e} \cup Range(work')
  BY <1>0, <1>1, FirstOfWork
<1>3. e.h \in 1..MaxBlocks /\ e.x \in Tx /\ e.h \in Nat /\ e = [h |-> e.h, x |-> e.x]
  BY <1>0, <1>2 DEF Work
<1>4. e.h <= Top
  <2>1. CASE phase = "project"
    BY <1>0, <1>2, <2>1 DEF WorkLeft, Top
  <2>2. CASE phase = "backfill"
    <3>1. e \in Scanned(0)
      BY <1>0, <1>2, <2>2 DEF WorkLeft
    <3> QED
      BY <1>0, <2>2, <3>1 DEF Scanned, Top
  <2> QED
    BY <1>1, <2>1, <2>2
<1>5. \/ ti' = ti /\ (IsTransfer(e.x) => e.x \in ti.seen)
      \/ e.x \notin ti.seen /\ \E r : Adds(ti, ti', e.h, e.x, r)
  <2> HIDE DEF e
  <2> QED
    BY <1>0, <1>1, <1>2, OneRow
<1> HIDE DEF e
<1>6. J \subseteq K /\ \A r \in K : r \in J \/ IsRowOf(r, ti, e.h, e.x)
  BY <1>5 DEF Adds
<1>7. RowsSound(K)
  BY <1>0, <1>3, <1>5, SoundAdd DEF Adds
<1>8. Heights'
  <2>1. ti'.anchor = ti.anchor \/ ti'.anchor = Bump(ti.anchor, e.h)
    BY <1>5 DEF Adds
  <2>2. ti'.anchor <= ti.anchor \/ ti'.anchor <= e.h
    BY <1>0, <1>3, <2>1 DEF Bump
  <2>3. Top' = Top /\ Top \in Nat /\ ti'.anchor \in Nat
    <3>1. ti'.anchor \in Nat
      BY <1>0, <1>3, <2>1 DEF Bump
    <3> QED
      BY <1>0, <1>1, <3>1 DEF Top
  <2>4. \A r \in K : r \in J \/ r.h = e.h
    BY <1>6 DEF IsRowOf
  <2>5. /\ dirty = Clean => ti.anchor <= Top
        /\ dirty # Clean => dirty <= Len(ledger) + 1
        /\ \A r \in J : r.h < dirty => r.h <= Top
    BY <1>0, <1>1 DEF Heights
  <2>6. dirty = Clean => ti'.anchor <= Top
    BY <1>0, <1>3, <1>4, <2>2, <2>3, <2>5
  <2>7. \A r \in K : r.h < dirty => r.h <= Top
    BY <1>4, <2>4, <2>5
  <2> QED
    BY <1>1, <2>3, <2>5, <2>6, <2>7 DEF Heights
<1>9. \A x, h : Done(J, x, h) => Done(K, x, h)
  BY <1>6 DEF Done
<1>10. ASSUME IsTransfer(e.x), NEW n \in Nat, e.h <= n, \A r \in J : r.k # "issue" => r.h <= n
       PROVE  Done(K, e.x, n)
  <2>1. CASE e.x \in ti.seen
    <3>1. PICK r \in J : r.txid = e.x
      BY <1>0, <2>1 DEF Images
    <3>2. r.k # "issue"
      BY <1>0, <1>10, <3>1 DEF RowsSound, IsTransfer
    <3> QED
      BY <1>6, <1>10, <3>1, <3>2 DEF Done
  <2>2. CASE e.x \notin ti.seen
    <3>1. PICK r : Adds(ti, ti', e.h, e.x, r)
      BY <1>5, <1>10, <2>2
    <3>2. r \in K /\ r.txid = e.x /\ r.h = e.h
      BY <3>1 DEF Adds, IsRowOf
    <3> QED
      BY <1>10, <3>2 DEF Done
  <2> QED
    BY <2>1, <2>2
<1>11. WorkLeft'
  <2>1. CASE phase = "project"
    <3> DEFINE n == Len(ledger) + 1
    <3>1. low = n /\ e.h = n /\ \A d \in Range(work') : d.h = n
      BY <1>0, <1>2, <2>1 DEF WorkLeft
    <3>2. ASSUME n < dirty, NEW i \in DOMAIN block, IsTransfer(block[i])
          PROVE  Done(K, block[i], n) \/ Pending(work', block[i], n)
      <4>1. Done(J, block[i], n) \/ Pending(work, block[i], n)
        BY <1>0, <2>1, <3>2 DEF WorkLeft
      <4>2. CASE Done(J, block[i], n)
        BY <1>9, <4>2
      <4>3. CASE [h |-> n, x |-> block[i]] \in Range(work')
        BY <4>3 DEF Pending
      <4>4. CASE [h |-> n, x |-> block[i]] = e
        <5>1. e.x = block[i] /\ n \in Nat /\ e.h <= n
          BY <1>0, <3>1, <4>4
        <5>2. dirty = Clean
          BY <1>0, <2>1, <3>2 DEF Heights
        <5>3. \A r \in J : r.h <= n
          BY <1>0, <2>1, <5>2 DEF Heights, Top
        <5> HIDE DEF n
        <5>4. Done(K, e.x, n)
          BY <1>10, <3>2, <5>1, <5>3
        <5> QED
          BY <5>1, <5>4
      <4> QED
        BY <1>2, <4>1, <4>2, <4>3, <4>4 DEF Pending
    <3> QED
      BY <1>1, <2>1, <3>1, <3>2 DEF WorkLeft
  <2>2. CASE phase = "backfill"
    <3>1. Range(work) \subseteq Scanned(0) /\ (dirty = Clean => low <= Len(ledger))
      BY <1>0, <2>2 DEF WorkLeft
    <3>2. Scanned(0)' = Scanned(0)
      BY <1>1 DEF Scanned
    <3>3. Range(work') \subseteq Scanned(0)'
      BY <1>2, <3>1, <3>2
    <3> QED
      BY <1>1, <2>2, <3>1, <3>3 DEF WorkLeft
  <2> QED
    BY <1>1, <2>1, <2>2
<1>12. NoneMissed'
  <2>1. CASE LedgerDone
    <3>1. LedgerDone'
      BY <1>1, <1>9, <2>1 DEF LedgerDone
    <3> QED
      BY <3>1 DEF NoneMissed
  <2>2. CASE phase = "backfill" /\ FirstScan
    <3>1. /\ TransfersOrdered(work')
          /\ IsTransfer(e.x) => \A d \in Range(work') : IsTransfer(d.x) => e.h <= d.h
      BY <1>0, <1>1, <2>2, FirstOfWork DEF FirstScan, e
    <3>2. ASSUME NEW h \in DOMAIN ledger, NEW i \in DOMAIN ledger[h], IsTransfer(ledger[h][i])
          PROVE  Done(K, ledger[h][i], h) \/ Pending(work', ledger[h][i], h)
      <4>1. Done(J, ledger[h][i], h) \/ Pending(work, ledger[h][i], h)
        BY <2>2, <3>2 DEF FirstScan
      <4>2. CASE Done(J, ledger[h][i], h)
        BY <1>9, <4>2
      <4>3. CASE [h |-> h, x |-> ledger[h][i]] \in Range(work')
        BY <4>3 DEF Pending
      <4>4. CASE [h |-> h, x |-> ledger[h][i]] = e
        <5>1. e.x = ledger[h][i] /\ e.h = h /\ h \in Nat /\ e.h <= h
          BY <1>0, <1>3, <4>4
        <5>2. \A r \in J : r.k # "issue" => r.h <= h
          BY <1>2, <2>2, <3>2, <5>1 DEF FirstScan
        <5>3. Done(K, e.x, h)
          BY <1>10, <3>2, <5>1, <5>2
        <5> QED
          BY <5>1, <5>3
      <4> QED
        BY <1>2, <4>1, <4>2, <4>3, <4>4 DEF Pending
    <3>3. ASSUME NEW d \in Range(work'), IsTransfer(d.x), NEW r \in K, r.k # "issue"
          PROVE  r.h <= d.h
      <4>1. CASE r \in J
        BY <1>2, <2>2, <3>3, <4>1 DEF FirstScan
      <4>2. CASE IsRowOf(r, ti, e.h, e.x)
        <5>1. r.h = e.h /\ IsTransfer(e.x)
          BY <3>3, <4>2 DEF IsRowOf
        <5> QED
          BY <3>1, <3>3, <5>1
      <4> QED
        BY <1>6, <4>1, <4>2
    <3>4. FirstScan'
      BY <1>1, <2>2, <3>1, <3>2, <3>3 DEF FirstScan
    <3> QED
      BY <1>1, <2>2, <3>4 DEF NoneMissed
  <2> QED
    BY <1>0, <1>1, <2>1, <2>2 DEF NoneMissed
<1>13. ASSUME NEW H \in Nat, H <= dirty' PROVE Solvent(K, H)
  <2>0. H <= dirty /\ Solvent(J, H)
    BY <1>0, <1>1, <1>13
  <2>1. CASE ti' = ti
    BY <2>0, <2>1
  <2>2. CASE e.x \notin ti.seen /\ \E r : Adds(ti, ti', e.h, e.x, r)
    <3>1. PICK r : Adds(ti, ti', e.h, e.x, r)
      BY <2>2
    <3>2. IsRowOf(r, ti, e.h, e.x) /\ K = J \cup {r}
      BY <3>1 DEF Adds
    <3>3. ASSUME r.k = "transfer", e.h < H, NEW g \in J, g.k # "issue", g.h < H PROVE g.h <= e.h
      <4>1. IsTransfer(e.x)
        BY <3>2, <3>3 DEF IsRowOf
      <4>2. e.h < dirty /\ g.h < dirty
        BY <1>0, <1>3, <2>0, <3>3
      <4> QED
        BY <1>1, <1>2, <2>2, <3>3, <4>1, <4>2, NothingLater
    <3>4. Solvent(J \cup {r}, H)
      BY <1>0, <1>3, <2>0, <3>2, <3>3, SolventAdd
    <3> QED
      BY <3>2, <3>4
  <2> QED
    BY <1>5, <2>1, <2>2
<1> QED
  BY <1>7, <1>8, <1>11, <1>12, <1>13 DEF SpendInv

LEMMA SpendStep == SpendInv /\ [IndexNext]_indexVars => SpendInv'
<1> SUFFICES ASSUME SpendInv, [IndexNext]_indexVars PROVE SpendInv'
  OBVIOUS
<1>1. IndexInv'
  BY IndexStep DEF SpendInv
<1>2. CASE UNCHANGED indexVars
  <2>1. Heights' /\ WorkLeft' /\ NoneMissed'
    BY <1>2 DEF SpendInv, indexVars, Heights, Top, WorkLeft, Scanned, NoneMissed, LedgerDone, FirstScan
  <2>2. RowsSound(ti'.journal) /\ \A H \in Nat : H <= dirty' => Solvent(ti'.journal, H)
    BY <1>2 DEF SpendInv, indexVars
  <2> QED
    BY <1>1, <2>1, <2>2 DEF SpendInv
<1> QED
  BY <1>1, <1>2, SpendDispatch, SpendProject, SpendCommit, SpendRefuse, SpendRollback, SpendTokens,
     SpendAliases, SpendDie, SpendStart, SpendScanned DEF IndexNext

LEMMA SpendInvNeverOverspent ==
  ASSUME IsFiniteSet(Addr), SpendInv
  PROVE  NeverOverspent
<1>1. TokensInv(ti) /\ RowsSound(ti.journal) /\ Clean \in Nat /\ Clean <= Clean
  BY SpendFacts
<1>2. dirty = Clean => Solvent(ti.journal, Clean)
  BY <1>1 DEF SpendInv
<1> QED
  BY <1>1, <1>2, SolventSupply DEF NeverOverspent

(* The invariant behind the overspend rule holds in every reachable state, *)
(* for supplies of either sign (token_index.py, register_issue).           *)
THEOREM SpendInvariant == IndexSpec => []SpendInv
<1>1. IndexInit => SpendInv
  BY SpendInit
<1>2. SpendInv /\ [IndexNext]_indexVars => SpendInv'
  BY SpendStep
<1> QED
  BY <1>1, <1>2, PTL DEF IndexSpec

(* For any finite set of addresses and any tokens: as long as nothing is   *)
(* stale, only the issuer of a negative supply ever has less than nothing  *)
(* of a token, and the holders of any other token together have what was   *)
(* issued (token_credit, token_debit and the overspend check of            *)
(* _transfer), after any rollbacks, refused blocks, crashes and rescans.   *)
THEOREM AlwaysNeverOverspent ==
  ASSUME IsFiniteSet(Addr)
  PROVE  IndexSpec => []NeverOverspent
<1>1. IndexSpec => []SpendInv
  BY SpendInvariant
<1>2. SpendInv => NeverOverspent
  BY SpendInvNeverOverspent
<1> QED
  BY <1>1, <1>2, PTL

=============================================================================
