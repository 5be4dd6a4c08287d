---------------------------- MODULE PoolProofs ----------------------------
(***************************************************************************)
(* The mining pool for any miners, threads, clocks and limits: a solution  *)
(* is one share of a round, a share is paid for once and a reward is       *)
(* distributed once, with the exceptions Pool names.                       *)
(***************************************************************************)
EXTENDS Pool, SequenceTheorems, FiniteSetTheorems, WellFoundedInduction, TLAPS

ShareType ==
    [nonce : Nonce \cup {NoNonce}, address : Address, timestamp : Nat, paid : BOOLEAN, round : Nat]
HttpType ==
    [pc : {"idle", "check", "record"}, nonce : Nonce \cup {NoNonce}, address : Address, stamp : Nat]
Ref == [seq : Nat, address : Address]
PayType ==
    [pc : {"sleep", "rewards", "pay", "mark", "touch", "close"}, unpaid : SUBSET Ref,
     from : Nat, total : Nat, list : Seq(Address)]

TypeOK ==
    /\ seq \in Nat /\ time \in Nat /\ round \in Nat /\ touched \in Nat /\ late \in Nat
    /\ DOMAIN shares \subseteq 1..seq /\ shares \in [DOMAIN shares -> ShareType]
    /\ paidFor \in [1..seq -> Nat]
    /\ rewards \in Seq(Nat) /\ counted \in [1..Len(rewards) -> Nat]
    /\ http \in [Thread -> HttpType] /\ pay \in PayType
    /\ faults \in [crash : Nat, fail : Nat]

(* The guard has every nonce of the round that is not closed yet. *)
Guarded ==
    \A i \in DOMAIN shares :
        shares[i].round <= round /\ (shares[i].round = round => shares[i].nonce \in nonces)

(* A share not marked paid was paid for only by runs that crashed, unless  *)
(* it is about to be marked.                                               *)
Owing ==
    \A i \in 1..seq :
        /\ paidFor[i] <= 1 + faults.crash
        /\ i \in DOMAIN shares /\ ~shares[i].paid =>
             \/ paidFor[i] <= faults.crash
             \/ pay.pc = "mark" /\ shares[i].address = Head(pay.list)

(* What the run read is still there, and nothing of the payees it has      *)
(* still to pay, listed once each, was marked since.                       *)
Listed ==
    /\ pay.pc \in {"pay", "mark"} => /\ pay.list # <<>> /\ pay.total <= Len(pay.list)
                                     /\ \A j, k \in 1..pay.total : j # k => pay.list[j] # pay.list[k]
    /\ pay.pc \in {"rewards", "pay", "mark"} =>
         \A s \in pay.unpaid : s.seq \in DOMAIN shares /\ shares[s.seq].address = s.address
    /\ pay.pc = "rewards" => \A s \in pay.unpaid : ~shares[s.seq].paid
    /\ pay.pc \in {"pay", "mark"} =>
         \A s \in pay.unpaid : \A k \in 1..pay.total : s.address = pay.list[k] => ~shares[s.seq].paid

(* A reward that used up what RewardOnce allows is older than every share, *)
(* the last reset and what the present run asks for; while a run pays, the *)
(* reset is still to come.                                                 *)
Spent(r) ==
    /\ r < touched /\ \A i \in DOMAIN shares : r < shares[i].timestamp
    /\ pay.pc = "rewards" /\ pay.unpaid # {} => r < pay.from

Distributed ==
    \A i \in 1..Len(rewards) :
        /\ rewards[i] < time /\ counted[i] <= 1 + faults.crash + late
        /\ pay.pc \notin {"pay", "mark", "touch"} =>
             counted[i] <= faults.crash + late \/ Spent(rewards[i])

IInv == TypeOK /\ Guarded /\ CountedOnce /\ Owing /\ Listed /\ Distributed

-----------------------------------------------------------------------------
LEMMA FieldsOfShare ==
  ASSUME NEW s \in ShareType
  PROVE  /\ s.nonce \in Nonce \cup {NoNonce} /\ s.address \in Address /\ s.timestamp \in Nat
         /\ s.round \in Nat
  BY DEF ShareType

LEMMA FieldsOfPay ==
  ASSUME NEW r \in PayType
  PROVE  /\ r.unpaid \subseteq Ref /\ r.from \in Nat /\ r.total \in Nat /\ r.list \in Seq(Address)
  BY DEF PayType

(* A history and the sequence it is. *)
LEMMA Longer ==
  ASSUME NEW n \in Nat, NEW f \in [1..n -> Nat]
  PROVE  /\ Append(f, 0) \in [1..(n + 1) -> Nat] /\ Append(f, 0)[n + 1] = 0
         /\ \A i \in 1..n : Append(f, 0)[i] = f[i]
<1>1. f \in Seq(Nat)
  BY SeqDef
<1>2. Len(f) = n
  BY <1>1
<1> DEFINE g == Append(f, 0)
<1>3. /\ g \in Seq(Nat) /\ Len(g) = n + 1 /\ g[n + 1] = 0
      /\ \A i \in 1..n : g[i] = f[i]
  BY <1>1, <1>2, AppendProperties
<1> HIDE DEF g
<1>4. g \in [1..(n + 1) -> Nat]
  BY <1>3
<1> QED
  BY <1>3, <1>4 DEF g

LEMMA Marked ==
  ASSUME NEW s \in ShareType, NEW b \in BOOLEAN
  PROVE  LET m == [s EXCEPT !.paid = b] IN
         /\ m \in ShareType /\ m.paid = b /\ m.nonce = s.nonce /\ m.address = s.address
         /\ m.timestamp = s.timestamp /\ m.round = s.round
  BY DEF ShareType

LEMMA Stamped ==
  ASSUME NEW s \in ShareType, NEW n \in Nat
  PROVE  LET m == [s EXCEPT !.timestamp = n] IN
         /\ m \in ShareType /\ m.paid = s.paid /\ m.nonce = s.nonce /\ m.address = s.address
         /\ m.timestamp = n /\ m.round = s.round
  BY DEF ShareType

(* The record of the run after a change of label alone. *)
LEMMA Moved ==
  ASSUME NEW r \in PayType, NEW l \in {"sleep", "rewards", "pay", "mark", "touch", "close"}
  PROVE  LET m == [r EXCEPT !.pc = l] IN
         /\ m \in PayType /\ m.pc = l /\ m.unpaid = r.unpaid /\ m.from = r.from
         /\ m.total = r.total /\ m.list = r.list
  BY DEF PayType

LEMMA FaultCounted ==
  ASSUME NEW f \in [crash : Nat, fail : Nat]
  PROVE  /\ f.crash \in Nat /\ f.fail \in Nat
         /\ LET m == [f EXCEPT !.fail = @ + 1] IN
               m \in [crash : Nat, fail : Nat] /\ m.crash = f.crash
         /\ LET m == [f EXCEPT !.crash = @ + 1] IN
               m \in [crash : Nat, fail : Nat] /\ m.crash = f.crash + 1
  OBVIOUS

LEMMA IdleTypes ==
  /\ Idle \in HttpType
  /\ Asleep \in PayType /\ Asleep.pc = "sleep" /\ Asleep.unpaid = {}
  BY DEF Idle, Asleep, HttpType, PayType, Address

(* A set of times has its least, which Min finds. *)
LEMMA LeastTime ==
  ASSUME NEW S \in SUBSET Nat, S # {}
  PROVE  Min(S) \in S /\ \A y \in S : Min(S) <= y
<1>1. PICK x \in S : \A y \in S : ~ (<<y, x>> \in OpToRel(<, Nat))
  BY NatLessThanWellFounded, WFMin
<1>2. \A y \in S : ~ (y < x)
  BY <1>1 DEF OpToRel
<1>3. \A y \in S : x <= y
  BY <1>2
<1> QED
  BY <1>3 DEF Min

LEMMA Before ==
  ASSUME IInv
  PROVE  /\ seq \in Nat /\ time \in Nat /\ round \in Nat /\ touched \in Nat /\ late \in Nat
         /\ DOMAIN shares \subseteq 1..seq /\ shares \in [DOMAIN shares -> ShareType]
         /\ \A i \in DOMAIN shares : shares[i] \in ShareType /\ i \in 1..seq
         /\ paidFor \in [1..seq -> Nat] /\ rewards \in Seq(Nat) /\ Len(rewards) \in Nat
         /\ counted \in [1..Len(rewards) -> Nat] /\ http \in [Thread -> HttpType]
         /\ pay \in PayType /\ faults \in [crash : Nat, fail : Nat] /\ faults.crash \in Nat
<1>1. TypeOK
  BY DEF IInv
<1>2. faults \in [crash : Nat, fail : Nat] /\ rewards \in Seq(Nat)
  BY <1>1 DEF TypeOK
<1>3. faults.crash \in Nat /\ Len(rewards) \in Nat
  BY <1>2, FaultCounted
<1>4. \A i \in DOMAIN shares : shares[i] \in ShareType /\ i \in 1..seq
  BY <1>1 DEF TypeOK
<1> QED
  BY <1>1, <1>3, <1>4, Zenon DEF TypeOK

-----------------------------------------------------------------------------
(* HTTP threads. *)
LEMMA ArriveInv ==
  ASSUME IInv, NEW t \in Thread, NEW n \in Nonce, NEW a \in Address, Arrive(t, n, a)
  PROVE  IInv'
<1>1. /\ http' = [http EXCEPT ![t] = [Idle EXCEPT !.pc = "check", !.nonce = n, !.address = a]]
      /\ UNCHANGED <<shares, archive, nonces, seq, pay, round, paidFor, touched, late, faults>>
      /\ \/ rewards' = Append(rewards, time) /\ counted' = Append(counted, 0) /\ time' = time + 1
         \/ UNCHANGED <<rewards, counted, time>>
  BY Zenon DEF Arrive, store
<1>2. http' \in [Thread -> HttpType]
  <2>1. [Idle EXCEPT !.pc = "check", !.nonce = n, !.address = a] \in HttpType
    BY DEF Idle, HttpType
  <2> QED
    BY <1>1, <2>1, Before
<1>3. /\ rewards' \in Seq(Nat) /\ counted' \in [1..Len(rewards') -> Nat] /\ time' \in Nat
      /\ \A i \in 1..Len(rewards') :
           \/ i \in 1..Len(rewards) /\ rewards'[i] = rewards[i] /\ counted'[i] = counted[i]
           \/ rewards'[i] < time' /\ counted'[i] = 0
      /\ time' >= time
  <2>1. CASE rewards' = Append(rewards, time) /\ counted' = Append(counted, 0) /\ time' = time + 1
    <3>1. /\ rewards' \in Seq(Nat) /\ Len(rewards') = Len(rewards) + 1
          /\ \A i \in 1..Len(rewards) : rewards'[i] = rewards[i]
          /\ rewards'[Len(rewards) + 1] = time
      BY <2>1, Before, AppendProperties
    <3>2. /\ counted' \in [1..(Len(rewards) + 1) -> Nat] /\ counted'[Len(rewards) + 1] = 0
          /\ \A i \in 1..Len(rewards) : counted'[i] = counted[i]
      BY <2>1, Before, Longer
    <3>3. \A i \in 1..(Len(rewards) + 1) : i \in 1..Len(rewards) \/ i = Len(rewards) + 1
      BY Before
    <3>4. time' \in Nat /\ time' >= time /\ time < time'
      BY <2>1, Before
    <3>5. \A i \in 1..(Len(rewards) + 1) :
            \/ i \in 1..Len(rewards) /\ rewards'[i] = rewards[i] /\ counted'[i] = counted[i]
            \/ rewards'[i] < time' /\ counted'[i] = 0
      BY <3>1, <3>2, <3>3, <3>4
    <3> QED
      BY <3>1, <3>2, <3>4, <3>5
  <2>2. CASE UNCHANGED <<rewards, counted, time>>
    BY <2>2, Before
  <2> QED
    BY <1>1, <2>1, <2>2
<1>4. Distributed'
  <2> SUFFICES ASSUME NEW i \in 1..Len(rewards')
               PROVE  /\ rewards'[i] < time' /\ counted'[i] <= 1 + faults.crash + late
                      /\ pay.pc \notin {"pay", "mark", "touch"} =>
                           counted'[i] <= faults.crash + late \/ Spent(rewards'[i])
    BY <1>1 DEF Distributed, Spent
  <2>1. CASE i \in 1..Len(rewards) /\ rewards'[i] = rewards[i] /\ counted'[i] = counted[i]
    <3>1. rewards[i] \in Nat
      BY <2>1, Before
    <3>2. rewards[i] < time
      BY <2>1 DEF IInv, Distributed
    <3>3. rewards[i] < time'
      BY <1>3, <3>1, <3>2, Before
    <3> QED
      BY <2>1, <3>3 DEF IInv, Distributed
  <2>2. CASE rewards'[i] < time' /\ counted'[i] = 0
    BY <2>2, Before
  <2> QED
    BY <1>3, <2>1, <2>2
<1>5. TypeOK'
  BY <1>1, <1>2, <1>3, Before DEF TypeOK
<1>6. Guarded' /\ CountedOnce' /\ Owing' /\ Listed'
  BY <1>1, Zenon DEF IInv, Guarded, CountedOnce, Owing, Listed
<1> QED
  BY <1>4, <1>5, <1>6 DEF IInv

LEMMA SeenInv ==
  ASSUME IInv, NEW t \in Thread, nonce_seen(t)
  PROVE  IInv'
<1>1. /\ http' = [http EXCEPT ![t] =
           IF http[t].nonce \in nonces THEN Idle ELSE [http[t] EXCEPT !.pc = "record", !.stamp = time]]
      /\ UNCHANGED <<shares, archive, nonces, seq, pay, round, paidFor, touched, late, faults>>
      /\ UNCHANGED <<rewards, counted, time>>
  BY Zenon DEF nonce_seen, store, hist
<1>2. http' \in [Thread -> HttpType]
  <2>1. [http[t] EXCEPT !.pc = "record", !.stamp = time] \in HttpType
    BY Before DEF HttpType
  <2> QED
    BY <1>1, <2>1, Before, IdleTypes
<1>3. TypeOK'
  BY <1>1, <1>2, Before DEF TypeOK
<1>4. Guarded' /\ CountedOnce' /\ Owing' /\ Listed'
  BY <1>1, Zenon DEF IInv, Guarded, CountedOnce, Owing, Listed
<1>5. Distributed'
  BY <1>1, Zenon DEF IInv, Distributed, Spent
<1> QED
  BY <1>3, <1>4, <1>5 DEF IInv

LEMMA RecordInv ==
  ASSUME IInv, NEW t \in Thread, record_share(t)
  PROVE  IInv'
<1> DEFINE x == ShareOf(t)
           n == seq + 1
<1>1. /\ http' = [http EXCEPT ![t] = Idle]
      /\ UNCHANGED <<archive, rewards, time, pay, round, counted, touched, faults>>
      /\ \/ UNCHANGED <<nonces, seq, shares, paidFor, late>>
         \/ http[t].nonce \notin nonces /\ Appended(t)
  BY Zenon DEF record_share
<1>2. http' \in [Thread -> HttpType]
  BY <1>1, Before, IdleTypes
<1>3. CASE UNCHANGED <<nonces, seq, shares, paidFor, late>>
  <2>1. TypeOK'
    BY <1>1, <1>2, <1>3, Before DEF TypeOK
  <2>2. Guarded' /\ CountedOnce' /\ Owing' /\ Listed'
    BY <1>1, <1>3, Zenon DEF IInv, Guarded, CountedOnce, Owing, Listed
  <2>3. Distributed'
    BY <1>1, <1>3, Zenon DEF IInv, Distributed, Spent
  <2> QED
    BY <2>1, <2>2, <2>3 DEF IInv
<1>4. CASE http[t].nonce \notin nonces /\ Appended(t)
  <2>1. /\ nonces' = nonces \cup {http[t].nonce} /\ seq' = n
        /\ shares' = [i \in DOMAIN shares \cup {n} |-> IF i = n THEN x ELSE shares[i]]
        /\ paidFor' = Append(paidFor, 0)
        /\ late' = IF http[t].stamp < touched THEN late + 1 ELSE late
    BY <1>4 DEF Appended
  <2>2. /\ x \in ShareType /\ x.nonce = http[t].nonce /\ x.round = round
        /\ x.timestamp = http[t].stamp /\ http[t].stamp \in Nat
    <3>1. http[t] \in HttpType
      BY Before
    <3> QED
      BY <3>1, Before DEF ShareOf, ShareType, HttpType
  <2> HIDE DEF x
  <2>3. n \in Nat /\ n \notin DOMAIN shares /\ n \in 1..n /\ \A i \in 1..seq : i \in 1..n /\ i # n
    BY Before
  <2>4. \A i \in 1..n : i \in 1..seq \/ i = n
    BY Before
  <2>5. /\ DOMAIN shares' = DOMAIN shares \cup {n} /\ shares'[n] = x
        /\ \A i \in DOMAIN shares : shares'[i] = shares[i]
    BY <2>1, <2>3
  <2>6. /\ paidFor' \in [1..n -> Nat] /\ paidFor'[n] = 0
        /\ \A i \in 1..seq : paidFor'[i] = paidFor[i]
    BY <2>1, Before, Longer
  <2>7. late' \in Nat /\ late' >= late
    BY <2>1, Before
  <2>8. TypeOK'
    <3>1. shares' \in [DOMAIN shares \cup {n} -> ShareType] /\ DOMAIN shares \cup {n} \subseteq 1..n
      BY <2>1, <2>2, <2>3, Before
    <3>2. /\ shares' \in [DOMAIN shares' -> ShareType] /\ DOMAIN shares' \subseteq 1..seq'
          /\ seq' \in Nat /\ paidFor' \in [1..seq' -> Nat]
      BY <2>1, <2>3, <2>5, <2>6, <3>1
    <3> QED
      BY <1>1, <1>2, <2>7, <3>2, Before, Zenon DEF TypeOK
  <2>9. Guarded'
    <3>1. \A i \in DOMAIN shares :
            shares[i].round <= round /\ (shares[i].round = round => shares[i].nonce \in nonces')
      BY <2>1 DEF IInv, Guarded
    <3>2. x.round <= round /\ x.nonce \in nonces'
      BY <2>1, <2>2, Before
    <3> QED
      BY <1>1, <2>5, <3>1, <3>2 DEF Guarded
  <2>10. CountedOnce'
    <3>1. \A i \in DOMAIN shares : shares[i].round = round => shares[i].nonce # x.nonce
      BY <1>4, <2>2 DEF IInv, Guarded
    <3> QED
      BY <2>2, <2>5, <3>1 DEF IInv, CountedOnce
  <2>11. Owing'
    <3> SUFFICES ASSUME NEW i \in 1..n
                 PROVE  /\ paidFor'[i] <= 1 + faults.crash
                        /\ i \in DOMAIN shares' /\ ~shares'[i].paid =>
                             \/ paidFor'[i] <= faults.crash
                             \/ pay.pc = "mark" /\ shares'[i].address = Head(pay.list)
      BY <1>1, <2>1 DEF Owing
    <3>1. CASE i = n
      BY <2>6, <3>1, Before
    <3>2. CASE i \in 1..seq
      <4>1. paidFor'[i] = paidFor[i] /\ i # n
        BY <2>3, <2>6, <3>2
      <4>2. i \in DOMAIN shares' => i \in DOMAIN shares /\ shares'[i] = shares[i]
        BY <2>5, <4>1
      <4> QED
        BY <3>2, <4>1, <4>2, Zenon DEF IInv, Owing
    <3> QED
      BY <2>4, <3>1, <3>2
  <2>12. Listed'
    <3>1. pay' = pay
      BY <1>1
    <3>2. \A i \in DOMAIN shares : i \in DOMAIN shares' /\ shares'[i] = shares[i]
      BY <2>5
    <3> QED
      BY <3>1, <3>2, Zenon DEF IInv, Listed
  <2>13. Distributed'
    <3> SUFFICES ASSUME NEW i \in 1..Len(rewards)
                 PROVE  /\ rewards[i] < time /\ counted[i] <= 1 + faults.crash + late'
                        /\ pay.pc \notin {"pay", "mark", "touch"} =>
                             counted[i] <= faults.crash + late' \/ Spent(rewards[i])'
      BY <1>1 DEF Distributed, Spent
    <3>1. rewards[i] \in Nat /\ counted[i] \in Nat
      BY Before
    <3>2. /\ rewards[i] < time /\ counted[i] <= 1 + faults.crash + late
          /\ pay.pc \notin {"pay", "mark", "touch"} =>
               counted[i] <= faults.crash + late \/ Spent(rewards[i])
      BY DEF IInv, Distributed
    <3>3. CASE http[t].stamp < touched
      <4>1. late' = late + 1 /\ late \in Nat /\ faults.crash \in Nat
        BY <2>1, <3>3, Before
      <4>2. counted[i] <= faults.crash + late' /\ counted[i] <= 1 + faults.crash + late'
        <5>1. counted[i] <= 1 + faults.crash + late
          BY <3>2
        <5> QED
          BY <3>1, <4>1, <5>1
      <4> QED
        BY <3>2, <4>2
    <3>4. CASE ~(http[t].stamp < touched)
      <4>1. Spent(rewards[i]) => Spent(rewards[i])'
        <5> SUFFICES ASSUME Spent(rewards[i]) PROVE Spent(rewards[i])'
          OBVIOUS
        <5>1. rewards[i] < x.timestamp
          BY <2>2, <3>1, <3>4, Before DEF Spent
        <5> QED
          BY <1>1, <2>5, <5>1 DEF Spent
      <4> QED
        BY <2>1, <3>2, <3>4, <4>1
    <3> QED
      BY <3>3, <3>4
  <2> QED
    BY <2>8, <2>9, <2>10, <2>11, <2>12, <2>13 DEF IInv
<1> QED
  BY <1>1, <1>3, <1>4

-----------------------------------------------------------------------------
(* The payout thread. *)

(* Steps of a run that change only the run and the faults that are not     *)
(* crashes, and leave no payment to be marked.                             *)
LEMMA RunStep ==
  ASSUME IInv, pay' \in PayType, faults' \in [crash : Nat, fail : Nat], faults'.crash = faults.crash,
         UNCHANGED <<shares, archive, nonces, seq, rewards, time, http, round, paidFor, counted,
                     touched, late>>,
         pay.pc # "mark", Listed', Distributed'
  PROVE  IInv'
<1>1. TypeOK'
  BY Before DEF TypeOK
<1>2. Guarded' /\ CountedOnce'
  BY Zenon DEF IInv, Guarded, CountedOnce
<1>3. Owing'
  BY Zenon DEF IInv, Owing
<1> QED
  BY <1>1, <1>2, <1>3 DEF IInv

LEMMA UnpaidInv ==
  ASSUME IInv, ReadUnpaid
  PROVE  IInv'
<1> DEFINE U == {[seq |-> i, address |-> shares[i].address] : i \in Unpaid}
           T == {shares[i].timestamp : i \in Unpaid}
           f == IF Unpaid = {} THEN time ELSE Min(T)
<1>1. /\ pay.pc = "sleep" /\ pay' = [pay EXCEPT !.pc = "rewards", !.unpaid = U, !.from = f]
      /\ UNCHANGED <<shares, archive, nonces, seq, rewards, time, http, round, paidFor, counted,
                     touched, late>>
      /\ UNCHANGED faults
  BY Zenon DEF ReadUnpaid, store, hist
<1>2. Unpaid \subseteq DOMAIN shares /\ \A i \in Unpaid : ~shares[i].paid
  BY DEF Unpaid
<1>3. \A i \in Unpaid : /\ shares[i].timestamp \in Nat /\ shares[i].address \in Address
                        /\ i \in Nat
  BY <1>2, Before, FieldsOfShare
<1>4. U \subseteq Ref
  BY <1>3 DEF Ref
<1>5. f \in Nat /\ (Unpaid # {} => \E i \in Unpaid : f = shares[i].timestamp)
  <2>1. CASE Unpaid = {}
    BY <2>1, Before
  <2>2. CASE Unpaid # {}
    <3>1. T \in SUBSET Nat /\ T # {}
      BY <1>3, <2>2
    <3>2. Min(T) \in T
      BY <3>1, LeastTime
    <3> QED
      BY <1>3, <2>2, <3>2
  <2> QED
    BY <2>1, <2>2
<1>6. \A s \in U : s.seq \in Unpaid /\ s.address = shares[s.seq].address
  OBVIOUS
<1>7. U # {} => Unpaid # {}
  OBVIOUS
<1> HIDE DEF U, f, T
<1>8. pay' \in PayType /\ pay'.pc = "rewards" /\ pay'.unpaid = U /\ pay'.from = f
  BY <1>1, <1>4, <1>5, Before DEF PayType
<1>9. Listed'
  <2>1. \A s \in pay'.unpaid : /\ s.seq \in DOMAIN shares' /\ shares'[s.seq].address = s.address
                              /\ ~shares'[s.seq].paid
    BY <1>1, <1>2, <1>6, <1>8
  <2> QED
    BY <1>8, <2>1 DEF Listed
<1>10. Distributed'
  <2> SUFFICES ASSUME NEW i \in 1..Len(rewards), Spent(rewards[i])
               PROVE  U # {} => rewards[i] < f
    BY <1>1, <1>8 DEF IInv, Distributed, Spent
  <2> QED
    BY <1>2, <1>5, <1>7 DEF Spent
<1> QED
  BY <1>1, <1>8, <1>9, <1>10, Before, RunStep

LEMMA UnreadInv ==
  ASSUME IInv, RewardsUnread
  PROVE  IInv'
<1>1. /\ pay.pc = "rewards" /\ pay' = [pay EXCEPT !.pc = "close"]
      /\ UNCHANGED <<shares, archive, nonces, seq, rewards, time, http, round, paidFor, counted,
                     touched, late>>
      /\ faults' = [faults EXCEPT !.fail = @ + 1]
  BY Zenon DEF RewardsUnread, store, hist
<1>2. pay' \in PayType /\ pay'.pc = "close"
  BY <1>1, Before, Moved
<1>3. faults' \in [crash : Nat, fail : Nat] /\ faults'.crash = faults.crash
  BY <1>1, Before, FaultCounted
<1>4. Listed'
  BY <1>2 DEF Listed
<1>5. Distributed'
  BY <1>1, <1>2, <1>3 DEF IInv, Distributed, Spent
<1> QED
  BY <1>1, <1>2, <1>3, <1>4, <1>5, RunStep

(* The payees of a run are finitely many, so they can be listed. *)
LEMMA EligibleFinite ==
  ASSUME IInv, pay.pc = "rewards", NEW total
  PROVE  IsFiniteSet(Eligible(total)) /\ Eligible(total) \subseteq Address
<1> DEFINE A == {shares[i].address : i \in DOMAIN shares}
<1>1. IsFiniteSet(DOMAIN shares)
  <2>1. IsFiniteSet(1..seq)
    BY Before, FS_Interval
  <2> QED
    BY <2>1, Before, FS_Subset
<1>2. IsFiniteSet(A)
  <2>1. [i \in DOMAIN shares |-> shares[i].address] \in Surjection(DOMAIN shares, A)
    BY DEF Surjection
  <2> QED
    BY <1>1, <2>1, FS_Surjection
<1>3. A \subseteq Address
  BY Before, FieldsOfShare
<1>4. \A s \in pay.unpaid : s.address \in A
  BY DEF IInv, Listed
<1>5. Eligible(total) \subseteq A
  BY <1>4 DEF Eligible
<1> HIDE DEF A
<1> QED
  BY <1>2, <1>3, <1>5, FS_Subset

LEMMA AnOrder ==
  ASSUME NEW S, IsFiniteSet(S), NEW q \in SetToSeqs(S)
  PROVE  q \in Seq(S) /\ \A j, k \in 1..Len(q) : j # k => q[j] # q[k]
<1>1. Cardinality(S) \in Nat
  BY FS_CardinalityType
<1> DEFINE n == Cardinality(S)
<1>2. q \in [1..n -> S] /\ \A j, k \in 1..n : j # k => q[j] # q[k]
  BY DEF SetToSeqs
<1>3. q \in Seq(S)
  BY <1>1, <1>2, SeqDef
<1>4. Len(q) = n
  BY <1>1, <1>2, <1>3
<1> QED
  BY <1>2, <1>3, <1>4

LEMMA RewardsInv ==
  ASSUME IInv, ReadRewards
  PROVE  IInv'
<1> DEFINE new == {i \in DOMAIN rewards : rewards[i] >= pay.from}
           total == Reward * Cardinality(new)
<1>1. /\ pay.pc = "rewards"
      /\ UNCHANGED <<shares, archive, nonces, seq, rewards, time, http, round, paidFor, touched, late>>
      /\ UNCHANGED faults
  BY Zenon DEF ReadRewards, store
<1>2. CASE pay' = [pay EXCEPT !.pc = "close"] /\ counted' = counted
  <2>1. pay' \in PayType /\ pay'.pc = "close"
    BY <1>2, Before, Moved
  <2>2. Listed'
    BY <2>1 DEF Listed
  <2>3. Distributed'
    BY <1>1, <1>2, <2>1 DEF IInv, Distributed, Spent
  <2> QED
    BY <1>1, <1>2, <2>1, <2>2, <2>3, Before, RunStep
<1>3. CASE pay.unpaid # {} /\ \E q \in SetToSeqs(Eligible(total)) :
             LET list == IF AltFee THEN Append(q, alt_add) ELSE q
             IN  /\ pay' = [pay EXCEPT !.pc = IF list = <<>> THEN "close" ELSE "pay",
                                       !.list = list, !.total = Len(q)]
                 /\ counted' = IF list = <<>> THEN counted
                      ELSE [i \in DOMAIN counted |->
                              IF i \in new THEN counted[i] + 1 ELSE counted[i]]
  <2>1. PICK q \in SetToSeqs(Eligible(total)) :
             LET list == IF AltFee THEN Append(q, alt_add) ELSE q
             IN  /\ pay' = [pay EXCEPT !.pc = IF list = <<>> THEN "close" ELSE "pay",
                                       !.list = list, !.total = Len(q)]
                 /\ counted' = IF list = <<>> THEN counted
                      ELSE [i \in DOMAIN counted |->
                              IF i \in new THEN counted[i] + 1 ELSE counted[i]]
    BY <1>3
  <2> DEFINE list == IF AltFee THEN Append(q, alt_add) ELSE q
             l == IF list = <<>> THEN "close" ELSE "pay"
  <2>2. q \in Seq(Address) /\ \A j, k \in 1..Len(q) : j # k => q[j] # q[k]
    <3>1. q \in Seq(Eligible(total)) /\ \A j, k \in 1..Len(q) : j # k => q[j] # q[k]
      BY <1>1, EligibleFinite, AnOrder
    <3>2. Eligible(total) \subseteq Address
      BY <1>1, EligibleFinite
    <3> HIDE DEF total
    <3> QED
      BY <3>1, <3>2
  <2>3. list \in Seq(Address) /\ Len(q) \in Nat /\ Len(q) <= Len(list)
        /\ \A j \in 1..Len(q) : list[j] = q[j]
    <3>1. alt_add \in Address
      BY DEF Address
    <3>2. CASE AltFee
      BY <2>2, <3>1, <3>2
    <3>3. CASE ~AltFee
      BY <2>2, <3>3
    <3> QED
      BY <3>2, <3>3
  <2>4. pay' = [pay EXCEPT !.pc = l, !.list = list, !.total = Len(q)]
    BY <2>1, Zenon
  <2>5. \/ list = <<>> /\ counted' = counted
        \/ list # <<>> /\ counted' = [i \in DOMAIN counted |->
                                       IF i \in new THEN counted[i] + 1 ELSE counted[i]]
    BY <2>1
  <2>6. l \in {"close", "pay"} /\ (l = "close" <=> list = <<>>)
    OBVIOUS
  <2> HIDE DEF list, l
  <2>7. /\ pay' \in PayType /\ pay'.pc = l /\ pay'.unpaid = pay.unpaid /\ pay'.list = list
        /\ pay'.total = Len(q)
    BY <2>3, <2>4, <2>6, Before DEF PayType
  <2>8. /\ counted' \in [1..Len(rewards) -> Nat]
        /\ \A i \in 1..Len(rewards) :
             \/ counted'[i] = counted[i]
             \/ list # <<>> /\ i \in new /\ counted'[i] = counted[i] + 1
    <3>1. CASE counted' = counted
      BY <3>1, Before
    <3>2. CASE list # <<>> /\ counted' = [i \in DOMAIN counted |->
                                       IF i \in new THEN counted[i] + 1 ELSE counted[i]]
      <4> HIDE DEF new
      <4> QED
        BY <3>2, Before
    <3> QED
      BY <2>5, <3>1, <3>2
  <2>9. Listed'
    <3>1. \A s \in pay.unpaid : /\ s.seq \in DOMAIN shares /\ shares[s.seq].address = s.address
                               /\ ~shares[s.seq].paid
      BY <1>1 DEF IInv, Listed
    <3>2. \A j, k \in 1..Len(q) : j # k => list[j] # list[k]
      BY <2>2, <2>3
    <3> QED
      BY <1>1, <2>3, <2>6, <2>7, <3>1, <3>2 DEF Listed
  <2>10. Distributed'
    <3> SUFFICES ASSUME NEW i \in 1..Len(rewards)
                 PROVE  /\ rewards[i] < time /\ counted'[i] <= 1 + faults.crash + late
                        /\ l = "close" => counted'[i] <= faults.crash + late \/ Spent(rewards[i])'
      BY <1>1, <2>6, <2>7 DEF Distributed, Spent
    <3>1. rewards[i] \in Nat /\ counted[i] \in Nat /\ pay.from \in Nat
      BY Before, FieldsOfPay
    <3>2. /\ rewards[i] < time /\ counted[i] <= 1 + faults.crash + late
          /\ counted[i] <= faults.crash + late \/ Spent(rewards[i])
      BY <1>1 DEF IInv, Distributed
    <3>3. CASE counted'[i] = counted[i]
      <4>1. l = "close" /\ Spent(rewards[i]) => Spent(rewards[i])'
        BY <1>1, <2>7 DEF Spent
      <4> QED
        BY <3>2, <3>3, <4>1
    <3>4. CASE list # <<>> /\ i \in new /\ counted'[i] = counted[i] + 1
      <4>1. rewards[i] >= pay.from
        BY <3>4
      <4>2. ~Spent(rewards[i])
        BY <1>1, <1>3, <3>1, <4>1 DEF Spent
      <4>3. counted[i] <= faults.crash + late
        BY <3>2, <4>2
      <4>4. counted'[i] <= 1 + faults.crash + late
        BY <3>1, <3>4, <4>3, Before
      <4> QED
        BY <2>6, <3>2, <3>4, <4>4
    <3> QED
      BY <2>8, <3>3, <3>4
  <2>11. TypeOK'
    BY <1>1, <2>7, <2>8, Before DEF TypeOK
  <2>12. Guarded' /\ CountedOnce'
    BY <1>1, Zenon DEF IInv, Guarded, CountedOnce
  <2>13. Owing'
    BY <1>1, Zenon DEF IInv, Owing
  <2> QED
    BY <2>9, <2>10, <2>11, <2>12, <2>13 DEF IInv
<1> QED
  BY <1>2, <1>3, Zenon DEF ReadRewards

LEMMA SubmitInv ==
  ASSUME IInv, SubmitPayment
  PROVE  IInv'
<1> DEFINE due == {i \in 1..seq : pay.total > 0
                                   /\ [seq |-> i, address |-> Head(pay.list)] \in pay.unpaid}
<1>1. /\ pay.pc = "pay" /\ pay' = [pay EXCEPT !.pc = "mark"]
      /\ UNCHANGED <<shares, archive, nonces, seq, rewards, time, http, round, counted, touched, late,
                     faults>>
      /\ paidFor' = [i \in DOMAIN paidFor |->
           IF pay.total > 0 /\ [seq |-> i, address |-> Head(pay.list)] \in pay.unpaid
             THEN paidFor[i] + 1 ELSE paidFor[i]]
  BY Zenon DEF SubmitPayment, store
<1>2. /\ pay' \in PayType /\ pay'.pc = "mark" /\ pay'.unpaid = pay.unpaid /\ pay'.list = pay.list
      /\ pay'.total = pay.total
  BY <1>1, Before, Moved
<1>3. /\ paidFor' \in [1..seq -> Nat]
      /\ \A i \in 1..seq : paidFor'[i] = IF i \in due THEN paidFor[i] + 1 ELSE paidFor[i]
  BY <1>1, Before
<1>4. \A i \in due : /\ i \in DOMAIN shares /\ ~shares[i].paid
                     /\ shares[i].address = Head(pay.list)
  <2> SUFFICES ASSUME NEW i \in due
               PROVE  /\ i \in DOMAIN shares /\ ~shares[i].paid
                      /\ shares[i].address = Head(pay.list)
    OBVIOUS
  <2> DEFINE s == [seq |-> i, address |-> Head(pay.list)]
  <2>1. s \in pay.unpaid /\ pay.total > 0 /\ s.seq = i /\ s.address = Head(pay.list)
    OBVIOUS
  <2>2. pay.list \in Seq(Address) /\ pay.list # <<>> /\ pay.total \in Nat
    BY <1>1, Before, FieldsOfPay DEF IInv, Listed
  <2>3. Head(pay.list) = pay.list[1] /\ 1 \in 1..pay.total
    BY <2>1, <2>2
  <2> HIDE DEF s
  <2>4. s.seq \in DOMAIN shares /\ shares[s.seq].address = s.address
    BY <1>1, <2>1 DEF IInv, Listed
  <2>5. ~shares[s.seq].paid
    BY <1>1, <2>1, <2>3 DEF IInv, Listed
  <2> QED
    BY <2>1, <2>4, <2>5
<1>5. due \subseteq 1..seq
  OBVIOUS
<1> HIDE DEF due
<1>6. Owing'
  <2> SUFFICES ASSUME NEW i \in 1..seq
               PROVE  /\ paidFor'[i] <= 1 + faults.crash
                      /\ i \in DOMAIN shares /\ ~shares[i].paid =>
                           \/ paidFor'[i] <= faults.crash
                           \/ shares[i].address = Head(pay.list)
    BY <1>1, <1>2 DEF Owing
  <2>1. /\ paidFor[i] <= 1 + faults.crash
        /\ i \in DOMAIN shares /\ ~shares[i].paid => paidFor[i] <= faults.crash
    BY <1>1 DEF IInv, Owing
  <2>2. CASE i \in due
    <3>1. paidFor[i] <= faults.crash /\ paidFor'[i] = paidFor[i] + 1 /\ paidFor[i] \in Nat
      BY <1>3, <1>4, <2>1, <2>2, Before
    <3>2. paidFor'[i] <= 1 + faults.crash
      BY <3>1, Before
    <3> QED
      BY <1>4, <2>2, <3>2
  <2>3. CASE i \notin due
    BY <1>3, <2>1, <2>3
  <2> QED
    BY <2>2, <2>3
<1>7. Listed'
  <2>1. shares' = shares
    BY <1>1
  <2> QED
    BY <1>1, <1>2, <2>1 DEF IInv, Listed
<1>8. Distributed'
  <2>1. \A i \in 1..Len(rewards) : rewards[i] < time /\ counted[i] <= 1 + faults.crash + late
    BY DEF IInv, Distributed
  <2> QED
    BY <1>1, <1>2, <2>1 DEF Distributed
<1>9. TypeOK'
  BY <1>1, <1>2, <1>3, Before DEF TypeOK
<1>10. Guarded' /\ CountedOnce'
  BY <1>1, Zenon DEF IInv, Guarded, CountedOnce
<1> QED
  BY <1>6, <1>7, <1>8, <1>9, <1>10 DEF IInv

LEMMA FailsInv ==
  ASSUME IInv, SubmitFails
  PROVE  IInv'
<1>1. /\ pay.pc = "pay" /\ pay' = [pay EXCEPT !.pc = "mark"]
      /\ UNCHANGED <<shares, archive, nonces, seq, rewards, time, http, round, paidFor, counted,
                     touched, late>>
      /\ faults' = [faults EXCEPT !.fail = @ + 1]
  BY Zenon DEF SubmitFails, store, hist
<1>2. /\ pay' \in PayType /\ pay'.pc = "mark" /\ pay'.unpaid = pay.unpaid /\ pay'.list = pay.list
      /\ pay'.total = pay.total
  BY <1>1, Before, Moved
<1>3. faults' \in [crash : Nat, fail : Nat] /\ faults'.crash = faults.crash
  BY <1>1, Before, FaultCounted
<1>4. Listed'
  <2>1. shares' = shares
    BY <1>1
  <2> QED
    BY <1>1, <1>2, <2>1 DEF IInv, Listed
<1>5. Distributed'
  <2>1. \A i \in 1..Len(rewards) : rewards[i] < time /\ counted[i] <= 1 + faults.crash + late
    BY DEF IInv, Distributed
  <2> QED
    BY <1>1, <1>2, <1>3, <2>1 DEF Distributed
<1> QED
  BY <1>1, <1>2, <1>3, <1>4, <1>5, RunStep

LEMMA MarkInv ==
  ASSUME IInv, mark_paid
  PROVE  IInv'
<1> DEFINE h == Head(pay.list)
           n == IF pay.total > 0 THEN pay.total - 1 ELSE 0
<1>1. /\ pay.pc = "mark"
      /\ shares' = [i \in DOMAIN shares |->
                      [shares[i] EXCEPT !.paid = shares[i].paid \/ shares[i].address = h]]
      /\ pay' = [pay EXCEPT !.list = Tail(pay.list), !.total = n, !.pc = AfterMark]
      /\ UNCHANGED <<archive, nonces, seq, rewards, time, http, round, paidFor, counted, touched, late,
                     faults>>
  BY Zenon DEF mark_paid, Paying, hist
<1>2. /\ pay.list \in Seq(Address) /\ pay.list # <<>> /\ pay.total \in Nat
      /\ pay.total <= Len(pay.list) /\ \A j, k \in 1..pay.total : j # k => pay.list[j] # pay.list[k]
  BY <1>1, Before, FieldsOfPay DEF IInv, Listed
<1>3. /\ h = pay.list[1] /\ Tail(pay.list) \in Seq(Address) /\ Len(Tail(pay.list)) = Len(pay.list) - 1
      /\ \A k \in 1..(Len(pay.list) - 1) : Tail(pay.list)[k] = pay.list[k + 1]
      /\ Len(pay.list) \in Nat /\ Len(pay.list) >= 1
  BY <1>2, HeadTailProperties
<1>4. /\ n \in Nat /\ n <= Len(pay.list) - 1
      /\ \A k \in 1..n : k + 1 \in 1..pay.total /\ k \in 1..(Len(pay.list) - 1)
                          /\ k + 1 # 1 /\ 1 \in 1..pay.total
  BY <1>2, <1>3
<1>5. AfterMark = "touch" \/ (AfterMark = "pay" /\ Len(pay.list) # 1)
  BY DEF AfterMark
<1>6. \A i \in DOMAIN shares :
        /\ shares'[i] \in ShareType /\ shares'[i].nonce = shares[i].nonce
        /\ shares'[i].address = shares[i].address /\ shares'[i].timestamp = shares[i].timestamp
        /\ shares'[i].round = shares[i].round
        /\ shares'[i].paid <=> (shares[i].paid \/ shares[i].address = h)
  <2> SUFFICES ASSUME NEW i \in DOMAIN shares
               PROVE  /\ shares'[i] \in ShareType /\ shares'[i].nonce = shares[i].nonce
                      /\ shares'[i].address = shares[i].address
                      /\ shares'[i].timestamp = shares[i].timestamp
                      /\ shares'[i].round = shares[i].round
                      /\ shares'[i].paid <=> (shares[i].paid \/ shares[i].address = h)
    OBVIOUS
  <2> DEFINE b == shares[i].paid \/ shares[i].address = h
  <2>1. b \in BOOLEAN
    BY Zenon
  <2>2. shares'[i] = [shares[i] EXCEPT !.paid = b]
    BY <1>1, Zenon
  <2> HIDE DEF b
  <2>3. /\ shares'[i] \in ShareType /\ shares'[i].nonce = shares[i].nonce
        /\ shares'[i].address = shares[i].address
        /\ shares'[i].timestamp = shares[i].timestamp
        /\ shares'[i].round = shares[i].round /\ shares'[i].paid = b
    <3>1. shares[i] \in ShareType
      BY Before
    <3> QED
      BY <2>1, <2>2, <3>1, Marked
  <2> QED
    BY <2>3, Zenon DEF b
<1>7. DOMAIN shares' = DOMAIN shares /\ shares' \in [DOMAIN shares -> ShareType]
  <2>1. DOMAIN shares' = DOMAIN shares
    BY <1>1, Zenon
  <2>2. shares' = [i \in DOMAIN shares |-> shares'[i]]
    BY <1>1, Zenon
  <2> QED
    BY <1>6, <2>1, <2>2
<1> HIDE DEF h, n
<1>8. /\ pay' \in PayType /\ pay'.pc = AfterMark /\ pay'.list = Tail(pay.list) /\ pay'.total = n
      /\ pay'.unpaid = pay.unpaid
  BY <1>1, <1>3, <1>4, <1>5, Before DEF PayType
<1>9. TypeOK'
  BY <1>1, <1>7, <1>8, Before DEF TypeOK
<1>10. Guarded' /\ CountedOnce'
  <2>1. \A i \in DOMAIN shares : shares'[i].nonce = shares[i].nonce /\ shares'[i].round = shares[i].round
    BY <1>6
  <2>2. UNCHANGED <<nonces, round>>
    BY <1>1
  <2> QED
    BY <1>7, <2>1, <2>2 DEF IInv, Guarded, CountedOnce
<1>11. Owing'
  <2>1. \A i \in 1..seq : /\ paidFor[i] <= 1 + faults.crash
                          /\ i \in DOMAIN shares /\ ~shares[i].paid =>
                               paidFor[i] <= faults.crash \/ shares[i].address = h
    BY DEF IInv, Owing, h
  <2>2. \A i \in DOMAIN shares : ~shares'[i].paid => ~shares[i].paid /\ shares[i].address # h
    BY <1>6
  <2> QED
    BY <1>1, <1>7, <2>1, <2>2 DEF Owing
<1>12. Listed'
  <2>1. AfterMark = "pay" => Tail(pay.list) # <<>>
    <3>1. Len(pay.list) # 1 => Len(Tail(pay.list)) # 0
      BY <1>3
    <3>2. Len(<<>>) = 0
      OBVIOUS
    <3> QED
      BY <1>5, <3>1, <3>2
  <2>2. \A j, k \in 1..n : j # k => Tail(pay.list)[j] # Tail(pay.list)[k]
    <3> SUFFICES ASSUME NEW j \in 1..n, NEW k \in 1..n, j # k
                 PROVE  Tail(pay.list)[j] # Tail(pay.list)[k]
      OBVIOUS
    <3>1. j + 1 # k + 1
      BY <1>4
    <3> QED
      BY <1>2, <1>3, <1>4, <3>1
  <2>3. \A s \in pay.unpaid : s.seq \in DOMAIN shares' /\ shares'[s.seq].address = s.address
    BY <1>1, <1>6, <1>7 DEF IInv, Listed
  <2>4. \A s \in pay.unpaid : \A k \in 1..n : s.address = Tail(pay.list)[k] => ~shares'[s.seq].paid
    <3> SUFFICES ASSUME NEW s \in pay.unpaid, NEW k \in 1..n, s.address = Tail(pay.list)[k]
                 PROVE  ~shares'[s.seq].paid
      OBVIOUS
    <3>1. s.address = pay.list[k + 1] /\ k + 1 \in 1..pay.total
      BY <1>3, <1>4
    <3>2. ~shares[s.seq].paid /\ s.seq \in DOMAIN shares /\ shares[s.seq].address = s.address
      BY <1>1, <3>1 DEF IInv, Listed
    <3>3. s.address # h
      BY <1>2, <1>3, <1>4, <3>1
    <3> QED
      BY <1>6, <3>2, <3>3
  <2>5. n <= Len(Tail(pay.list))
    BY <1>3, <1>4
  <2> QED
    BY <1>5, <1>8, <2>1, <2>2, <2>3, <2>4, <2>5 DEF Listed
<1>13. Distributed'
  <2>1. \A i \in 1..Len(rewards) : rewards[i] < time /\ counted[i] <= 1 + faults.crash + late
    BY DEF IInv, Distributed
  <2>2. pay'.pc \in {"pay", "mark", "touch"}
    BY <1>5, <1>8
  <2> QED
    BY <1>1, <2>1, <2>2 DEF Distributed
<1> QED
  BY <1>9, <1>10, <1>11, <1>12, <1>13 DEF IInv

LEMMA TouchInv ==
  ASSUME IInv, touch_timestamps
  PROVE  IInv'
<1>1. /\ pay.pc = "touch" /\ pay' = [pay EXCEPT !.pc = "close"] /\ touched' = time
      /\ shares' = [i \in DOMAIN shares |-> [shares[i] EXCEPT !.timestamp = time]]
      /\ UNCHANGED <<archive, nonces, seq, rewards, time, http, round, paidFor, counted, late, faults>>
  BY Zenon DEF touch_timestamps
<1>2. pay' \in PayType /\ pay'.pc = "close"
  BY <1>1, Before, Moved
<1>3. \A i \in DOMAIN shares :
        /\ shares'[i] \in ShareType /\ shares'[i].nonce = shares[i].nonce
        /\ shares'[i].address = shares[i].address /\ shares'[i].timestamp = time
        /\ shares'[i].round = shares[i].round /\ shares'[i].paid = shares[i].paid
  BY <1>1, Before, Stamped
<1>4. DOMAIN shares' = DOMAIN shares /\ shares' \in [DOMAIN shares -> ShareType]
  <2>1. DOMAIN shares' = DOMAIN shares /\ shares' = [i \in DOMAIN shares |-> shares'[i]]
    BY <1>1, Zenon
  <2> QED
    BY <1>3, <2>1
<1>5. TypeOK'
  BY <1>1, <1>2, <1>4, Before DEF TypeOK
<1>6. Guarded' /\ CountedOnce'
  BY <1>1, <1>3, <1>4 DEF IInv, Guarded, CountedOnce
<1>7. Owing'
  BY <1>1, <1>2, <1>3, <1>4 DEF IInv, Owing
<1>8. Listed'
  BY <1>2 DEF Listed
<1>9. Distributed'
  <2>1. \A i \in 1..Len(rewards) : rewards[i] < time /\ counted[i] <= 1 + faults.crash + late
    BY DEF IInv, Distributed
  <2> QED
    BY <1>1, <1>2, <1>3, <1>4, <2>1 DEF Distributed, Spent
<1> QED
  BY <1>5, <1>6, <1>7, <1>8, <1>9 DEF IInv

LEMMA CloseInv ==
  ASSUME IInv, close_round
  PROVE  IInv'
<1>1. /\ pay.pc = "close" /\ pay' = Asleep /\ nonces' = {} /\ round' = round + 1
      /\ shares' = [i \in Unpaid |-> shares[i]]
      /\ UNCHANGED <<seq, rewards, time, http, paidFor, counted, touched, late, faults>>
  BY Zenon DEF close_round
<1>2. pay' \in PayType /\ pay'.pc = "sleep"
  BY <1>1, IdleTypes
<1>3. Unpaid \subseteq DOMAIN shares
  BY DEF Unpaid
<1>4. DOMAIN shares' \subseteq DOMAIN shares /\ \A i \in DOMAIN shares' : shares'[i] = shares[i]
  BY <1>1, <1>3
<1>5. DOMAIN shares' \subseteq 1..seq /\ shares' \in [DOMAIN shares' -> ShareType]
  BY <1>1, <1>3, Before
<1>6. TypeOK'
  BY <1>1, <1>2, <1>5, Before DEF TypeOK
<1>7. Guarded'
  <2>1. \A i \in DOMAIN shares : shares[i].round <= round /\ shares[i].round \in Nat
    BY Before, FieldsOfShare DEF IInv, Guarded
  <2>2. \A i \in DOMAIN shares : shares[i].round <= round' /\ shares[i].round # round'
    BY <1>1, <2>1, Before
  <2> QED
    BY <1>4, <2>2 DEF Guarded
<1>8. CountedOnce'
  BY <1>4 DEF IInv, CountedOnce
<1>9. Owing'
  BY <1>1, <1>2, <1>4 DEF IInv, Owing
<1>10. Listed'
  BY <1>2 DEF Listed
<1>11. Distributed'
  BY <1>1, <1>2, <1>4 DEF IInv, Distributed, Spent
<1> QED
  BY <1>6, <1>7, <1>8, <1>9, <1>10, <1>11 DEF IInv

-----------------------------------------------------------------------------
(* The clock, and a restart: what a run or a thread knew is gone. *)
LEMMA TickInv ==
  ASSUME IInv, Tick
  PROVE  IInv'
<1>1. /\ time' = time + 1
      /\ UNCHANGED <<shares, archive, nonces, seq, rewards, http, pay, round, paidFor, counted, touched,
                     late, faults>>
  BY Zenon DEF Tick, store, hist
<1>2. TypeOK'
  BY <1>1, Before DEF TypeOK
<1>3. Guarded' /\ CountedOnce' /\ Owing' /\ Listed'
  BY <1>1, Zenon DEF IInv, Guarded, CountedOnce, Owing, Listed
<1>4. Distributed'
  <2>1. \A i \in 1..Len(rewards) : rewards[i] < time'
    <3> SUFFICES ASSUME NEW i \in 1..Len(rewards) PROVE rewards[i] < time'
      OBVIOUS
    <3>1. rewards[i] \in Nat /\ rewards[i] < time
      BY Before DEF IInv, Distributed
    <3> QED
      BY <1>1, <3>1, Before
  <2> QED
    BY <1>1, <2>1 DEF IInv, Distributed, Spent
<1> QED
  BY <1>2, <1>3, <1>4 DEF IInv

LEMMA CrashInv ==
  ASSUME IInv, Crash
  PROVE  IInv'
<1>1. /\ faults' = [faults EXCEPT !.crash = @ + 1]
      /\ http' = [t \in Thread |-> Idle] /\ pay' = Asleep
      /\ UNCHANGED <<shares, archive, nonces, seq, rewards, time, round, paidFor, counted, touched, late>>
  BY Zenon DEF Crash, store, hist
<1>2. /\ faults' \in [crash : Nat, fail : Nat] /\ faults'.crash = faults.crash + 1
      /\ faults.crash \in Nat /\ late \in Nat
  BY <1>1, Before, FaultCounted
<1>3. pay' \in PayType /\ pay'.pc = "sleep" /\ http' \in [Thread -> HttpType]
  BY <1>1, IdleTypes
<1>4. TypeOK'
  BY <1>1, <1>2, <1>3, Before DEF TypeOK
<1>5. Guarded' /\ CountedOnce'
  BY <1>1, Zenon DEF IInv, Guarded, CountedOnce
<1>6. Owing'
  <2>1. \A i \in 1..seq : paidFor[i] <= 1 + faults.crash /\ paidFor[i] \in Nat
    BY Before DEF IInv, Owing
  <2>2. \A i \in 1..seq : paidFor[i] <= faults'.crash /\ paidFor[i] <= 1 + faults'.crash
    BY <1>2, <2>1
  <2> QED
    BY <1>1, <2>2 DEF Owing
<1>7. Listed'
  BY <1>3 DEF Listed
<1>8. Distributed'
  <2>1. \A i \in 1..Len(rewards) : /\ rewards[i] < time /\ counted[i] <= 1 + faults.crash + late
                                   /\ counted[i] \in Nat
    BY Before DEF IInv, Distributed
  <2>2. \A i \in 1..Len(rewards) : /\ counted[i] <= faults'.crash + late
                                   /\ counted[i] <= 1 + faults'.crash + late
    BY <1>2, <2>1
  <2> QED
    BY <1>1, <2>1, <2>2 DEF Distributed
<1> QED
  BY <1>4, <1>5, <1>6, <1>7, <1>8 DEF IInv

LEMMA InitInv ==
  ASSUME Init
  PROVE  IInv
<1>1. /\ shares = <<>> /\ seq = 0 /\ rewards = <<>> /\ time = 1 /\ pay = Asleep
      /\ http = [t \in Thread |-> Idle] /\ round = 0 /\ paidFor = <<>> /\ counted = <<>>
      /\ touched = 0 /\ late = 0 /\ faults = [crash |-> 0, fail |-> 0]
  BY Zenon DEF Init
<1>2. DOMAIN shares = {} /\ shares \in [DOMAIN shares -> ShareType]
  BY <1>1
<1>3. 1..seq = {} /\ 1..Len(rewards) = {} /\ rewards \in Seq(Nat)
  BY <1>1
<1>4. paidFor \in [1..seq -> Nat] /\ counted \in [1..Len(rewards) -> Nat]
  BY <1>1, <1>3
<1>5. pay \in PayType /\ pay.pc = "sleep" /\ http \in [Thread -> HttpType]
  BY <1>1, IdleTypes
<1>6. TypeOK
  BY <1>1, <1>2, <1>3, <1>4, <1>5 DEF TypeOK
<1>7. Guarded /\ CountedOnce
  BY <1>2 DEF Guarded, CountedOnce
<1>8. Owing /\ Distributed
  BY <1>3 DEF Owing, Distributed
<1>9. Listed
  BY <1>5 DEF Listed
<1> QED
  BY <1>6, <1>7, <1>8, <1>9 DEF IInv

LEMMA NextInv ==
  ASSUME IInv, [Next]_vars
  PROVE  IInv'
<1>1. CASE \E t \in Thread : \/ \E n \in Nonce, a \in Address : Arrive(t, n, a)
                             \/ nonce_seen(t) \/ record_share(t)
  BY <1>1, ArriveInv, SeenInv, RecordInv
<1>2. CASE \/ ReadUnpaid \/ ReadRewards \/ RewardsUnread \/ SubmitPayment \/ SubmitFails
           \/ mark_paid \/ touch_timestamps \/ close_round \/ Tick \/ Crash
  BY <1>2, UnpaidInv, RewardsInv, UnreadInv, SubmitInv, FailsInv, MarkInv, TouchInv, CloseInv,
     TickInv, CrashInv
<1>3. CASE UNCHANGED vars
  <2>1. UNCHANGED <<shares, nonces, seq, rewards, time, http, pay, round, paidFor, counted, touched,
                    late, faults>>
    BY <1>3, Zenon DEF vars, store, hist
  <2>2. TypeOK'
    BY <2>1, Before DEF TypeOK
  <2>3. Guarded' /\ CountedOnce' /\ Owing' /\ Listed'
    BY <2>1, Zenon DEF IInv, Guarded, CountedOnce, Owing, Listed
  <2>4. Distributed'
    BY <2>1, Zenon DEF IInv, Distributed, Spent
  <2> QED
    BY <2>2, <2>3, <2>4 DEF IInv
<1> QED
  BY <1>1, <1>2, <1>3, Zenon DEF Next

(* The inductive invariant: the guard has the nonces of the open round,    *)
(* what a run read is still unpaid where it has yet to pay, and a reward   *)
(* that was distributed is older than every share a later run can find.    *)
THEOREM PoolInvariant == Spec => []IInv
<1>1. Init => IInv
  BY InitInv
<1>2. IInv /\ [Next]_vars => IInv'
  BY NextInv
<1> QED
  BY <1>1, <1>2, PTL DEF Spec

(* Threads given the same solution record one share of it in a round       *)
(* (record_share).                                                         *)
THEOREM AlwaysCountedOnce == Spec => []CountedOnce
<1>1. IInv => CountedOnce
  BY DEF IInv
<1> QED
  BY <1>1, PoolInvariant, PTL

(* A share is paid for at most once more than the pool crashed (payout,    *)
(* mark_paid).                                                             *)
THEOREM AlwaysPaidOnce == Spec => []PaidOnce
<1>1. IInv => PaidOnce
  BY Before DEF IInv, Owing, PaidOnce
<1> QED
  BY <1>1, PoolInvariant, PTL

(* A reward is distributed by one run, but for crashes before the reset    *)
(* and shares recorded after it with an older time (payout,                *)
(* touch_timestamps).                                                      *)
THEOREM AlwaysRewardedOnce == Spec => []RewardOnce
<1>1. IInv => RewardOnce
  BY Before DEF IInv, Distributed, RewardOnce
<1> QED
  BY <1>1, PoolInvariant, PTL
=============================================================================
