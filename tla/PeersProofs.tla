----------------------------- MODULE PeersProofs -----------------------------
(***************************************************************************)
(* The peer manager, for any hosts, prefixes, limits and finite number of  *)
(* worker threads: the pool and the list of syncing peers, on which        *)
(* dialling and syncing are decided, are exact.                            *)
(***************************************************************************)
EXTENDS Peers, FiniteSetTheorems, SequenceTheorems, WellFoundedInduction, TLAPS

Place == {"idle", "dial", "join", "loop", "slot", "take", "sync"}

(* Every nonempty set of naturals has a least element. *)
LEMMA LeastElement ==
  ASSUME NEW T \in SUBSET Nat, T # {}
  PROVE  \E x \in T : \A y \in T : x <= y
<1>1. PICK x \in T : \A y \in T : ~ (<<y, x>> \in OpToRel(<, Nat))
  BY NatLessThanWellFounded, WFMin
<1>2. \A y \in T : ~ (y < x)
  BY <1>1 DEF OpToRel
<1> QED
  BY <1>2

(* list.remove takes out one entry and leaves the others in their order. *)
LEMMA RemoveFirstIs ==
  ASSUME NEW S, NEW s \in Seq(S), NEW e \in ToSet(s)
  PROVE  \E k \in 1..Len(s) :
           /\ s[k] = e
           /\ RemoveFirst(s, e) \in Seq(S)
           /\ Len(RemoveFirst(s, e)) = Len(s) - 1
           /\ \A i \in 1..(Len(s) - 1) :
                RemoveFirst(s, e)[i] = IF i < k THEN s[i] ELSE s[i + 1]
<1> DEFINE I == {i \in 1..Len(s) : s[i] = e}
           k == Min(I)
<1>1. I # {} /\ I \in SUBSET Nat
  BY DEF ToSet
<1>2. \E x \in I : \A y \in I : x <= y
  BY <1>1, LeastElement
<1>3. k \in I
  BY <1>2 DEF Min
<1>4. RemoveFirst(s, e) = SubSeq(s, 1, k - 1) \o SubSeq(s, k + 1, Len(s))
  BY <1>1 DEF RemoveFirst, RemoveAt, SelectInSeq
<1> HIDE DEF k, I
<1>5. k \in 1..Len(s) /\ s[k] = e
  BY <1>3 DEF I
<1> DEFINE front == SubSeq(s, 1, k - 1)
           back == SubSeq(s, k + 1, Len(s))
<1>6. /\ front \in Seq(S) /\ Len(front) = k - 1
      /\ \A i \in 1..(k - 1) : front[i] = s[i]
  BY <1>5
<1>7. /\ back \in Seq(S) /\ Len(back) = Len(s) - k
      /\ \A i \in 1..(Len(s) - k) : back[i] = s[k + i]
  BY <1>5
<1> HIDE DEF front, back
<1>8. front \o back \in Seq(S) /\ Len(front \o back) = Len(s) - 1
  <2>1. front \o back \in Seq(S) /\ Len(front \o back) = Len(front) + Len(back)
    BY <1>6, <1>7, ConcatProperties
  <2> QED
    BY <1>5, <1>6, <1>7, <2>1
<1>9. ASSUME NEW i \in 1..(Len(s) - 1)
      PROVE  (front \o back)[i] = IF i < k THEN s[i] ELSE s[i + 1]
  <2>1. CASE i < k
    BY <1>5, <1>6, <1>7, <2>1
  <2>2. CASE ~(i < k)
    <3>1. (front \o back)[i] = back[i - (k - 1)]
      BY <1>5, <1>6, <1>7, <2>2
    <3>2. i - (k - 1) \in 1..(Len(s) - k) /\ k + (i - (k - 1)) = i + 1
      BY <1>5, <2>2
    <3> QED
      BY <1>7, <2>2, <3>1, <3>2
  <2> QED
    BY <2>1, <2>2
<1>10. RemoveFirst(s, e) = front \o back
  BY <1>4 DEF front, back
<1> QED
  BY <1>5, <1>8, <1>9, <1>10

-----------------------------------------------------------------------------
(* The inductive invariant. *)
WorkerTypes ==
    /\ worker \in [Thread -> [pc : Place, host : Host \cup {NoHost}]]
    /\ \A t \in Thread : worker[t].pc # "idle" => worker[t].host \in Host
    /\ \A t \in Thread : worker[t].pc = "idle" => worker[t].host = NoHost
Types ==
    /\ known \subseteq Host /\ candidates \subseteq Host /\ banlist \subseteq Host
    /\ IsFiniteSet(candidates) /\ Cardinality(candidates) <= MaxCandidates
    /\ pool \in Seq(Host) /\ poolSet \subseteq Host
    /\ tried \in [Host -> {"past", "soon", "late"}]
    /\ syncing \in [Host -> Nat]
    /\ warnings \in [Host -> 0..BanThreshold]
    /\ WorkerTypes
    /\ manager.todo \subseteq Host

(* Two workers on one host are twins. *)
OneWorker == \A h \in Host \ twins : \A t, u \in On(h) : t = u

(* Without twins, and without a loop that ended on its condition, a host   *)
(* has at most one entry, and has it as long as a worker is past the join. *)
PoolPaired ==
    /\ poolSet \subseteq ToSet(pool)
    /\ \A h \in Host \ (twins \cup left) :
        /\ \A i, j \in DOMAIN pool : pool[i] = h /\ pool[j] = h => i = j
        /\ h \in ToSet(pool) <=> \E t \in Thread : t \in Past(h)
        /\ h \in ToSet(pool) <=> h \in poolSet

(* Once the node stops a place may be given back that was not taken, so    *)
(* from then on the list only holds no more than the rounds.               *)
InRound(h) == {t \in On(h) : At(t, "sync")}
SyncBound ==
    \A h \in Host : /\ syncing[h] <= Cardinality(InRound(h))
                    /\ ~stopping => syncing[h] = Cardinality(InRound(h))

PeersInv == Types /\ OneWorker /\ PoolPaired /\ SyncBound

(* A node that has just started knows peers, and is connected to none. *)
LEMMA InitPeersInv == Init => PeersInv
<1> SUFFICES ASSUME Init PROVE PeersInv
  OBVIOUS
<1> USE PeersAssumption DEF Init, Idle
<1>1. Types
  BY FS_EmptySet DEF Types, WorkerTypes, Place
<1>2. \A h \in Host : On(h) = {}
  BY DEF On
<1>3. \A h \in Host : Cardinality(InRound(h)) = 0
  BY <1>2, FS_EmptySet DEF InRound
<1>4. OneWorker /\ SyncBound
  BY <1>2, <1>3 DEF OneWorker, SyncBound
<1>5. PoolPaired
  BY <1>2 DEF PoolPaired, Past, ToSet
<1> QED
  BY <1>1, <1>4, <1>5 DEF PeersInv

(* A worker is at a place of worker.py, with a host unless it is idle. *)
LEMMA WorkerType ==
  ASSUME Types, NEW t \in Thread
  PROVE  /\ worker[t].pc \in Place
         /\ worker[t].host \in Host \cup {NoHost}
         /\ worker[t].pc # "idle" => worker[t].host \in Host
  BY DEF Types, WorkerTypes

(* The step of a worker from one place to the next, and its end. *)
LEMMA MoveType ==
  ASSUME Types, NEW t \in Thread, worker[t].pc # "idle",
         NEW p \in Place, p # "idle", Move(t, p)
  PROVE  WorkerTypes'
  BY DEF Types, WorkerTypes, Move

LEMMA EndType ==
  ASSUME Types, NEW t \in Thread, worker' = [worker EXCEPT ![t] = Idle]
  PROVE  WorkerTypes'
  BY DEF Types, WorkerTypes, Idle, Place

(* remove_client keeps the type of the pool. *)
LEMMA RemoveClientType ==
  ASSUME Types, NEW h, remove_client(h)
  PROVE  pool' \in Seq(Host) /\ poolSet' \subseteq Host
<1>1. CASE h \in ToSet(pool)
  BY <1>1, RemoveFirstIs DEF remove_client, Types, pools
<1>2. CASE h \notin ToSet(pool)
  BY <1>2 DEF remove_client, Types, pools, ToSet, RemoveFirst
<1> QED
  BY <1>1, <1>2

(* The candidates stay within INBOUND_CANDIDATES_MAX. *)
LEMMA CandidatesType ==
  ASSUME Types, NEW h \in Host
  PROVE  /\ record_inbound_peer(h) \subseteq Host /\ IsFiniteSet(record_inbound_peer(h))
         /\ Cardinality(record_inbound_peer(h)) <= MaxCandidates
<1>1. Cardinality(candidates) \in Nat
  BY FS_CardinalityType DEF Types
<1>2. CASE record_inbound_peer(h) = candidates
  BY <1>2 DEF Types
<1>3. CASE record_inbound_peer(h) = candidates \cup {h} /\ ~(Cardinality(candidates) >= MaxCandidates)
  <2>1. /\ IsFiniteSet(candidates \cup {h})
        /\ \/ Cardinality(candidates \cup {h}) = Cardinality(candidates)
           \/ Cardinality(candidates \cup {h}) = Cardinality(candidates) + 1
    BY FS_AddElement DEF Types
  <2> QED
    BY <1>1, <1>3, <2>1, PeersAssumption DEF Types
<1> QED
  BY <1>2, <1>3 DEF record_inbound_peer

LEMMA NextTypes == Types /\ [Next]_vars => Types'
<1> SUFFICES ASSUME Types, [Next]_vars PROVE Types'
  OBVIOUS
<1> USE PeersAssumption DEF Types, books, pools
<1>1. CASE client_loop
  BY <1>1 DEF client_loop, Wiped, Aggressive, WorkerTypes
<1>2. CASE DialNext
  <2>1. PICK h \in manager.todo :
          /\ manager' = [manager EXCEPT !.todo = @ \ {h}]
          /\ \/ /\ add_try(h)
                /\ \E t \in Free : worker' = [worker EXCEPT ![t] = [pc |-> "dial", host |-> h]]
             \/ UNCHANGED <<tried, worker>>
    BY <1>2, Zenon DEF DialNext
  <2>2. UNCHANGED <<known, candidates, pool, poolSet, banlist, syncing, warnings>>
    BY <1>2, Zenon DEF DialNext
  <2>3. tried' \in [Host -> {"past", "soon", "late"}]
    BY <2>1 DEF add_try, Delay
  <2>4. WorkerTypes'
    <3>1. CASE UNCHANGED worker
      BY <3>1 DEF WorkerTypes
    <3>2. ASSUME NEW t \in Thread, worker' = [worker EXCEPT ![t] = [pc |-> "dial", host |-> h]]
          PROVE  WorkerTypes'
      BY <2>1, <3>2 DEF WorkerTypes, Place
    <3> QED
      BY <2>1, <3>1, <3>2 DEF Free
  <2>5. manager'.todo \subseteq Host
    BY <2>1
  <2> QED
    BY <2>2, <2>3, <2>4, <2>5
<1>3. CASE Maintain
  BY <1>3, FS_EmptySet DEF Maintain, Gentle, WorkerTypes
<1>4. CASE peers_test
  BY <1>4 DEF peers_test, WorkerTypes
<1>5. ASSUME NEW t \in Thread, Refused(t)
      PROVE  Types'
  <2>1. WorkerTypes'
    BY <1>5, EndType DEF Refused
  <2> QED
    BY <1>5, <2>1 DEF Refused
<1>6. ASSUME NEW t \in Thread, Connected(t)
      PROVE  Types'
  <2>1. WorkerTypes'
    BY <1>6, MoveType DEF Connected, At, Place
  <2> QED
    BY <1>6, <2>1 DEF Connected
<1>7. ASSUME NEW t \in Thread, Join(t)
      PROVE  Types'
  <2>1. worker[t].host \in Host /\ worker[t].pc \in Place
    BY <1>7, WorkerType DEF Join, At
  <2>2. WorkerTypes'
    BY <1>7, MoveType DEF Join, At, Place
  <2> QED
    <3>1. pool' \in Seq(Host) /\ poolSet' \subseteq Host
      BY <1>7, <2>1 DEF Join, append_client
    <3>2. tried' \in [Host -> {"past", "soon", "late"}]
      BY <1>7, <2>1 DEF Join, append_client
    <3> QED
      BY <1>7, <2>2, <3>1, <3>2 DEF Join
<1>8. ASSUME NEW t \in Thread, peersync(t)
      PROVE  Types'
  BY <1>8 DEF peersync, WorkerTypes
<1>9. ASSUME NEW t \in Thread, AskSlot(t)
      PROVE  Types'
  <2>1. WorkerTypes'
    BY <1>9, MoveType DEF AskSlot, At, Place
  <2> QED
    BY <1>9, <2>1 DEF AskSlot
<1>10. ASSUME NEW t \in Thread, SeesRoom(t)
       PROVE  Types'
  <2>1. WorkerTypes'
    BY <1>10, MoveType DEF SeesRoom, At, Place
  <2> QED
    BY <1>10, <2>1 DEF SeesRoom
<1>11. ASSUME NEW t \in Thread, TakeSlot(t)
       PROVE  Types'
  <2>1. worker[t].host \in Host /\ worker[t].pc \in Place
    BY <1>11, WorkerType DEF TakeSlot, At
  <2>2. WorkerTypes'
    BY <1>11, MoveType DEF TakeSlot, At, Place
  <2> QED
    <3>1. syncing' = [syncing EXCEPT ![worker[t].host] = @ + 1]
      BY <1>11, Zenon DEF TakeSlot
    <3>2. UNCHANGED <<known, candidates, pool, poolSet, tried, banlist, manager, warnings>>
      BY <1>11, Zenon DEF TakeSlot
    <3> QED
      BY <2>1, <2>2, <3>1, <3>2
<1>12. ASSUME NEW t \in Thread, Round(t)
       PROVE  Types'
  <2>1. worker[t].host \in Host /\ worker[t].pc \in Place
    BY <1>12, WorkerType DEF Round, At
  <2>2. WorkerTypes'
    BY <1>12, MoveType DEF Round, At, Place
  <2> QED
    <3>1. syncing' \in [Host -> Nat]
      BY <1>12, <2>1 DEF Round, Returned
    <3> QED
      BY <1>12, <2>2, <3>1 DEF Round
<1>13. ASSUME NEW t \in Thread, StopsWaiting(t)
       PROVE  Types'
  <2>1. pool' \in Seq(Host) /\ poolSet' \subseteq Host
    BY <1>13, RemoveClientType DEF StopsWaiting, Away
  <2>2. WorkerTypes'
    BY <1>13, EndType DEF StopsWaiting, Away
  <2> QED
    <3>1. syncing' \in [Host -> Nat]
      <4>1. worker[t].host \in Host
        BY <1>13, WorkerType DEF StopsWaiting, At
      <4>2. \/ /\ syncing[worker[t].host] > 0
               /\ syncing' = [syncing EXCEPT ![worker[t].host] = @ - 1]
            \/ UNCHANGED syncing
        BY <1>13, Zenon DEF StopsWaiting
      <4>3. syncing[worker[t].host] > 0 => syncing[worker[t].host] - 1 \in Nat
        BY <4>1
      <4> QED
        BY <4>1, <4>2, <4>3
    <3>2. UNCHANGED <<known, candidates, tried, banlist, manager, warnings>>
      BY <1>13, Zenon DEF StopsWaiting
    <3> QED
      BY <2>1, <2>2, <3>1, <3>2
<1>14. ASSUME NEW t \in Thread, Disconnect(t)
       PROVE  Types'
  <2>1. pool' \in Seq(Host) /\ poolSet' \subseteq Host
    BY <1>14, RemoveClientType DEF Disconnect, Away
  <2>2. WorkerTypes'
    BY <1>14, EndType DEF Disconnect, Away
  <2> QED
    BY <1>14, <2>1, <2>2 DEF Disconnect, Away
<1>15. ASSUME NEW t \in Thread, LoopEnds(t)
       PROVE  Types'
  <2>1. WorkerTypes'
    BY <1>15, EndType DEF LoopEnds
  <2> QED
    BY <1>15, <2>1 DEF LoopEnds
<1>16. ASSUME NEW h \in Host, Accept(h)
       PROVE  Types'
  BY <1>16, CandidatesType DEF Accept, WorkerTypes
<1>17. ASSUME NEW h \in Host, Warning(h)
       PROVE  Types'
  BY <1>17 DEF Warning, WorkerTypes
<1>18. ASSUME NEW h \in Host, unban(h)
       PROVE  Types'
  BY <1>18 DEF unban, WorkerTypes
<1>19. CASE Cool
  BY <1>19 DEF Cool, WorkerTypes
<1>20. CASE Stop
  BY <1>20 DEF Stop, WorkerTypes
<1>21. CASE UNCHANGED vars
  BY <1>21 DEF vars, WorkerTypes
<1> QED
  BY <1>1, <1>2, <1>3, <1>4, <1>5, <1>6, <1>7, <1>8, <1>9, <1>10, <1>11, <1>12, <1>13, <1>14,
     <1>15, <1>16, <1>17, <1>18, <1>19, <1>20, <1>21
  DEF Next, Manager, Worker, Handshake, Synchronise, Inbound

-----------------------------------------------------------------------------
(* What a worker's step changes: its own place or, at its end, its host.   *)
LEMMA MoveEffect ==
  ASSUME Types, NEW t \in Thread, NEW p, Move(t, p)
  PROVE  /\ worker'[t].pc = p
         /\ \A u \in Thread : worker'[u].host = worker[u].host
         /\ \A u \in Thread \ {t} : worker'[u] = worker[u]
  BY DEF Types, WorkerTypes, Move

LEMMA EndEffect ==
  ASSUME Types, NEW t \in Thread, worker' = [worker EXCEPT ![t] = Idle]
  PROVE  /\ worker'[t].pc = "idle" /\ worker'[t].host \notin Host
         /\ \A u \in Thread \ {t} : worker'[u] = worker[u]
  BY PeersAssumption DEF Types, WorkerTypes, Idle

LEMMA DialEffect ==
  ASSUME Types, DialNext
  PROVE  \/ UNCHANGED <<worker, twins>>
         \/ \E h \in Host : \E t \in Free :
              /\ worker'[t].pc = "dial" /\ worker'[t].host = h
              /\ \A u \in Thread \ {t} : worker'[u] = worker[u]
              /\ twins' = IF On(h) # {} THEN twins \cup {h} ELSE twins
<1>1. PICK h \in manager.todo :
        \/ /\ \E t \in Free : worker' = [worker EXCEPT ![t] = [pc |-> "dial", host |-> h]]
           /\ twins' = IF On(h) # {} THEN twins \cup {h} ELSE twins
        \/ UNCHANGED <<worker, twins>>
  BY Zenon DEF DialNext
<1>2. h \in Host
  BY DEF Types
<1>3. CASE \E t \in Free : worker' = [worker EXCEPT ![t] = [pc |-> "dial", host |-> h]]
  <2>1. PICK t \in Free : worker' = [worker EXCEPT ![t] = [pc |-> "dial", host |-> h]]
    BY <1>3
  <2>2. /\ t \in Free /\ worker'[t].pc = "dial" /\ worker'[t].host = h
        /\ \A u \in Thread \ {t} : worker'[u] = worker[u]
    BY <2>1 DEF Types, WorkerTypes, Free
  <2> QED
    BY <1>1, <1>2, <2>2
<1> QED
  BY <1>1, <1>3

(* The steps that start no worker leave no host with more of them. *)
LEMMA NoNewWorker ==
  ASSUME Types, [Next]_vars, ~DialNext
  PROVE  /\ twins' = twins
         /\ \A u \in Thread : worker'[u].host \in {worker[u].host} \cup {NoHost}
<1>1. ASSUME NEW t \in Thread, Worker(t)
      PROVE  twins' = twins /\ \A u \in Thread : worker'[u].host \in {worker[u].host} \cup {NoHost}
  <2>1. twins' = twins
    BY <1>1, Zenon DEF Worker, Handshake, Synchronise, Refused, Connected, Join, SeesRoom, TakeSlot, Round,
       StopsWaiting, LoopEnds, AskSlot, peersync, Disconnect
  <2>2. \/ UNCHANGED worker
        \/ \E p : Move(t, p)
        \/ worker' = [worker EXCEPT ![t] = Idle]
    BY <1>1, Zenon DEF Worker, Handshake, Synchronise, Refused, Connected, Join, SeesRoom, TakeSlot, Round,
       StopsWaiting, LoopEnds, AskSlot, peersync, Disconnect, Away
  <2>3. ASSUME NEW p, Move(t, p)
        PROVE  \A u \in Thread : worker'[u].host = worker[u].host
    BY <2>3, MoveEffect
  <2>4. ASSUME worker' = [worker EXCEPT ![t] = Idle]
        PROVE  \A u \in Thread : worker'[u].host \in {worker[u].host} \cup {NoHost}
    BY <2>4 DEF Types, WorkerTypes, Idle
  <2> QED
    BY <2>1, <2>2, <2>3, <2>4
<1>2. CASE client_loop \/ Maintain \/ peers_test \/ Inbound \/ Cool \/ Stop \/ UNCHANGED vars
  BY <1>2 DEF client_loop, Maintain, peers_test, Inbound, Accept, Warning, unban, Cool, Stop, vars
<1> QED
  BY <1>1, <1>2 DEF Next, Manager

LEMMA NextOneWorker ==
  ASSUME PeersInv, [Next]_vars
  PROVE  OneWorker'
<1> USE DEF PeersInv
<1>1. CASE ~DialNext
  BY <1>1, NoNewWorker, PeersAssumption DEF OneWorker, On
<1>2. CASE UNCHANGED <<worker, twins>>
  BY <1>2 DEF OneWorker, On
<1>3. ASSUME NEW h \in Host, NEW t \in Free,
             worker'[t].pc = "dial", worker'[t].host = h,
             \A u \in Thread \ {t} : worker'[u] = worker[u],
             twins' = IF On(h) # {} THEN twins \cup {h} ELSE twins
      PROVE  OneWorker'
  <2>1. \A u \in Thread \ {t} : worker'[u].host = worker[u].host
    BY <1>3
  <2>2. ASSUME NEW g \in Host \ twins', NEW u \in On(g)', NEW v \in On(g)'
        PROVE  u = v
    <3>1. CASE g = h
      BY <1>3, <2>1, <2>2, <3>1 DEF On
    <3>2. CASE g # h
      BY <1>3, <2>1, <2>2, <3>2 DEF On, OneWorker
    <3> QED
      BY <3>1, <3>2
  <2> QED
    BY <2>2 DEF OneWorker
<1> QED
  BY <1>1, <1>2, <1>3, DialEffect

-----------------------------------------------------------------------------
(* A step that leaves the pool alone, and the workers past the join of     *)
(* every host that is still accounted for.                                 *)
LEMMA PairedFrame ==
  ASSUME PoolPaired, UNCHANGED pools, twins \subseteq twins', left \subseteq left',
         \A h \in Host \ (twins' \cup left') : Past(h)' = Past(h)
  PROVE  PoolPaired'
<1>1. pool' = pool /\ poolSet' = poolSet
  BY DEF pools
<1>2. ToSet(pool)' = ToSet(pool)
  BY <1>1 DEF ToSet
<1> QED
  BY <1>1, <1>2 DEF PoolPaired

(* append_client: the only worker of the host enters it. *)
LEMMA NextPairedJoin ==
  ASSUME PeersInv, NEW t \in Thread, Join(t)
  PROVE  PoolPaired'
<1>0. PICK h \in Host : worker[t].host = h
  BY WorkerType DEF PeersInv, Join, At
<1>1. /\ worker[t].pc = "join" /\ pool \in Seq(Host)
      /\ pool' = Append(pool, h) /\ poolSet' = poolSet \cup {h}
      /\ twins' = twins /\ left' = left
  BY <1>0 DEF PeersInv, Types, Join, At, append_client
<1>2. /\ worker'[t].pc = "loop"
      /\ \A u \in Thread : worker'[u].host = worker[u].host
      /\ \A u \in Thread \ {t} : worker'[u] = worker[u]
  BY MoveEffect DEF PeersInv, Join
<1>3. ToSet(pool') = ToSet(pool) \cup {h}
  BY <1>1 DEF ToSet
<1>4. poolSet' \subseteq ToSet(pool')
  BY <1>1, <1>3 DEF PeersInv, PoolPaired
<1>5. ASSUME NEW g \in Host \ (twins \cup left), g # h
      PROVE  /\ \A i, j \in DOMAIN pool' : pool'[i] = g /\ pool'[j] = g => i = j
             /\ g \in ToSet(pool') <=> \E u \in Thread : u \in Past(g)'
             /\ g \in ToSet(pool') <=> g \in poolSet'
  <2>1. Past(g)' = Past(g)
    BY <1>0, <1>2, <1>5 DEF Past, On
  <2>2. \A i \in DOMAIN pool' : pool'[i] = g => i \in DOMAIN pool /\ pool[i] = g
    BY <1>1, <1>5
  <2> QED
    BY <1>1, <1>3, <1>5, <2>1, <2>2 DEF PeersInv, PoolPaired
<1>6. ASSUME h \notin twins \cup left
      PROVE  /\ \A i, j \in DOMAIN pool' : pool'[i] = h /\ pool'[j] = h => i = j
             /\ h \in ToSet(pool') <=> \E u \in Thread : u \in Past(h)'
             /\ h \in ToSet(pool') <=> h \in poolSet'
  <2>1. \A u \in On(h) : u = t
    BY <1>0, <1>6 DEF PeersInv, OneWorker, On
  <2>2. h \notin ToSet(pool)
    BY <1>1, <1>6, <2>1 DEF PeersInv, PoolPaired, Past
  <2>3. \A i \in DOMAIN pool' : pool'[i] = h => i = Len(pool) + 1
    BY <1>1, <2>2 DEF ToSet
  <2>4. t \in Past(h)'
    BY <1>0, <1>2 DEF Past, On
  <2> QED
    BY <1>1, <1>3, <2>3, <2>4
<1>7. ASSUME NEW g \in Host \ (twins \cup left)
      PROVE  /\ \A i, j \in DOMAIN pool' : pool'[i] = g /\ pool'[j] = g => i = j
             /\ g \in ToSet(pool') <=> \E u \in Thread : u \in Past(g)'
             /\ g \in ToSet(pool') <=> g \in poolSet'
  <2>1. CASE g = h
    BY <1>6, <2>1
  <2>2. CASE g # h
    BY <1>5, <2>2
  <2> QED
    BY <2>1, <2>2
<1> QED
  BY <1>1, <1>4, <1>7 DEF PoolPaired

(* remove_client, as the worker of the host ends. *)
LEMMA NextPairedAway ==
  ASSUME PeersInv, NEW t \in Thread, NEW h \in Host, worker[t].host = h,
         worker[t].pc \in {"loop", "slot"}, Away(t, h), UNCHANGED <<twins, left>>
  PROVE  PoolPaired'
<1>1. /\ worker'[t].pc = "idle" /\ worker'[t].host \notin Host
      /\ \A u \in Thread \ {t} : worker'[u] = worker[u]
  BY EndEffect DEF PeersInv, Away
<1>2. \A g \in Host \ {h} : Past(g)' = Past(g)
  BY <1>1 DEF Past, On
<1>3. CASE h \notin poolSet
  <2>1. UNCHANGED pools
    BY <1>3 DEF Away, remove_client
  <2>2. h \in twins \cup left
    BY <1>3 DEF PeersInv, PoolPaired, Past, On
  <2> QED
    BY <1>2, <2>1, <2>2, PairedFrame DEF PeersInv
<1>4. CASE h \in poolSet
  <2>1. pool \in Seq(Host) /\ pool' = RemoveFirst(pool, h) /\ poolSet' = poolSet \ {h}
    BY <1>4 DEF Away, remove_client, PeersInv, Types
  <2>2. h \in ToSet(pool)
    BY <1>4 DEF PeersInv, PoolPaired
  <2>3. PICK k \in 1..Len(pool) :
          /\ pool[k] = h
          /\ pool' \in Seq(Host)
          /\ Len(pool') = Len(pool) - 1
          /\ \A i \in 1..(Len(pool) - 1) : pool'[i] = IF i < k THEN pool[i] ELSE pool[i + 1]
    BY <2>1, <2>2, RemoveFirstIs
  <2>4. DOMAIN pool = 1..Len(pool) /\ DOMAIN pool' = 1..(Len(pool) - 1) /\ Len(pool) \in Nat
    BY <2>1, <2>3
  <2>5. \A g \in Host \ {h} : g \in ToSet(pool') <=> g \in ToSet(pool)
    <3> SUFFICES ASSUME NEW g \in Host \ {h} PROVE g \in ToSet(pool') <=> g \in ToSet(pool)
      OBVIOUS
    <3>1. ASSUME NEW i \in 1..Len(pool), pool[i] = g
          PROVE  \E j \in 1..(Len(pool) - 1) : pool'[j] = g
      <4>1. CASE i < k
        BY <2>3, <2>4, <3>1, <4>1
      <4>2. CASE k < i
        <5>1. i - 1 \in 1..(Len(pool) - 1) /\ ~(i - 1 < k) /\ (i - 1) + 1 = i
          BY <2>3, <2>4, <4>2
        <5> QED
          BY <2>3, <3>1, <5>1
      <4> QED
        BY <2>3, <2>4, <3>1, <4>1, <4>2
    <3>2. ASSUME NEW j \in 1..(Len(pool) - 1), pool'[j] = g
          PROVE  \E i \in 1..Len(pool) : pool[i] = g
      BY <2>3, <2>4, <3>2
    <3> QED
      BY <2>4, <3>1, <3>2 DEF ToSet
  <2>6. poolSet' \subseteq ToSet(pool')
    BY <2>1, <2>5 DEF PeersInv, PoolPaired, Types
  <2>7. ASSUME NEW g \in Host \ (twins \cup left), g # h
        PROVE  /\ \A i, j \in DOMAIN pool' : pool'[i] = g /\ pool'[j] = g => i = j
               /\ g \in ToSet(pool') <=> \E u \in Thread : u \in Past(g)'
               /\ g \in ToSet(pool') <=> g \in poolSet'
    <3>1. \A i, j \in 1..Len(pool) : pool[i] = g /\ pool[j] = g => i = j
      BY <2>4, <2>7 DEF PeersInv, PoolPaired
    <3>2. \A i, j \in 1..(Len(pool) - 1) : pool'[i] = g /\ pool'[j] = g => i = j
      BY <2>3, <2>4, <3>1
    <3> QED
      BY <1>2, <2>1, <2>4, <2>5, <2>7, <3>2 DEF PeersInv, PoolPaired
  <2>8. ASSUME h \notin twins \cup left
        PROVE  /\ h \notin ToSet(pool')
               /\ \A u \in Thread : u \notin Past(h)'
    <3>1. \A i, j \in 1..Len(pool) : pool[i] = h /\ pool[j] = h => i = j
      BY <2>4, <2>8 DEF PeersInv, PoolPaired
    <3>2. h \notin ToSet(pool')
      BY <2>3, <2>4, <3>1 DEF ToSet
    <3>3. \A u \in On(h) : u = t
      BY <2>8 DEF PeersInv, OneWorker, On
    <3> QED
      BY <1>1, <3>2, <3>3 DEF Past, On
  <2> QED
    BY <2>1, <2>4, <2>6, <2>7, <2>8 DEF PoolPaired, ToSet
<1> QED
  BY <1>3, <1>4

LEMMA NextPoolPaired ==
  ASSUME PeersInv, [Next]_vars
  PROVE  PoolPaired'
<1> USE DEF PeersInv
<1>1. CASE client_loop \/ Maintain \/ peers_test \/ Inbound \/ Cool \/ Stop \/ UNCHANGED vars
  <2>1. UNCHANGED <<pools, worker, twins, left>>
    BY <1>1, Zenon DEF client_loop, Maintain, peers_test, Inbound, Accept, Warning, unban, Cool, Stop, vars
  <2> QED
    BY <2>1, PairedFrame DEF Past, On
<1>2. CASE DialNext
  <2>1. UNCHANGED <<pools, left>>
    BY <1>2, Zenon DEF DialNext
  <2>2. twins \subseteq twins' /\ \A h \in Host : Past(h)' = Past(h)
    <3>1. CASE UNCHANGED <<worker, twins>>
      BY <3>1 DEF Past, On
    <3>2. ASSUME NEW h \in Host, NEW t \in Free,
                 worker'[t].pc = "dial",
                 \A u \in Thread \ {t} : worker'[u] = worker[u],
                 twins' = IF On(h) # {} THEN twins \cup {h} ELSE twins
          PROVE  twins \subseteq twins' /\ \A g \in Host : Past(g)' = Past(g)
      BY <3>2, PeersAssumption DEF Past, On, Free, Types, WorkerTypes
    <3> QED
      BY <1>2, <3>1, <3>2, DialEffect
  <2> QED
    BY <2>1, <2>2, PairedFrame
<1>3. ASSUME NEW t \in Thread, Join(t)
      PROVE  PoolPaired'
  BY <1>3, NextPairedJoin
<1>4. ASSUME NEW t \in Thread, Refused(t)
      PROVE  PoolPaired'
  <2>1. UNCHANGED <<pools, twins, left>> /\ worker[t].pc = "dial"
    BY <1>4 DEF Refused, At
  <2>2. /\ worker'[t].host \notin Host
        /\ \A u \in Thread \ {t} : worker'[u] = worker[u]
    BY <1>4, EndEffect DEF Refused
  <2>3. \A h \in Host : Past(h)' = Past(h)
    BY <2>1, <2>2 DEF Past, On
  <2> QED
    BY <2>1, <2>3, PairedFrame
<1>5. ASSUME NEW t \in Thread, Connected(t)
      PROVE  PoolPaired'
  <2>1. UNCHANGED <<pools, twins, left>> /\ worker[t].pc = "dial"
    BY <1>5 DEF Connected, At
  <2>2. PICK h \in Host : worker[t].host = h
    BY <2>1, WorkerType
  <2>3. /\ worker'[t].pc = IF h \in Range(pool) THEN "loop" ELSE "join"
        /\ \A u \in Thread : worker'[u].host = worker[u].host
        /\ \A u \in Thread \ {t} : worker'[u] = worker[u]
    BY <1>5, <2>2, MoveEffect DEF Connected
  <2>4. \A g \in Host \ {h} : Past(g)' = Past(g)
    BY <2>2, <2>3 DEF Past, On
  <2>5. h \notin twins \cup left => Past(h)' = Past(h)
    <3> SUFFICES ASSUME h \notin twins \cup left PROVE Past(h)' = Past(h)
      OBVIOUS
    <3>1. \A u \in On(h) : u = t
      BY <2>2 DEF OneWorker, On
    <3>2. h \notin ToSet(pool)
      BY <2>1, <3>1 DEF PoolPaired, Past
    <3>3. worker'[t].pc = "join"
      BY <2>3, <3>2 DEF Range, ToSet
    <3> QED
      BY <2>1, <2>3, <3>1, <3>3 DEF Past, On
  <2> QED
    BY <2>1, <2>4, <2>5, PairedFrame
<1>6. ASSUME NEW t \in Thread, peersync(t)
      PROVE  PoolPaired'
  BY <1>6, PairedFrame DEF peersync, Past, On
<1>7. ASSUME NEW t \in Thread, AskSlot(t) \/ SeesRoom(t) \/ TakeSlot(t) \/ Round(t)
      PROVE  PoolPaired'
  <2>1. /\ UNCHANGED <<pools, twins, left>>
        /\ worker[t].pc \in {"loop", "slot", "take", "sync"}
    BY <1>7, Zenon DEF AskSlot, SeesRoom, TakeSlot, Round, At
  <2>2. PICK p \in {"loop", "slot", "take", "sync"} : Move(t, p)
    BY <1>7, Zenon DEF AskSlot, SeesRoom, TakeSlot, Round
  <2>3. /\ worker'[t].pc = p
        /\ \A u \in Thread : worker'[u].host = worker[u].host
        /\ \A u \in Thread \ {t} : worker'[u] = worker[u]
    BY <2>2, MoveEffect
  <2>4. \A h \in Host : Past(h)' = Past(h)
    BY <2>1, <2>3 DEF Past, On
  <2> QED
    BY <2>1, <2>4, PairedFrame
<1>8. ASSUME NEW t \in Thread, NEW h \in Host, worker[t].host = h,
             worker' = [worker EXCEPT ![t] = Idle],
             left' = left \cup {h}, UNCHANGED <<pools, twins>>
      PROVE  PoolPaired'
  <2>1. /\ worker'[t].host \notin Host
        /\ \A u \in Thread \ {t} : worker'[u] = worker[u]
    BY <1>8, EndEffect
  <2>2. \A g \in Host \ {h} : Past(g)' = Past(g)
    BY <1>8, <2>1 DEF Past, On
  <2> QED
    BY <1>8, <2>2, PairedFrame
<1>9. ASSUME NEW t \in Thread, StopsWaiting(t)
      PROVE  PoolPaired'
  <2>1. worker[t].pc = "slot" /\ twins' = twins
    BY <1>9, Zenon DEF StopsWaiting, At
  <2>2. PICK h \in Host : worker[t].host = h
    BY <2>1, WorkerType
  <2>3. \/ worker' = [worker EXCEPT ![t] = Idle] /\ left' = left \cup {h} /\ UNCHANGED pools
        \/ Away(t, h) /\ UNCHANGED left
    BY <1>9, <2>2, Zenon DEF StopsWaiting
  <2> QED
    BY <1>8, <2>1, <2>2, <2>3, NextPairedAway
<1>10. ASSUME NEW t \in Thread, Disconnect(t)
       PROVE  PoolPaired'
  <2>1. worker[t].pc = "loop" /\ UNCHANGED <<twins, left>>
    BY <1>10 DEF Disconnect, At
  <2>2. PICK h \in Host : worker[t].host = h
    BY <2>1, WorkerType
  <2> QED
    BY <1>10, <2>1, <2>2, NextPairedAway DEF Disconnect
<1>11. ASSUME NEW t \in Thread, LoopEnds(t)
       PROVE  PoolPaired'
  <2>1. PICK h \in Host : worker[t].host = h
    BY <1>11, WorkerType DEF LoopEnds, At
  <2> QED
    BY <1>8, <1>11, <2>1 DEF LoopEnds
<1> QED
  BY <1>1, <1>2, <1>3, <1>4, <1>5, <1>6, <1>7, <1>9, <1>10, <1>11
  DEF Next, Manager, Worker, Handshake, Synchronise

-----------------------------------------------------------------------------
(* A step that starts and ends no round, and takes or returns no place. *)
LEMMA BoundFrame ==
  ASSUME SyncBound, UNCHANGED <<syncing, stopping>>,
         \A h \in Host : InRound(h)' = InRound(h)
  PROVE  SyncBound'
<1>1. \A h \in Host : Cardinality(InRound(h))' = Cardinality(InRound(h))
  OBVIOUS
<1> QED
  BY <1>1 DEF SyncBound

(* The workers in a round with a host are finitely many. *)
LEMMA RoundsFinite ==
  ASSUME NEW h
  PROVE  /\ IsFiniteSet(InRound(h)) /\ Cardinality(InRound(h)) \in Nat
         /\ Cardinality(InRound(h)) <= Cardinality(Thread)
<1>1. InRound(h) \subseteq Thread
  BY DEF InRound, On
<1> QED
  BY <1>1, FS_Subset, FS_CardinalityType, PeersAssumption

LEMMA NextSyncBound ==
  ASSUME PeersInv, [Next]_vars
  PROVE  SyncBound'
<1> USE DEF PeersInv
<1>0. \A h \in Host : syncing[h] \in Nat
  BY DEF Types
<1>1. CASE client_loop \/ Maintain \/ peers_test \/ Inbound \/ Cool \/ UNCHANGED vars
  <2>1. UNCHANGED <<worker, syncing, stopping>>
    BY <1>1, Zenon DEF client_loop, Maintain, peers_test, Inbound, Accept, Warning, unban, Cool, vars
  <2> QED
    BY <2>1, BoundFrame DEF InRound, On, At
<1>2. CASE DialNext
  <2>1. UNCHANGED <<syncing, stopping>>
    BY <1>2, Zenon DEF DialNext
  <2>2. \A h \in Host : InRound(h)' = InRound(h)
    BY <1>2, DialEffect, PeersAssumption DEF InRound, On, At, Free, Types, WorkerTypes
  <2> QED
    BY <2>1, <2>2, BoundFrame
<1>3. CASE Stop
  <2>1. UNCHANGED <<worker, syncing>> /\ stopping' = TRUE
    BY <1>3 DEF Stop
  <2>2. \A h \in Host : InRound(h)' = InRound(h)
    BY <2>1 DEF InRound, On, At
  <2> QED
    BY <2>1, <2>2 DEF SyncBound
<1>4. ASSUME NEW t \in Thread, TakeSlot(t)
      PROVE  SyncBound'
  <2>1. worker[t].pc = "take" /\ stopping' = stopping
    BY <1>4 DEF TakeSlot, At
  <2>2. PICK h \in Host : worker[t].host = h
    BY <2>1, WorkerType
  <2>3. /\ worker'[t].pc = "sync"
        /\ \A u \in Thread : worker'[u].host = worker[u].host
        /\ \A u \in Thread \ {t} : worker'[u] = worker[u]
    BY <1>4, MoveEffect DEF TakeSlot
  <2>4. InRound(h)' = InRound(h) \cup {t} /\ t \notin InRound(h)
    BY <2>1, <2>2, <2>3 DEF InRound, On, At
  <2>5. \A g \in Host \ {h} : InRound(g)' = InRound(g)
    BY <2>2, <2>3 DEF InRound, On, At
  <2>6. Cardinality(InRound(h))' = Cardinality(InRound(h)) + 1
    BY <2>4, RoundsFinite, FS_AddElement
  <2>7. syncing' = [syncing EXCEPT ![h] = @ + 1]
    BY <1>4, <2>2, Zenon DEF TakeSlot
  <2>8. syncing'[h] = syncing[h] + 1 /\ \A g \in Host \ {h} : syncing'[g] = syncing[g]
    BY <2>7 DEF Types
  <2> QED
    BY <1>0, <2>1, <2>5, <2>6, <2>8, RoundsFinite DEF SyncBound
<1>5. ASSUME NEW t \in Thread, Round(t)
      PROVE  SyncBound'
  <2>1. worker[t].pc = "sync" /\ stopping' = stopping
    BY <1>5 DEF Round, At
  <2>2. PICK h \in Host : worker[t].host = h
    BY <2>1, WorkerType
  <2>3. /\ worker'[t].pc = "loop"
        /\ \A u \in Thread : worker'[u].host = worker[u].host
        /\ \A u \in Thread \ {t} : worker'[u] = worker[u]
    BY <1>5, MoveEffect DEF Round
  <2>4. InRound(h)' = InRound(h) \ {t} /\ t \in InRound(h)
    BY <2>1, <2>2, <2>3 DEF InRound, On, At
  <2>5. \A g \in Host \ {h} : InRound(g)' = InRound(g)
    BY <2>2, <2>3 DEF InRound, On, At
  <2>6. Cardinality(InRound(h))' = Cardinality(InRound(h)) - 1 /\ Cardinality(InRound(h))' \in Nat
    BY <2>4, RoundsFinite, FS_RemoveElement, FS_CardinalityType
  <2>7. syncing' = [syncing EXCEPT ![h] = Returned(h)]
    BY <1>5, <2>2, Zenon DEF Round
  <2>8. syncing'[h] = Returned(h) /\ \A g \in Host \ {h} : syncing'[g] = syncing[g]
    BY <2>7 DEF Types
  <2> QED
    BY <1>0, <2>1, <2>5, <2>6, <2>8, RoundsFinite DEF SyncBound, Returned
<1>6. ASSUME NEW t \in Thread, StopsWaiting(t)
      PROVE  SyncBound'
  <2>1. worker[t].pc = "slot" /\ stopping /\ stopping' = stopping
    BY <1>6, Zenon DEF StopsWaiting, At
  <2>2. PICK h \in Host : worker[t].host = h
    BY <2>1, WorkerType
  <2>3. worker' = [worker EXCEPT ![t] = Idle]
    BY <1>6, Zenon DEF StopsWaiting, Away
  <2>4. /\ worker'[t].host \notin Host
        /\ \A u \in Thread \ {t} : worker'[u] = worker[u]
    BY <2>3, EndEffect
  <2>5. \A g \in Host : InRound(g)' = InRound(g)
    BY <2>1, <2>4 DEF InRound, On, At
  <2>6. syncing' = [syncing EXCEPT ![h] = @ - 1] \/ syncing' = syncing
    BY <1>6, <2>2, Zenon DEF StopsWaiting
  <2>7. \A g \in Host : syncing'[g] <= syncing[g] /\ syncing'[g] \in Int
    <3>1. CASE syncing' = [syncing EXCEPT ![h] = @ - 1]
      <4>1. syncing'[h] = syncing[h] - 1 /\ \A g \in Host \ {h} : syncing'[g] = syncing[g]
        BY <3>1 DEF Types
      <4> QED
        BY <1>0, <4>1
    <3> QED
      BY <1>0, <2>6, <3>1
  <2>8. \A g \in Host : syncing'[g] <= Cardinality(InRound(g))'
    BY <1>0, <2>5, <2>7, RoundsFinite DEF SyncBound
  <2> QED
    BY <2>1, <2>8 DEF SyncBound
<1>7. ASSUME NEW t \in Thread,
             Refused(t) \/ Connected(t) \/ Join(t) \/ peersync(t) \/ AskSlot(t) \/ SeesRoom(t)
               \/ Disconnect(t) \/ LoopEnds(t)
      PROVE  SyncBound'
  <2>1. UNCHANGED <<syncing, stopping>> /\ worker[t].pc \in {"dial", "join", "loop", "slot"}
    BY <1>7, Zenon DEF Refused, Connected, Join, peersync, AskSlot, SeesRoom, Disconnect, LoopEnds, At
  <2>2. \/ UNCHANGED worker
        \/ \E p \in {"loop", "join", "slot", "take"} : Move(t, p)
        \/ worker' = [worker EXCEPT ![t] = Idle]
    BY <1>7, Zenon DEF Refused, Connected, Join, peersync, AskSlot, SeesRoom, Disconnect, LoopEnds, Away
  <2>3. ASSUME NEW p \in {"loop", "join", "slot", "take"}, Move(t, p)
        PROVE  \A h \in Host : InRound(h)' = InRound(h)
    BY <2>1, <2>3, MoveEffect DEF InRound, On, At
  <2>4. ASSUME worker' = [worker EXCEPT ![t] = Idle]
        PROVE  \A h \in Host : InRound(h)' = InRound(h)
    BY <2>1, <2>4, EndEffect DEF InRound, On, At
  <2>5. \A h \in Host : InRound(h)' = InRound(h)
    BY <2>2, <2>3, <2>4 DEF InRound, On, At
  <2> QED
    BY <2>1, <2>5, BoundFrame
<1> QED
  BY <1>1, <1>2, <1>3, <1>4, <1>5, <1>6, <1>7 DEF Next, Manager, Worker, Handshake, Synchronise

(* What the pool and the syncing list say is exact in every state. *)
THEOREM PeersInvariant == Spec => []PeersInv
<1>1. PeersInv /\ [Next]_vars => PeersInv'
  BY NextTypes, NextOneWorker, NextPoolPaired, NextSyncBound DEF PeersInv
<1> QED
  BY <1>1, InitPeersInv, PTL DEF Spec

(* One worker past the join makes one entry, none makes none. *)
LEMMA PoolIsExact == PeersInv => PoolExact
<1> SUFFICES ASSUME PeersInv PROVE PoolExact
  OBVIOUS
<1> USE DEF PeersInv
<1>1. ASSUME NEW h \in Host \ (twins \cup left)
      PROVE  Entries(h) = Cardinality(Past(h)) /\ (h \in ToSet(pool) <=> h \in poolSet)
  <2>1. \A t, u \in Past(h) : t = u
    BY <1>1 DEF OneWorker, Past
  <2>2. CASE h \in ToSet(pool)
    <3>1. PICK i \in DOMAIN pool : pool[i] = h
      BY <2>2 DEF ToSet
    <3>2. {j \in DOMAIN pool : pool[j] = h} = {i}
      BY <1>1, <3>1 DEF PoolPaired
    <3>3. PICK t \in Thread : t \in Past(h)
      BY <1>1, <2>2 DEF PoolPaired
    <3>4. Past(h) = {t}
      BY <2>1, <3>3
    <3> QED
      BY <1>1, <3>2, <3>4, FS_Singleton DEF Entries, PoolPaired
  <2>3. CASE h \notin ToSet(pool)
    <3>1. {j \in DOMAIN pool : pool[j] = h} = {}
      BY <2>3 DEF ToSet
    <3>2. Past(h) = {}
      BY <1>1, <2>3 DEF PoolPaired, Past, On
    <3> QED
      BY <1>1, <3>1, <3>2 DEF Entries, PoolPaired
  <2> QED
    BY <2>2, <2>3
<1> QED
  BY <1>1 DEF PoolExact, PoolPaired

(* The lists that dialling and syncing are decided by are exact, whatever  *)
(* the threads of worker.py, node.py and the connection manager do.        *)
THEOREM PeersConsistent == Spec => []Consistent
<1>1. PeersInv => Consistent
  <2> SUFFICES ASSUME PeersInv PROVE Consistent
    OBVIOUS
  <2>1. \A h \in Host : syncing[h] \in 0..Cardinality(Thread)
    <3>1. \A h \in Host : syncing[h] \in Nat /\ syncing[h] <= Cardinality(InRound(h))
      BY DEF PeersInv, Types, SyncBound
    <3>2. Cardinality(Thread) \in Nat
      BY FS_CardinalityType, PeersAssumption
    <3> QED
      BY <3>1, <3>2, RoundsFinite
  <2>2. syncing \in [Host -> 0..Cardinality(Thread)]
    BY <2>1 DEF PeersInv, Types
  <2>3. \A t \in Thread :
          worker[t].pc \in {"idle", "dial", "join", "loop", "slot", "take", "sync"}
    BY WorkerType DEF PeersInv, Place
  <2>4. ToSet(pool) \subseteq Host
    BY DEF PeersInv, Types, ToSet
  <2>5. TypeOK
    BY <2>2, <2>3, <2>4 DEF PeersInv, Types, TypeOK
  <2>6. SyncingExact
    BY DEF PeersInv, SyncBound, SyncingExact, InRound
  <2> QED
    BY <2>5, <2>6, PoolIsExact DEF Consistent
<1> QED
  BY <1>1, PeersInvariant, PTL
=============================================================================
