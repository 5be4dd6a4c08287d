-------------------------------- MODULE Peers --------------------------------
(***************************************************************************)
(* The peer manager (peershandler.py and its mixins): which hosts the node *)
(* knows, which it is connected to, which it will not dial yet and which   *)
(* it has banned.  Three kinds of threads share it: the connection manager *)
(* that dials (client_loop), one worker per dialled connection, and one    *)
(* handler per incoming connection.  Each method is atomic (peers_lock);   *)
(* what a thread decides between two of them is not.                       *)
(***************************************************************************)
EXTENDS Integers, Sequences, SequencesExt, FiniteSets

CONSTANTS
    Host,          \* addresses of peers
    Own,           \* own_addresses
    Whitelist,
    ClassOf,       \* Host -> its /24 prefix
    ClassLimit,    \* connections per prefix (2)
    Thread,        \* workers the thread limit leaves room for
    Floor,         \* OUTBOUND_RECOVERY_FLOOR
    BanReset,      \* nodes_ban_reset
    SyncLimit,     \* rounds at a time (3)
    MaxCandidates, \* INBOUND_CANDIDATES_MAX
    BanThreshold   \* warnings that make a ban

NoHost == "none"

ASSUME PeersAssumption ==
    /\ IsFiniteSet(Thread) /\ NoHost \notin Host
    /\ Own \subseteq Host /\ Whitelist \subseteq Host
    /\ {ClassLimit, Floor, BanReset, SyncLimit, MaxCandidates, BanThreshold} \subseteq Nat

VARIABLES
    known,     \* peer_dict, and the peer files that are merged into it
    candidates,\* _inbound_candidates
    pool,      \* connection_pool, a list
    poolSet,   \* _connection_pool_set, its companion
    tried,     \* back-off: when the host may be dialled again
    banlist,   \* also config.banlist: it is the same list
    syncing,   \* node.syncing: how often each address is in it
    worker,    \* the outbound threads
    manager,   \* the connection manager: [pc, todo]
    stopping,
    warnings,  \* _warning_counts
    twins,     \* history: hosts two workers were on at the same time
    left       \* history: hosts a worker's loop ended for without an exception

pools == <<pool, poolSet>>
books == <<known, candidates>>
vars == <<books, pools, tried, banlist, syncing, worker,
          manager, stopping, warnings, twins, left>>

Idle == [pc |-> "idle", host |-> NoHost]
On(h) == {t \in Thread : worker[t].host = h}
Free == {t \in Thread : worker[t].pc = "idle"}
At(t, p) == worker[t].pc = p
Move(t, p) == worker' = [worker EXCEPT ![t].pc = p]

-----------------------------------------------------------------------------
(* Connection pool and back-off. *)
is_own(h) == h \in Own

append_client(h) ==
    /\ pool' = Append(pool, h)
    /\ poolSet' = poolSet \cup {h}
    /\ tried' = [tried EXCEPT ![h] = "past"]

remove_client(h) ==
    IF h \in poolSet
    THEN /\ pool' = RemoveFirst(pool, h)
         /\ poolSet' = poolSet \ {h}
    ELSE UNCHANGED pools

SameClass(h) == {p \in poolSet : ClassOf[p] = ClassOf[h]}
can_connect_to(h) ==
    /\ h \notin banlist \cup poolSet /\ ~is_own(h)
    /\ tried[h] = "past"
    /\ h \in Whitelist \/ Cardinality(SameClass(h)) < ClassLimit

(* 30 s, 60 s, 120 s and 300 s: within the minute, or later. *)
Delay == {"soon", "late"}
add_try(h) == \E due \in Delay : tried' = [tried EXCEPT ![h] = due]

outbound_count == Len(pool)
is_isolated == outbound_count <= Floor

(* reset_tried: the timers of more than a minute, or all of them. *)
Gentle == [h \in Host |-> IF tried[h] = "late" THEN "past" ELSE tried[h]]
Aggressive == [h \in Host |-> "past"]

(* Time passes for one back-off timer. *)
Cool ==
    /\ \E h \in Host :
        /\ tried[h] # "past"
        /\ tried' = [tried EXCEPT ![h] = IF @ = "late" THEN "soon" ELSE "past"]
    /\ UNCHANGED <<books, pools, banlist, syncing, worker,
                   manager, stopping, warnings, twins, left>>

-----------------------------------------------------------------------------
(* The connection manager.  A pass begins with the isolation test. *)
Wiped == Aggressive
client_loop ==
    /\ manager.pc = "sleep" /\ ~stopping
    /\ tried' = IF is_isolated THEN Wiped ELSE tried
    /\ manager' = [pc |-> "dial", todo |-> known]
    /\ UNCHANGED <<books, pools, banlist, syncing, worker,
                   stopping, warnings, twins, left>>

DialNext ==
    /\ manager.pc = "dial"
    /\ \E h \in manager.todo :
        /\ manager' = [manager EXCEPT !.todo = @ \ {h}]
        /\ \/ /\ can_connect_to(h) /\ Free # {}
              /\ add_try(h)
              /\ \E t \in Free : worker' = [worker EXCEPT ![t] = [pc |-> "dial", host |-> h]]
              /\ twins' = IF On(h) # {} THEN twins \cup {h} ELSE twins
           \/ /\ ~can_connect_to(h) \/ Free = {}
              /\ UNCHANGED <<tried, worker, twins>>
    /\ UNCHANGED <<books, pools, banlist, syncing, stopping,
                   warnings, left>>

(* The bans are "reset" (the list is assigned to itself, only the warnings  *)
(* go), and long timers dropped, when there are few connections, or, every  *)
(* ten minutes, no more of them than bans.                                  *)
MoreBans == Cardinality(banlist) >= BanReset /\ Cardinality(banlist) >= outbound_count
Maintain ==
    /\ manager.pc = "dial" /\ manager.todo = {}
    /\ manager' = [pc |-> "probe", todo |-> candidates]
    /\ candidates' = {}
    /\ \E again \in {FALSE, MoreBans} :
        /\ warnings' = IF outbound_count < BanReset \/ again THEN [h \in Host |-> 0] ELSE warnings
        /\ tried' = IF outbound_count < 10 \/ again THEN Gentle ELSE tried
    /\ UNCHANGED <<known, pools, banlist, syncing, worker,
                   stopping, twins, left>>

(* Callers are probed on the default port; those that answer become known.  *)
peers_test ==
    /\ manager.pc = "probe"
    /\ \E answers \in SUBSET manager.todo : known' = known \cup answers
    /\ manager' = [pc |-> "sleep", todo |-> {}]
    /\ UNCHANGED <<candidates, pools, tried, banlist, syncing, worker,
                   stopping, warnings, twins, left>>

-----------------------------------------------------------------------------
(* A worker.  It dials, shakes hands, and enters itself in the pool. *)
Refused(t) ==
    /\ At(t, "dial")
    /\ worker' = [worker EXCEPT ![t] = Idle]
    /\ UNCHANGED <<books, pools, tried, banlist, syncing,
                   manager, stopping, warnings, twins, left>>

Connected(t) ==
    /\ At(t, "dial") /\ worker[t].host \notin banlist /\ ~stopping
    /\ Move(t, IF worker[t].host \in Range(pool) THEN "loop" ELSE "join")
    /\ UNCHANGED <<books, pools, tried, banlist, syncing, manager,
                   stopping, warnings, twins, left>>

Join(t) ==
    /\ At(t, "join")
    /\ append_client(worker[t].host)
    /\ Move(t, "loop")
    /\ UNCHANGED <<books, banlist, syncing, manager, stopping,
                   warnings, twins, left>>

Goes(h) == h \notin banlist /\ ~stopping

(* A list of peers from this peer: those that answer a probe become known. *)
peersync(t) ==
    /\ At(t, "loop") /\ Goes(worker[t].host)
    /\ \E h \in Host \ known : known' = known \cup {h}
    /\ UNCHANGED <<candidates, pools, tried, banlist, syncing,
                   worker, manager, stopping, warnings, twins, left>>

(* A round of the sync protocol takes one of the SyncLimit places. *)
AskSlot(t) ==
    /\ At(t, "loop") /\ Goes(worker[t].host)
    /\ Move(t, "slot")
    /\ UNCHANGED <<books, pools, tried, banlist, syncing,
                   manager, stopping, warnings, twins, left>>

Sum(f) == FoldFunction(+, 0, f)
Room == Sum(syncing) < SyncLimit
SeesRoom(t) ==
    /\ At(t, "slot") /\ Room
    /\ Move(t, "take")
    /\ UNCHANGED <<books, pools, tried, banlist, syncing,
                   manager, stopping, warnings, twins, left>>

TakeSlot(t) ==
    /\ At(t, "take")
    /\ syncing' = [syncing EXCEPT ![worker[t].host] = @ + 1]
    /\ Move(t, "sync")
    /\ UNCHANGED <<books, pools, tried, banlist, manager,
                   stopping, warnings, twins, left>>

(* However the round ends. *)
Kept(h) == syncing[h]
Returned(h) == IF syncing[h] > 0 THEN syncing[h] - 1 ELSE 0
Round(t) ==
    /\ At(t, "sync")
    /\ LET h == worker[t].host IN
       /\ syncing' = [syncing EXCEPT ![h] = Returned(h)]
    /\ Move(t, "loop")
    /\ UNCHANGED <<books, pools, tried, banlist, manager, stopping,
                   warnings, twins, left>>

(* Stopping while it waits for a place, a worker still gives one back: that *)
(* of a twin, or an exception if there is none.                             *)
Away(t, h) ==
    /\ remove_client(h)
    /\ worker' = [worker EXCEPT ![t] = Idle]

StopsWaiting(t) ==
    /\ At(t, "slot") /\ stopping
    /\ LET h == worker[t].host IN
       \/ /\ syncing[h] > 0
          /\ syncing' = [syncing EXCEPT ![h] = @ - 1]
          /\ worker' = [worker EXCEPT ![t] = Idle]
          /\ left' = left \cup {h}
          /\ UNCHANGED pools
       \/ /\ syncing[h] = 0
          /\ Away(t, h)
          /\ UNCHANGED <<syncing, left>>
    /\ UNCHANGED <<books, tried, banlist, manager, stopping, warnings, twins>>

(* The exception path: everything the peer left is taken back. *)
Disconnect(t) ==
    /\ At(t, "loop")
    /\ Away(t, worker[t].host)
    /\ UNCHANGED <<books, tried, banlist, syncing, manager, stopping,
                   warnings, twins, left>>

(* The loop's condition fails: the thread ends, and nothing is taken back. *)
LoopEnds(t) ==
    /\ At(t, "loop") /\ ~Goes(worker[t].host)
    /\ left' = left \cup {worker[t].host}
    /\ worker' = [worker EXCEPT ![t] = Idle]
    /\ UNCHANGED <<books, pools, tried, banlist, syncing,
                   manager, stopping, warnings, twins>>

-----------------------------------------------------------------------------
(* A handler of an incoming connection. *)

record_inbound_peer(h) ==
    IF is_own(h) \/ h \in known \cup banlist \/ Cardinality(candidates) >= MaxCandidates
    THEN candidates ELSE candidates \cup {h}

Accept(h) ==
    /\ ~stopping
    /\ candidates' = record_inbound_peer(h)
    /\ UNCHANGED <<known, pools, tried, banlist, syncing, worker,
                   manager, stopping, warnings, twins, left>>

(* A warning, from any of the threads. *)
Warning(h) ==
    /\ h \notin Whitelist /\ warnings[h] < BanThreshold
    /\ warnings' = [warnings EXCEPT ![h] = @ + 1]
    /\ banlist' = IF warnings'[h] >= BanThreshold THEN banlist \cup {h} ELSE banlist
    /\ UNCHANGED <<books, pools, tried, syncing, worker, manager, stopping, twins, left>>

(* unban, after a good block of the peer: its warnings go, a ban stays. *)
unban(h) ==
    /\ warnings[h] > 0
    /\ warnings' = [warnings EXCEPT ![h] = 0]
    /\ UNCHANGED <<books, pools, tried, banlist, syncing, worker, manager, stopping,
                   twins, left>>

Stop ==
    /\ ~stopping /\ stopping' = TRUE
    /\ UNCHANGED <<books, pools, tried, banlist, syncing, worker,
                   manager, warnings, twins, left>>

-----------------------------------------------------------------------------
Init ==
    /\ known \in (SUBSET Host) \ {{}}
    /\ candidates = {} /\ pool = <<>> /\ poolSet = {}
    /\ tried = [h \in Host |-> "past"]
    /\ banlist = {}
    /\ syncing = [h \in Host |-> 0]
    /\ worker = [t \in Thread |-> Idle]
    /\ manager = [pc |-> "sleep", todo |-> {}]
    /\ stopping = FALSE /\ warnings = [h \in Host |-> 0] /\ twins = {} /\ left = {}

Manager == client_loop \/ DialNext \/ Maintain \/ peers_test
Handshake(t) == Refused(t) \/ Connected(t) \/ Join(t)
Synchronise(t) == SeesRoom(t) \/ TakeSlot(t) \/ Round(t) \/ StopsWaiting(t) \/ LoopEnds(t)
Worker(t) == Handshake(t) \/ Synchronise(t) \/ AskSlot(t) \/ peersync(t) \/ Disconnect(t)
Inbound == \E h \in Host : Accept(h) \/ Warning(h) \/ unban(h)

Next == Manager \/ (\E t \in Thread : Worker(t)) \/ Inbound \/ Cool \/ Stop

Spec == Init /\ [][Next]_vars

(* The manager's pass is never blocked and each worker runs; back-off timers *)
(* are not assumed to expire.                                               *)
FairSpec ==
    /\ Spec
    /\ WF_vars(Manager)
    /\ \A t \in Thread : WF_vars(Handshake(t)) /\ WF_vars(Synchronise(t))

-----------------------------------------------------------------------------
(* Type correctness of the peer lists, the workers and the manager. *)
TypeOK ==
    /\ known \cup candidates \cup banlist
         \cup poolSet \cup ToSet(pool) \subseteq Host
    /\ tried \in [Host -> {"past", "soon", "late"}]
    /\ syncing \in [Host -> 0..Cardinality(Thread)]
    /\ warnings \in [Host -> 0..BanThreshold]
    /\ \A t \in Thread :
        worker[t].pc \in {"idle", "dial", "join", "loop", "slot", "take", "sync"}
    /\ Cardinality(candidates) <= MaxCandidates

(* The pool that decides whether the node is isolated, and whether a host   *)
(* may be dialled, holds a client once while its worker runs and not at all *)
(* otherwise: on every path of worker.py, as long as no second worker was   *)
(* started for the host and no loop ended on its condition.                 *)
Past(h) == {t \in On(h) : worker[t].pc \notin {"dial", "join"}}
Entries(h) == Cardinality({i \in DOMAIN pool : pool[i] = h})
PoolExact ==
    /\ poolSet \subseteq ToSet(pool)
    /\ \A h \in Host \ (twins \cup left) :
        /\ Entries(h) = Cardinality(Past(h))
        /\ h \in ToSet(pool) <=> h \in poolSet

(* Until the node stops, node.syncing holds an address once per worker that *)
(* is in a round with it, whatever twins and bans there are: a place is     *)
(* neither lost, which would end all syncing after SyncLimit losses, nor    *)
(* given back twice.                                                        *)
SyncingExact ==
    ~stopping => \A h \in Host : syncing[h] = Cardinality({t \in On(h) : At(t, "sync")})

(* The lists that dialling and syncing are decided by are exact, whatever   *)
(* the threads of worker.py, node.py and the connection manager do.         *)
Consistent == TypeOK /\ PoolExact /\ SyncingExact

(* Isolated, the node dials every known host it may dial, without waiting   *)
(* for any back-off to expire (peershandler.py:240-258).                    *)
Eligible(h) ==
    /\ ~stopping /\ is_isolated /\ Free # {}
    /\ h \in known /\ h \notin banlist \cup Own \cup poolSet
    /\ h \in Whitelist \/ Cardinality(SameClass(h)) < ClassLimit
Redials == \A h \in Host : Eligible(h) ~> (~Eligible(h) \/ On(h) # {})
=============================================================================
