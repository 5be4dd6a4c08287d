------------------------------ MODULE RestCaches ------------------------------
(***************************************************************************)
(* What the REST API keeps between requests: the statistics a background   *)
(* thread folds from the ledger (rest_stats.py), the circulating supply    *)
(* and the set of heights that signal the fork (rest_api.py).  Each is     *)
(* built once, then only topped up over new blocks, in several short read  *)
(* transactions while the node commits and rolls back; two are mirrored to *)
(* files.  The guards that allow one computation at a time are tested and  *)
(* set in two steps, so two threads may compute.                           *)
(***************************************************************************)
EXTENDS Integers, FiniteSets, SequencesExt

CONSTANTS
    Thread,
    Body,          \* blocks that may be mined: [to, from, amount, slot], slot being where
                   \* the coinbase carries the signal: "openfield", "public_key" or "no"
    Genesis,       \* the first of them
    NoOne,         \* the sender of a coinbase
    None,          \* no cache
    TopK,          \* BIGTX_K, RICH_K
    Backoff,       \* FORK_REORG_BACKOFF
    SyncScanMax,   \* FORK_SYNC_SCAN_MAX
    Activation,    \* the height the fork is locked in for
    Tries,         \* passes of supply_units_total
    MaxDepth,      \* blocks a rollback removes at most
    Chunk,         \* SCAN_CHUNK, blocks per read transaction
    MaxHeight,
    MaxFaults      \* rollbacks, failures and restarts considered

ASSUME RestCachesAssumption ==
    /\ Genesis \in Body
    /\ {TopK, Tries, Chunk} \subseteq Nat \ {0}
    /\ {Backoff, SyncScanMax, Activation, MaxDepth, MaxHeight, MaxFaults} \subseteq Nat

VARIABLES
    endpoint,   \* what the clients ask for: the caches share only the ledger, and
                \* the rich list is looked at without the pass made before it
    chain,      \* the ledger: [id, body], the id standing for the hash
    mem,        \* node._stats_*_cache and node._supply_cache
    disk,       \* their files
    sigs,       \* node._rest_fork_sigs
    forktip,    \* the height node._rest_fork_cache answers for, 0 if none
    fork_height,\* node.fork_height
    busy,       \* node._stats_maintaining, _supply_computing or _rest_fork_computing
    job,        \* per thread
    ids,        \* history: blocks committed
    rolled,     \* history: rollbacks
    raced,      \* history: a rollback hit a signal scan
    loose,      \* history: a supply figure that no single tip was found for
    fails, restarts

ledger == <<chain, ids, fork_height>>
fork == <<sigs, forktip>>
ghost == <<rolled, raced, loose, fails, restarts>>
vars == <<endpoint, ledger, mem, disk, fork, busy, job, ghost>>

Stat == {"monthly", "newaddr", "bigtx"}
Cached == Stat \cup {"rich", "supply"}
Idle == [pc |-> "idle"]
Tip == Len(chain)
Addresses == UNION {{b.to, b.from} : b \in Body} \ {NoOne}
MayFail == rolled + fails + restarts < MaxFaults
MinOf(x, y) == IF x < y THEN x ELSE y

-----------------------------------------------------------------------------
(* Reads of the ledger, each one transaction. *)
balance_units(a) ==
    LET bal[h \in 0..Tip] ==
          IF h = 0 THEN 0
          ELSE bal[h - 1] + (IF chain[h].body.to = a THEN chain[h].body.amount ELSE 0)
                          - (IF chain[h].body.from = a THEN chain[h].body.amount ELSE 0)
    IN  bal[Tip]

(* The sum over blocks lo+1 to hi that are there. *)
supply_units_range(lo, hi) ==
    LET sum[h \in 0..Tip] == IF h <= lo THEN 0 ELSE sum[h - 1] + chain[h].body.amount
    IN  sum[MinOf(hi, Tip)]

FirstReceipt(a) == CHOOSE h \in 1..Tip : chain[h].body.to = a /\ \A k \in 1..(h - 1) : chain[k].body.to # a

-----------------------------------------------------------------------------
(* The accumulators.  "monthly" stands for the additive figures, those of  *)
(* the miners too.                                                         *)
Accumulator(c) ==
    [cold |-> c = None, since |-> IF c = None THEN 0 ELSE c.height,
     value |-> IF c = None THEN [monthly |-> 0, newaddr |-> 0, bigtx |-> <<>>] ELSE c.value,
     checked |-> {}]

Largest(q) == SubSeq(SortSeq(q, >), 1, MinOf(TopK, Len(q)))

IsNew(acc, b) ==
    /\ b.to \notin acc.checked
    /\ acc.cold \/ FirstReceipt(b.to) > acc.since

Feed(n, acc, b) ==
    CASE n = "monthly" -> [acc EXCEPT !.value.monthly = @ + b.amount]
      [] n = "newaddr" -> [acc EXCEPT !.value.newaddr = IF IsNew(acc, b) THEN @ + 1 ELSE @,
                                       !.checked = @ \cup {b.to}]
      [] n = "bigtx" -> IF b.from = NoOne THEN acc
                        ELSE [acc EXCEPT !.value.bigtx = Largest(Append(@, b.amount))]

-----------------------------------------------------------------------------
(* _serve: the cached figure is returned as it is; one that is missing or  *)
(* behind the tip starts the maintainer, unless it is at work.             *)
Loaded(n) == IF mem[n] # None THEN mem[n] ELSE disk[n]
Behind(n) == IF Loaded(n) = None THEN TRUE ELSE Loaded(n).height < Tip

Asked == IF endpoint = "rich" THEN {"rich"} ELSE Stat

serve(t) ==
    /\ endpoint \in {"stats", "rich"} /\ job[t].pc = "idle" /\ ~busy
    /\ \E n \in Asked : Behind(n)
    /\ job' = [job EXCEPT ![t] = [pc |-> "kicked"]]
    /\ UNCHANGED <<endpoint, ledger, mem, disk, fork, busy, ghost>>

After(tip) == IF endpoint = "rich" THEN [pc |-> "rich", tip |-> tip] ELSE [pc |-> "done"]

(* One pass over the blocks the stalest figure lacks. *)
Maintain(t) ==
    /\ job[t].pc = "kicked"
    /\ busy' = TRUE
    /\ mem' = [n \in Cached |-> IF n \in Asked THEN Loaded(n) ELSE mem[n]]
    /\ LET todo == {n \in Asked \ {"rich"} : Behind(n)}
           acc == [n \in todo |-> Accumulator(Loaded(n))]
       IN  job' = [job EXCEPT ![t] =
             IF todo = {} THEN After(Tip)
             ELSE [pc |-> "scan", tip |-> Tip, acc |-> acc,
                   at |-> CHOOSE m \in {acc[n].since + 1 : n \in todo} :
                            \A n \in todo : m <= acc[n].since + 1]]
    /\ UNCHANGED <<endpoint, ledger, disk, fork, ghost>>

FoldAll(acc, h, b) == [n \in DOMAIN acc |-> Feed(n, acc[n], b)]   \* with the slip: every block is folded
Folded(acc, h, b) ==
    [n \in DOMAIN acc |-> IF h > acc[n].since THEN Feed(n, acc[n], b) ELSE acc[n]]

FoldChunk(acc, lo, hi) ==
    LET upto[h \in (lo - 1)..hi] == IF h < lo THEN acc ELSE Folded(upto[h - 1], h, chain[h].body)
    IN  IF hi < lo THEN acc ELSE upto[hi]

Scan(t) ==
    /\ job[t].pc = "scan"
    /\ LET j == job[t]
           end == MinOf(j.tip, j.at + Chunk - 1)
           acc == FoldChunk(j.acc, j.at, MinOf(end, Tip))
       IN  job' = [job EXCEPT ![t] =
             IF end = j.tip THEN [pc |-> "finish", tip |-> j.tip, acc |-> acc]
                            ELSE [j EXCEPT !.at = end + 1, !.acc = acc]]
    /\ UNCHANGED <<endpoint, ledger, mem, disk, fork, busy, ghost>>

(* Each figure to memory, then to its file; a file that cannot be written  *)
(* is logged.                                                              *)
Store(n, c) ==
    /\ mem' = [mem EXCEPT ![n] = c]
    /\ \/ disk' = [disk EXCEPT ![n] = c] /\ UNCHANGED fails
       \/ MayFail /\ fails' = fails + 1 /\ UNCHANGED disk

Finish(t) ==
    /\ job[t].pc = "finish"
    /\ LET j == job[t]
           n == IF "monthly" \in DOMAIN j.acc THEN "monthly"
                ELSE IF "newaddr" \in DOMAIN j.acc THEN "newaddr" ELSE "bigtx"
       IN    /\ Store(n, [height |-> j.tip, value |-> j.acc[n].value])
             /\ job' = [job EXCEPT ![t] =
                  IF DOMAIN j.acc = {n} THEN After(j.tip)
                  ELSE [j EXCEPT !.acc = [m \in DOMAIN j.acc \ {n} |-> j.acc[m]]]]
    /\ UNCHANGED <<endpoint, ledger, fork, busy, rolled, raced, loose, restarts>>

(* An exception while scanning is logged; the rich list is still tried. *)
ScanFails(t) ==
    /\ job[t].pc \in {"scan", "finish"} /\ MayFail
    /\ fails' = fails + 1
    /\ job' = [job EXCEPT ![t] = After(job[t].tip)]
    /\ UNCHANGED <<endpoint, ledger, mem, disk, fork, busy, rolled, raced, loose, restarts>>

(* _rich_cold and the scan of _rich_advance: what is to be read next. *)
Touched(lo, hi) == UNION {{chain[h].body.to, chain[h].body.from} : h \in (lo + 1)..MinOf(hi, Tip)} \ {NoOne}

Rich(t) ==
    /\ job[t].pc = "rich"
    /\ LET c == Loaded("rich")
       IN  job' = [job EXCEPT ![t] =
             IF c = None THEN [pc |-> "balances", height |-> Tip, top |-> <<>>, read |-> Addresses]
             ELSE IF c.height < job[t].tip
               THEN [pc |-> "balances", height |-> job[t].tip, top |-> c.value,
                     read |-> Touched(c.height, job[t].tip)]
               ELSE [pc |-> "balances", height |-> c.height, top |-> c.value, read |-> {}]]
    /\ UNCHANGED <<endpoint, ledger, mem, disk, fork, busy, ghost>>

(* The addresses read take their balance, the rest keep theirs; the list   *)
(* is cut to the richest.                                                  *)
Ranked(all) ==
    {D \in SUBSET DOMAIN all :
       /\ Cardinality(D) = MinOf(TopK, Cardinality(DOMAIN all))
       /\ \A a \in D, b \in DOMAIN all \ D : all[a] >= all[b]}

Balances(t) ==
    /\ job[t].pc = "balances"
    /\ LET j == job[t]
           all == [a \in (DOMAIN j.top \ j.read) \cup {a \in j.read : balance_units(a) > 0} |->
                     IF a \in j.read THEN balance_units(a) ELSE j.top[a]]
       IN  \E D \in Ranked(all) :
             Store("rich", [height |-> j.height, value |-> [a \in D |-> all[a]]])
    /\ job' = [job EXCEPT ![t] = [pc |-> "done"]]
    /\ UNCHANGED <<endpoint, ledger, fork, busy, rolled, raced, loose, restarts>>

(* finally: the next request may start another one. *)
StayBusy(t) ==   \* with the slip: the flag is not reset
    /\ job[t].pc = "done"
    /\ job' = [job EXCEPT ![t] = Idle]
    /\ UNCHANGED <<endpoint, ledger, mem, disk, fork, busy, ghost>>
Done(t) ==
    /\ job[t].pc = "done"
    /\ busy' = FALSE
    /\ job' = [job EXCEPT ![t] = Idle]
    /\ UNCHANGED <<endpoint, ledger, mem, disk, fork, ghost>>

-----------------------------------------------------------------------------
(* _supply: a figure that is behind is topped up by the request itself; a  *)
(* missing one is computed by a thread from the balance table.             *)
SupplyAsk(t) ==
    /\ endpoint = "supply" /\ job[t].pc = "idle" /\ Behind("supply")
    /\ Loaded("supply") # None \/ ~busy
    /\ LET c == Loaded("supply")
       IN  /\ mem' = [mem EXCEPT !["supply"] = c]
           /\ job' = [job EXCEPT ![t] =
                IF c # None THEN [pc |-> "topup", cache |-> c, height |-> Tip]
                            ELSE [pc |-> "compute"]]
    /\ UNCHANGED <<endpoint, ledger, disk, fork, busy, ghost>>

TopUp(t) ==
    /\ job[t].pc = "topup"
    /\ LET j == job[t]
       IN  Store("supply", [height |-> j.height,
                            value |-> j.cache.value + supply_units_range(j.cache.height, j.height)])
    /\ job' = [job EXCEPT ![t] = Idle]
    /\ UNCHANGED <<endpoint, ledger, fork, busy, rolled, raced, loose, restarts>>

(* A top-up that raises falls through to the computation. *)
TopUpFails(t) ==
    /\ job[t].pc = "topup" /\ MayFail
    /\ fails' = fails + 1
    /\ job' = [job EXCEPT ![t] = IF busy THEN Idle ELSE [pc |-> "compute"]]
    /\ UNCHANGED <<endpoint, ledger, mem, disk, fork, busy, rolled, raced, loose, restarts>>

start_supply_compute(t) ==
    /\ job[t].pc = "compute"
    /\ busy' = TRUE
    /\ job' = [job EXCEPT ![t] = [pc |-> "total", left |-> Tries, tip |-> Tip]]
    /\ UNCHANGED <<endpoint, ledger, mem, disk, fork, ghost>>

(* supply_units_total: the pass over the balances. *)
SupplyPass(t) ==
    /\ job[t].pc = "total"
    /\ job' = [job EXCEPT ![t] = [pc |-> "recheck", left |-> @.left - 1, tip |-> @.tip,
                                  total |-> supply_units_range(0, Tip)]]
    /\ UNCHANGED <<endpoint, ledger, mem, disk, fork, busy, ghost>>

(* The tip is read again; the figure of the last pass is taken anyway. *)
Recheck(t) ==
    /\ job[t].pc = "recheck"
    /\ LET j == job[t]
       IN  IF Tip = j.tip \/ j.left = 0
             THEN /\ Store("supply", [height |-> Tip, value |-> j.total])
                  /\ loose' = (loose \/ Tip # j.tip)
                  /\ job' = [job EXCEPT ![t] = [pc |-> "done"]]
             ELSE /\ job' = [job EXCEPT ![t] = [pc |-> "total", left |-> j.left, tip |-> Tip]]
                  /\ UNCHANGED <<mem, disk, loose, fails>>
    /\ UNCHANGED <<endpoint, ledger, fork, busy, rolled, raced, restarts>>

-----------------------------------------------------------------------------
(* _fork_signal_set: the heights that signal, with the hash of the block   *)
(* they were read up to and the fork height they were read for: from that  *)
(* height on the signal is in the other slot of the coinbase.              *)
coinbase_signals(h, fh) ==
    chain[h].body.slot = IF fh # None /\ h >= fh THEN "public_key" ELSE "openfield"

HashAt(h) == IF h \in 1..Tip THEN chain[h].id ELSE 0

Rewound(ch) == IF MinOf(ch, Tip) > Backoff THEN MinOf(ch, Tip) - Backoff ELSE 0

Moved == sigs.height > Tip \/ HashAt(sigs.height) # sigs.hash   \* under the cached height
Cold == IF sigs = None THEN TRUE ELSE sigs.fork_height # fork_height

ScanFrom(ch, old, background) ==
    [pc |-> "signals", from |-> ch, tip |-> Tip, set |-> old, fh |-> fork_height, cold |-> background]

(* The answer given for this height is given again.  A cached hash that is *)
(* not on the chain: the tail is read again.                               *)
SignalAsk(t) ==
    /\ endpoint = "fork" /\ job[t].pc = "idle" /\ forktip # Tip /\ ~Cold
    /\ LET ch == IF Moved THEN Rewound(sigs.height) ELSE sigs.height
           old == {h \in sigs.set : h <= ch}
       IN  IF Tip > ch
             THEN /\ job' = [job EXCEPT ![t] = ScanFrom(ch, old, FALSE)]
                  /\ UNCHANGED fork
             ELSE /\ sigs' = [height |-> ch, hash |-> HashAt(ch), fork_height |-> fork_height, set |-> old]
                  /\ forktip' = Tip
                  /\ UNCHANGED job
    /\ UNCHANGED <<endpoint, ledger, mem, disk, busy, ghost>>

(* Nothing cached for this fork height: a short chain is read by the       *)
(* request itself, a long one by a thread unless one is at work.           *)
SignalCold(t) ==
    /\ endpoint = "fork" /\ job[t].pc = "idle" /\ forktip # Tip /\ Cold
    /\ \/ Tip <= SyncScanMax /\ job' = [job EXCEPT ![t] = ScanFrom(0, {}, FALSE)]
       \/ /\ Tip > SyncScanMax /\ ~busy
          /\ job' = [job EXCEPT ![t] = [pc |-> "cold", scan |-> ScanFrom(0, {}, TRUE)]]
    /\ UNCHANGED <<endpoint, ledger, mem, disk, fork, busy, ghost>>

SignalThread(t) ==
    /\ job[t].pc = "cold"
    /\ busy' = TRUE
    /\ job' = [job EXCEPT ![t] = @.scan]
    /\ UNCHANGED <<endpoint, ledger, mem, disk, fork, ghost>>

(* The scan reads the fork height for itself. *)
SignalScan(t) ==
    /\ job[t].pc = "signals"
    /\ LET read == {h \in (job[t].from + 1)..MinOf(job[t].tip, Tip) : coinbase_signals(h, fork_height)}
       IN  job' = [job EXCEPT ![t].pc = "hash", ![t].set = @ \cup read]
    /\ UNCHANGED <<endpoint, ledger, mem, disk, fork, busy, ghost>>

SignalStore(t) ==
    /\ job[t].pc = "hash"
    /\ LET j == job[t]
       IN  /\ sigs' = [height |-> j.tip, hash |-> HashAt(j.tip), fork_height |-> j.fh, set |-> j.set]
           /\ forktip' = IF j.cold THEN forktip ELSE j.tip
           /\ job' = [job EXCEPT ![t] = IF j.cold THEN [pc |-> "done"] ELSE Idle]
    /\ UNCHANGED <<endpoint, ledger, mem, disk, busy, ghost>>

(* An exception is answered, or logged by the thread. *)
SignalFails(t) ==
    /\ job[t].pc \in {"signals", "hash"} /\ MayFail
    /\ fails' = fails + 1
    /\ job' = [job EXCEPT ![t] = IF job[t].cold THEN [pc |-> "done"] ELSE Idle]
    /\ UNCHANGED <<endpoint, ledger, mem, disk, fork, busy, rolled, raced, loose, restarts>>

-----------------------------------------------------------------------------
(* The node: blocks are committed, rolled back, and the process restarts.  *)
Commit ==
    /\ Tip < MaxHeight
    /\ \E b \in Body : chain' = Append(chain, [id |-> ids + 1, body |-> b])
    /\ ids' = ids + 1
    /\ UNCHANGED <<endpoint, fork_height, mem, disk, fork, busy, job, ghost>>

Rollback ==
    /\ MayFail
    /\ \E d \in 1..MaxDepth : d < Tip /\ chain' = SubSeq(chain, 1, Tip - d)
    /\ rolled' = rolled + 1
    /\ raced' = (raced \/ \E t \in Thread : job[t].pc \in {"cold", "signals", "hash"})
    /\ UNCHANGED <<endpoint, ids, fork_height, mem, disk, fork, busy, job, loose, fails, restarts>>

(* The node locks the fork in. *)
LockIn ==
    /\ endpoint = "fork" /\ fork_height = None
    /\ fork_height' = Activation
    /\ UNCHANGED <<endpoint, chain, ids, mem, disk, fork, busy, job, ghost>>

(* _warm_supply_cache and _load_cache read the files on demand. *)
Restart ==
    /\ MayFail /\ restarts' = restarts + 1
    /\ mem' = [n \in Cached |-> None] /\ sigs' = None /\ forktip' = 0 /\ busy' = FALSE
    /\ job' = [t \in Thread |-> Idle]
    /\ UNCHANGED <<endpoint, ledger, disk, rolled, raced, loose, fails>>

Init ==
    /\ endpoint \in {"stats", "rich", "supply", "fork"}
    /\ ids = 1 /\ chain = <<[id |-> 1, body |-> Genesis]>>
    /\ mem = [n \in Cached |-> None] /\ disk = [n \in Cached |-> None]
    /\ sigs = None /\ forktip = 0 /\ fork_height = None /\ busy = FALSE /\ job = [t \in Thread |-> Idle]
    /\ rolled = 0 /\ raced = FALSE /\ loose = FALSE /\ fails = 0 /\ restarts = 0

Serving(t) ==
    \/ serve(t) \/ Maintain(t) \/ Scan(t) \/ Finish(t) \/ Rich(t) \/ Balances(t) \/ Done(t)
    \/ SupplyAsk(t) \/ TopUp(t) \/ start_supply_compute(t) \/ SupplyPass(t) \/ Recheck(t)
    \/ SignalAsk(t) \/ SignalCold(t) \/ SignalThread(t) \/ SignalScan(t) \/ SignalStore(t)

Next ==
    \/ \E t \in Thread : Serving(t) \/ ScanFails(t) \/ TopUpFails(t) \/ SignalFails(t)
    \/ Commit \/ Rollback \/ LockIn \/ Restart

Spec == Init /\ [][Next]_vars
FairSpec == Spec /\ \A t \in Thread : WF_vars(Serving(t))   \* clients ask again, threads run

-----------------------------------------------------------------------------
Transfers(h) == SelectSeq(SubSeq(chain, 1, h), LAMBDA x : x.body.from # NoOne)
Amounts(h) == [k \in DOMAIN Transfers(h) |-> Transfers(h)[k].body.amount]
Reference(n, h) ==
    CASE n \in {"monthly", "supply"} -> supply_units_range(0, h)
      [] n = "newaddr" -> Cardinality({chain[k].body.to : k \in 1..h})
      [] n = "bigtx" -> Largest(Amounts(h))

Exact(n, c) ==
    c # None =>
      CASE n = "rich" -> c.height = Tip => \A a \in DOMAIN c.value : c.value[a] = balance_units(a)
        [] n = "supply" -> c.height <= Tip /\ (~loose => c.value = Reference(n, c.height))
        [] OTHER -> c.height <= Tip /\ c.value[n] = Reference(n, c.height)

(* On a chain that only grows, every cached figure, in memory or in its    *)
(* file, is what the blocks up to its height add up to, although it is     *)
(* topped up in pieces by threads that may overlap, fail or be cut off,    *)
(* and every balance of a rich list at the tip is the ledger's             *)
(* (rest_stats.py _maintain, rest_api.py _supply).                         *)
FiguresExact == rolled = 0 => \A n \in Cached : Exact(n, mem[n]) /\ Exact(n, disk[n])

(* The heights said to signal the fork are those of the ledger whenever    *)
(* the cached hash is on it and they were read for the node's fork height, *)
(* after a reorganisation and a lock-in too, unless blocks were rolled     *)
(* back while they were being read (_fork_signal_set).                     *)
SignalsExact ==
    (~Cold /\ ~raced /\ ~Moved)
      => sigs.set = {h \in 1..sigs.height : coinbase_signals(h, fork_height)}

(* What the REST caches hold is what a recount of the ledger would give    *)
(* (rest_stats.py _maintain, rest_api.py _supply and _fork_signal_set).    *)
CachesExact == FiguresExact /\ SignalsExact

(* Once the chain rests, every figure asked for reaches the tip, and the   *)
(* signals are answered for it, whatever runs failed before (each flag is  *)
(* reset in a finally).                                                    *)
CatchesUpStats ==
    /\ (endpoint \in {"stats", "rich"}) => <>[](\A n \in Asked : Loaded(n) # None /\ Loaded(n).height >= Tip)
    /\ (endpoint = "fork") => <>[](forktip = Tip)

=============================================================================
