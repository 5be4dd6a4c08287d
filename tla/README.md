# Bismuth node: TLA+ models, model checking and proofs

Bismuth is a proof-of-work cryptocurrency node written in Python. Blocks arrive from peers over one
thread per connection, are validated and committed to an LMDB ledger, and are rolled back again when
a longer branch shows up. This directory models the parts of the node whose correctness depends on
the *order* of things: transactions of a store and crashes between them, locks and flags that are
tested and then taken, two request loops that must stay in step over a socket, caches that are topped
up while the chain moves, and the resolution of forks while everything else goes on.

## Inventory

| Part | Source | State | Operations | What is hard |
|---|---|---|---|---|
| Ledger store | `block_store.py`, `dbhandler.py` | bodies, hash / signature / address / txid / pubkey indexes, balances, difficulties, counters, allocations, schema | `commit_block`, `rollback`, `set_allocations`, `put_difficulties`, `reindex`, `set_schema`; queries | indexes must stay the exact inverse image of the blocks across rollbacks, upgrades and crashes |
| Startup, upgrade | `node_init.py`, `chain_ops.seed_genesis`, `scripts/upgrade_ledger.py` | schema flag | open, seed, credit allocations; offline rebuild | crash between the transactions |
| Block digestion | `digest.py`, `digest_tx.py` | in-memory tip, advertised tip, plugin stores, `db_lock` | `digest_block`, `process_block_data`, `handle_processing_error`, `cleanup_after_processing` | lock tested and then taken; failure half way through a batch; effects before the commit |
| Mempool | `mempool.py` | pooled transactions, `MEMPOOL.lock` | `merge`, `purge`, `delete_transaction` | looks at `db_lock`, takes its own lock later |
| Fork resolution | `chain_ops.py`, `fork_resolution.py` | `fork_lock`, verdict cache, checkpoint, held branch, backup | `blocknf`, measured or legacy | everything measured over the network can be stale when it is used |
| Reputation | `peers_reputation.py`, `peers_access.py` | scores, warnings, ban list, rights | `penalize`, `reward`, `warning`, `unban`, `is_allowed` | shared by all threads |
| Sync protocol | `worker.py`, `node.py`, `connections.py` | `node.syncing`, received heights | hello / sync / blockheight / blocksfnd / blocknf / mempool | two state machines in step over a socket, late frames |
| Peer manager | `peershandler.py`, `peers_*.py`, `connectionmanager.py` | known peers, candidates, pool, back-off, bans | dial pass, worker life cycle, ban reset | lists kept by many threads; isolation |
| Fork schedule | `fork.py`, `digest.py` | `fork_height`, sidecar file | detection, lock-in, reload | reorg, crash or restart around lock-in |
| Self-heal | `chain_ops.py`, `node.py` | sidecar budget, `rollback_to` file | detect, arm, stop, restart, roll back | crash between any two files |
| Token / alias index | `token_index.py`, `plugins/tokens_aliases` | derived LMDB store | `on_block`, `backfill`, rollback | two stores, separate transactions |
| Command server | `node.py`, `apihandler*.py`, `regnet.py`, `commands.py` | the position in the stream of frames | one per command | nothing in a frame says what it is |
| REST API | `rest_api.py`, `rest_stats.py` | caches in memory and in files | top-up, queries, submissions | several read transactions per figure |
| Mining pool | `pool/` | shares, nonces, rounds | shares, payout run | payment and book-keeping are separate steps |
| Algorithms, codecs, crypto, miners, transport, snapshots, other RPCs | rest of the tree | | | not modelled, see below |

The parts meet in few places. Connection threads (`worker.py` for outbound, `node.py` for inbound
connections) and the REST server call `digest_block`, `Mempool.merge` and `blocknf`. `digest_block`
and `blocknf` both write the ledger under `node.db_lock`; `blocknf` also holds `node.fork_lock` around
its network traffic and applies blocks through the same `process_block_data`. Digestion evicts from
the mempool transaction by transaction, `merge` reads the ledger, and both feed the reputation. Plugins
are called from inside digestion. The caches, the pool and the command server only read the ledger.

## Modules

| Module | Models |
|---|---|
| `BlockStore`, `BlockStoreProofs` | the LMDB ledger, startup and the upgrade tool; the inductive invariant and theorems |
| `BlockQueries` | every query on it, up to the REST endpoints made of them |
| `ChainRules` | blocks and transactions as the consensus rules see them (no state) |
| `Ledger` | the abstract ledger: what the node promises of it |
| `Reputation` | scores, warnings, ban list (a fragment of state for the next two) |
| `Ingest`, `IngestProofs` | handler threads: sync exchange, digestion, submissions, mempool admission; the invariant and theorems |
| `AncestorSearch` | `find_common_ancestor`, probe by probe |
| `Reorg`, `ReorgProofs` | measured and legacy fork resolution, concurrent with digestion and with itself; refines `Ledger`, which is proved; the theorems of `AncestorSearch` too |
| `SyncProtocol`, `SyncProtocolProofs` | both ends of one connection; theorems |
| `Peers`, `PeersProofs` | the peer manager, its workers and the incoming connections; theorems |
| `ForkSchedule` | the signal-activated fork |
| `DiffHeal` | difficulty divergence detector and self-heal |
| `SidecarProofs` | theorems of the parts that keep something beside the ledger: `ForkSchedule`, `DiffHeal`, `TokenIndex` |
| `TokenIndex` | tokens and aliases derived from the ledger |
| `Commands`, `CommandsProofs` | the command protocol; theorems |
| `RestCaches` | what the REST API keeps between requests |
| `Pool`, `PoolProofs` | the mining pool; theorems |
| `MC*` | the small instances |

`Ingest` and `Reorg` compose `ChainRules` and `Reputation`; `BlockQueries` composes `BlockStore`;
`Reorg` is checked and proved to implement `Ledger` under a refinement mapping. Modules that only TLC
uses are cut where another thread, a crash or a message can come in between, and nowhere else.

### BlockStore and BlockQueries

`blocks` is the sequence of bodies; heights are its positions. `hashes`, `pos` (the `sig` and `addr`
sub-databases as a set of positions), `txid`, `pkref`, `bal`, `diff`, `txcount` and `alloc` are the
sub-databases and counters; 0 stands for a missing key. `run` says who has the store open.
`commit_block` is one step, because it is one LMDB transaction. `rollback` is also one transaction,
but its loop over the blocks is modelled step by step (`loop`) so that the accumulated balances are
computed as in the code; a crash inside it discards everything. `reindex` really is many
transactions and is cut there. `replay` is a history variable: balances and row counts after each
height, recomputed from the bodies only.

`RollbackBegin` takes the fork height of its caller, which is `None` (`NoFork`) right after a
restart whose sidecar was lost. `LegacyCommit` stands for ledgers written by an earlier release,
which hold bodies and hashes below the fork and none of the new indexes: they are what the upgrade
tool is for. The tool runs on any ledger, old or current, with or without its difficulty step
(`rebuild_difficulty`, `SkipDifficulty`) and with or without the right `--fork-height`
(`ReindexDrop`), and may die at any step. Two history variables say what that leaves behind: `gap`,
the groups of derived records that are incomplete until a full reindex has ended, and `blind`, the
groups that were incomplete when a node digested a block on top of them.
Two assumptions about the inputs are named: `BodyAssumption` (rows are well formed) and
`CoinbaseAssumption` (a coinbase's txid determines its timestamp, which digestion makes strictly
increasing; so no later block repeats it).

`BlockQueries` has no state. A query walks an index in key order as the code does (the merge of the
two address streams, the turning round of each block's rows, skip and limit) and returns positions.
`QueriesExact` compares each with what the bodies say, with no index involved.

### Ingest

One thread per peer. `pc[p]` walks through the handler: `idle`, `asked`, `fetching`, `deliver` (the
test of `db_lock`), `acquire`, `wait` (the poll of `MEMPOOL.lock`), `judge` (the checks of
`process_block_data` up to the balances), `spend` (one transaction at a time), `commit`; and `await`
(a merge that waits for digests), `merge`, `merging` for the mempool. `ChainRules.Raised` gives the
reason a block fails, in the code's order of checks, since the reason decides whether a failure counts
as benign. Amounts are abstracted to *rivals*: transactions of one sender who can afford one of them.
A transaction in the pool grows too old to count as pending (`Age`, `expired`) and stays until a
purge. Proof of work and signatures are a `Fault` of a block; a block that is not the child of the tip
fails the proof of work, which is computed over the tip's hash. REST submissions enter at `deliver`
and `await` on one of the threads. `checkpoint_set`, the last act of a successful digest, is in
`Reorg`, where the checkpoint is read. `JudgeBlock` leaves out the rollback of `check_fork_reward`
(`digest.py:48-60`): it looks at one fixed block of the past, which no chain of the model reaches.

### AncestorSearch

The search interval, the probes and the answers heard. A probe is answered truthfully for the chain
the peer has *at that moment* or not at all; `PeerMoves` changes that chain between probes. `floor`
is a variable fixed by `Init`, so that one run covers every value of `max(1, tip - MAX_PROBE_DEPTH)`.

### Ledger and Reorg

`blocknf` and the steps after it follow `_blocknf_measured`: gates (where the tip is read),
`fork_lock`, measurement, tie-break, fetch, test and acquisition of `db_lock`, rollback, application
block by block, decision, restoration, return of transactions, blame. The ancestor is computed by a
definition that `AncestorSearch` justifies. `blocknf_legacy` and its steps are the opt-out
(`fork_resolution = "legacy"`), chosen with `rollback_depth` by the variable `config`. `DigestLock`/
`Digest` are forward sync in batches of one block, with the interior abstracted to its outcome. A
peer may answer each question from any of the chains in `Serves[p]`, so it may switch branches
between the measurement and the fetch. Below the checkpoint `rollback_allowed` opens when
`rollback_consensus` is on (its default, `config.deep`) and some peer has earned a reputation
(`Proven`); the size and the percentage of the consensus depend on the peer manager and may refuse at
any time: `MeasureOther` and `LegacySkip` are always possible.

`Ledger` promises: one valid chain, which changes only by `Extend` (one valid block appended),
`Switch` (another branch, valid as a whole, in one step, longer than ours or as long and different),
`Overtaken` (the same, but measured against a height that our chain has left behind since: the one way
a shorter chain gets in, see the observations), `Drop` (legacy only: the last block, not below the
checkpoint unless proven peers agree) or `Lose` (a prefix remains, only while the node stops). The
mapping shows the chain as it was when `db_lock` was taken for as long as a held branch is being
tried; so a branch that fails must leave nothing behind and an adopted one appears at once. `measured`
is the tip the thread in that section read at its gate, and the present height when there is no such
thread.

### The other modules

*SyncProtocol.* `out` is the worker of the node that dialled, `in` the handler of the one dialled,
each over its own chain, joined by FIFO channels. A block's hash is the chain up to it. Each side
compares the heights twice, once per branch of its `if`, and another thread's digest may come in
between (`HandlerAgain`, `WorkerAgain`); height and hash of one's own tip are read together. `blocknf`
is one adoption of the peer's chain, since its steps are those of `Reorg`. `events` bounds digests by
other threads, `delays` answers that come after `LTIMEOUT`.

*Peers.* The manager's pass (`client_loop`, `DialNext`, `Maintain`, `peers_test`), one record per
worker thread, incoming connections and warnings. `pool` is the list and `poolSet` its companion set,
kept by the same two methods. `twins` and `left` are history: hosts that two workers were on, and
hosts whose worker loop ended on its condition, after which the code takes nothing back.

*ForkSchedule.* The chain is only which coinbases signal and by which rules each block was judged.
`Look`, `Save`, `Judge` are the three moments of `process_block_data`: detection, sidecar, block.

*DiffHeal.* `proc` is the life of the process: run, arm, stop, off (a clean exit), down (a death),
boot, roll. Every reading of up to `MaxPeers` peers is tried at every cycle. `trigger` may be torn by
a crash, or be left empty by a write that failed while the node runs on. `heals` counts since the last
reading that confirmed the difficulty, `splits` the budgets given back since by readings that did not.

*TokenIndex.* `ti` and `al` are the sub-databases of the two halves, `work` the operations still to be
projected, each in a transaction of its own. `dirty` is the lowest height at which an interrupted pass
or a refused block may have left the index wrong: `TokensExact` says it is right below, always.

*Commands.* The tables of argument counts are read off the server's code, `Sends` off the client's.
A conversation is one command of one client; an argument may read like a command, like a word of the
sync protocol, which the same loop serves (`PeerReceive`, `PeerServe`), or like one of a plugin. A
command that needs a number before its next argument (`Checks`) leaves the rest of its arguments in
the stream when it gets something else. What is told to a peer is one frame.

*RestCaches.* `endpoint` picks which of the caches is looked at. A computation is cut at each read
transaction; `mem` and `disk` are a cache and its file. `rolled`, `raced` and `loose` are history
variables for the three excuses the properties make. The fork signals are scanned by the request or,
for a long chain, by a thread; the fork height may lock in meanwhile, which moves the slot a signal is
read from and makes the cache cold.

*Pool.* HTTP threads record shares (`nonce_seen`, then `record_share`), a payout run reads, submits,
marks, touches and closes in separate transactions; time is a small counter.

## Runs

Run one with `tlc -config MCReorg.cfg MCReorg`. Every property of the runs that pass has an entry
under `mutants` in `PROJECT.json`, a plausible slip in the code under which TLC finds it violated (the
operators commented "with the slip").

| Run | Shows |
|---|---|
| `BlockStore` | `IndexesExact`, `BalancesAreReplay`, `NoReplay`, `DifficultyAtTip`, `QueriesExact` under commits, rollbacks, upgrade, crashes |
| `Ingest` | `Consistent` (types, `LocksHeld`, `TipsAgree`), `LedgerSound`, `PoolAffordable`, and `ThreadsReturn` (liveness) |
| `Reorg` | `Consistent` (types, `LocksHeld`, `LedgerSound`, `Restored`, `PoolAffordable`), `DeepNeedsMajority`, `ImplementsLedger` (refinement), `Recovers` (liveness); of the ancestor search `Witnessed`, `Exact`, `ProbesBounded` |
| `SyncProtocol` | `Consistent` (types, `SlotReturned`), `InStep`, `CatchesUp` (liveness) |
| `Peers` | `Consistent` (types, `PoolExact`, `SyncingExact`), `Redials` (liveness) |
| `Commands` | `ReplyMatches`, `OnlyPermittedChange`, `Ends` (liveness) |
| `Sidecar` | of `ForkSchedule` `JudgedRight`, `TipIndependent`; of `DiffHeal` `MajorityAgainst`, `HealsBounded`, `AppliedOnce`, `ComesBack` (liveness); of `TokenIndex` `Consistent` (types, `IndexesMatchJournal`), `NeverOverspent`, `TokensExact`, `AliasesExact` |
| `Pool` | `CountedOnce`, `PaidOnce`, `RewardOnce` |
| `RestCaches` | `CachesExact` (`FiguresExact`, `SignalsExact`), `CatchesUpStats` (liveness) |

`MCReorg` and `MCSidecar` hold components that share no state: `part` says which one moves in a
behaviour, the others rest in an initial state, so the run covers each of them as if it were alone.

Three runs state what a doc or a comment of the repository says and TLC refutes it (`findings` in
`PROJECT.json`; these and other disagreements are under the observations):

| Run | Property | Says | Counterexample |
|---|---|---|---|
| `BlockStoreCrash` | `CleanBlockBoundary` | `block_store.py:6` | the upgrade tool dies while it reindexes a current ledger |
| `ReorgShorter` | `ShorterNeverDisplaces` | `chain_ops.py:108`, `fork_resolution.py:177` | blocks digested between the gate and `db_lock` |
| `DiffHealBudget` | `LifetimeBudget` | `doc/35-difficulty-divergence-selfheal.md:62`, `node.py:1578` | a reading of peers that disagree refills the budget |

**Bounds.** `MCBlockStore`: chains up to height 5 with the fork at 3, so a rollback can start above
the fork and end below it; bodies among which are a replayed signature, the same txid under another
signature, a key revealed twice, a coinbase with an empty signature slot and one that reuses a
signature, a transaction to oneself and blocks with several rows of one address. `MCIngest`: two peers
are enough for every pairwise race of threads (both locks have one owner); three blocks above genesis
suffice for a batch that fails in its second block; the one list of transactions stands for all its
sublists, since each may be refused. Reputation constants are scaled down but keep the order of the
code's. `MCReorg`: the branches A-B and X-Y-Z from genesis and a bad child W of A, two peers. One
serves the longest branch; the other changes between A-B, A-W and X-Y, so it may move onto part of the
best chain, or onto our own, between two answers; `rollback_depth` 1 puts the checkpoint right below
the tip so that deep reorganisations happen, 3 keeps them shallow, and a legacy configuration; one
peer is on the whitelist, so that the other is banned and unbanned while it stays. `Recovers` is
claimed for the shallow configuration. The search in the same run: tip 12 with 2 linear probes leaves
up to four bisection steps. `MCSidecar`, tokens: three bodies that issue, overspend, send to oneself,
give away, free and reclaim, three events (rollbacks, refusals, ends of the process), from an empty or
a downloaded ledger. `MCSyncProtocol`: every pair of chains of length one or two over two block
contents, up to height 3, two digests by other threads and one late answer. `MCPeers`: two hosts of
one prefix with a limit of one, two workers, one place. The fork in `MCSidecar`: window 2, boundary 3
over nine heights, so that a boundary falls inside, at and after the burial; reorganisations of any
depth. The self-heal: up to four peers with three possible answers, two crashes or failed writes, a
lifetime cap of one and two arms beyond it, and one budget given back by peers that disagree, so that
every term of the bound is reached. `MCPool`: two threads, two nonces, three shares, two rounds, one
crash and one failed submission; threads and nonces are symmetric. `MCRestCaches`: three blocks in
chunks of two, so that a fold is cut, the fork at height 2 and inline scans up to height 1, so that
both eras and the background scan occur; one fault of each kind. `MCCommands`: every command with
arguments that are a number or read like a command, and, as tools send them, words of the peers, of a
plugin and of no method; from localhost, an allowed and a foreign address. Deadlock checking is off
where the system may stop: a search ends, a connection stays closed, a node with all peers banned or a
stop request has nothing to do, and bounded events run out.

**Fairness.** `Ingest`: a handler thread keeps running (weak fairness for each of its steps) and a
network wait ends in data or a timeout, since sockets have timeouts. Acquiring `MEMPOOL.lock` for a
merge needs strong fairness, since merges can follow one another; each hold is bounded and followed by
a network wait. Nothing is assumed of peers starting anything. `Reorg`: the same for threads; each
verdict on the loyal peer expires (`VERDICT_TTL_S`); and that one *loyal* peer keeps repeating
`blocknf` and again and again serves its whole branch when it is asked itself. The latter is an
assumption about that peer, not about the code: `Recovers` says the node profits from such a peer
whatever the other one does. It excludes the case that the node is stopping; the loyal peer is on the
whitelist, since a ban for failing links would keep it out. `SyncProtocol`: both threads run and
`db_lock` is given back. `Peers`: the manager's pass is never blocked and workers run; back-off timers
are *not* assumed to expire, since the isolation test must not need it. `Commands`: both ends run and
`poll` gives up; no client is assumed to ask anything. `DiffHeal`: the process steps happen (the main
loop breaks, a start goes on, and the service manager restarts a process that died); a node that
stopped cleanly is started by hand or not at all, which nothing is assumed about. `RestCaches`:
threads run, and clients keep asking.

## Observations

What the models showed that is not as a doc, a comment or a reader would have it. Each was met by
stating the stronger property first. For three claims of the repository a run shows the counterexample
(named in brackets); elsewhere the properties are what does hold, with the exception they make named.

* **Shorter chain adopted.** The tip is read at `chain_ops.py:87`, before `fork_lock`, the probes and
  the fetch, and is compared with the new tip after the reorganisation. Blocks digested in between are
  rolled back and not counted, so a shorter chain can replace ours, although `chain_ops.py:108` and
  `fork_resolution.py:177` say "a shorter chain never displaces ours" (`ReorgShorter`). With a
  checkpoint at every block the node may then stay there: if the shorter branch was adopted up to an
  invalid block, the failure path skips `checkpoint_set` and the way back is a `DEAD_FORK`. In
  `Ledger` this is an action of its own, `Overtaken`, possible only when blocks came in since the
  measurement. When the peer moved onto our own branch between the measurement and the fetch, what is
  adopted may even be part of the chain it replaces.
* **Legacy floor slides.** `checkpoint_set` is recomputed from `last_block`, so in legacy mode
  alternating rollbacks and new blocks moves the floor down past the "max ~59-block rollback" of
  `essentials.py:206-208`; `Ledger.Drop` speaks of the checkpoint of the moment.
* **Honest peers penalised.** A block the node already holds fails the timestamp check before the
  replay check, whose message would be recognised as benign (`digest.py:450`, "Also skip our own
  fork-rollback and benign \"already in ledger\" duplicates"): a synced node penalises an honest peer
  that lost a race.
* **Plugins before the commit.** `digest.py:635` hands a block to the plugins before the sender gate
  and the commit, though `plugins.py:130` says "Notify every class plugin of a freshly-committed
  block". A refused block leaves stale rows until a rollback past it (`TokensExact`, `dirty`).
* **Confirmed transactions in the pool.** A merge that looked at `db_lock` before a digest started
  admits a transaction that the digest has evicted and is about to confirm (`mempool.py:259-260`).
* **Pending transactions expire silently.** A transaction older than `REFUSE_OLDER_THAN` no longer
  counts as pending (`mempool.py:381-383`) but stays in the pool until a purge, so a rival of it is
  admitted beside it; `PoolAffordable` is about those that count.
* **Reindex of a current ledger.** `upgrade_ledger.py:129` does not withdraw the schema first, so a
  crash in between leaves a store that a node accepts with partial indexes, against `block_store.py:6`
  "a crash leaves the store at a clean block boundary" (`BlockStoreCrash`). A finished reindex repairs
  everything but the chain: a signature that was confirmed again meanwhile stays (`NoReplay`,
  `blind`). Run as documented, without `--fork-height`, on a ledger past the fork, the tool drops the
  txid index and the key registry and does not fill them again, against its line 18 "Idempotent:
  re-running rebuilds the same state" (the exception for the group `fork` in `IndexesExact`).
* **Negative supplies.** `int(supply)` accepts a negative one (`token_index.py:153-156`): its holder
  starts below zero. `NeverOverspent` excepts that holder and nobody it deals with.
* **Backfill is not resumable.** Operations bump the anchor as they are applied, in the order issues,
  transfers, aliases (`token_index.py:106`, `plugins/tokens_aliases/__init__.py:83-86`), so a crash in
  the middle skips lower rows of a later kind, against `token_index.py:73-75` "so a crash mid-pass
  just re-scans from the anchor". Rescanning the anchor block is also not idempotent for aliases. The
  rollbacks of ledger, tokens and aliases are three transactions (`chain_ops.py:21-22`), against
  "nothing to reconcile after a crash" (`chain_ops.py:7-8`).
* **Idle treated as failure.** A time-out gives `"*"`, "normal idle, not an error"
  (`connections.py:10-12`), which the worker and the handler convert to a height and fail on
  (`worker.py:172-175`, `node.py:283-287`), or look up as a hash and count as a fork
  (`worker.py:179-197`). `node.py:258` calls `peers.warning` without its `count` (a `TypeError`).
* **Bans are not reset.** `self.banlist = config.banlist` (`peershandler.py:106`) is the same list, so
  the resets at 295 and 310 assign it to itself and only the warnings go.
* **Fork height kept after a reorg.** `digest.py:505` never forgets a locked height when a reorg
  removes the window, against `fork.py:3-7` "with a burial margin so a near-tip reorg can't move it":
  the margin protects activation, not the lock-in. `JudgedRight` excuses exactly that, and a
  detection that raised (`digest.py:495-512`): one that raises at the closing block is not repeated by
  the incremental check until a restart. `LookFails` sets `blind` at any failed look, so the excuse is
  wider than that one block.
* **Self-heal.** A reading is also "clean" when peers disagree among themselves (`node.py:1577-1581`),
  which gives the lifetime budget back (`DiffHealBudget`); the heal's clean exit is not restarted by
  the unit the repository installs (`install_node.sh:215` has the same line), though `node.py:1641`
  and `doc/35-difficulty-divergence-selfheal.md:52` say systemd restarts it; `ComesBack` is about
  processes that died; a crash between the removal of the trigger and the rollback loses the cut
  (`node.py:1412-1418`); a lost sidecar write loses a count; a trigger that could not be written
  leaves an empty file at which the next start fails once.
* **Commands.** A conversion that fails between two receives leaves the rest to be read as commands
  (the exception `Mistyped` in `ReplyMatches`; also `apihandler_address.py:249-252`, `:275-278`,
  `apihandler_blocks.py:221-222`). The words of the sync protocol ask for no right
  (`doc/08-api-and-commands.md:11` and `:16` say that all commands, peer sync among them, pass
  `is_allowed`; `OnlyPermittedChange` speaks of what is done by command). `mpfill` sends
  `regtest_mpfill`, which the node lacks (`commands.py:436-442`); refused commands leave their
  arguments in the stream; `api_getblocksince` without an argument is never answered
  (`commands.py:216-223`), and an `api_` command that raises is swallowed (`node.py:994-1002`) though
  `apihandler` means to "always reply so the client is not left blocking".
* **REST caches.** Statistics and supply have no reorg check; the fork answer is keyed by height only
  (`rest_api.py:847-857`); a rollback between scan and hash stores old signals under a new hash; the
  supply gives up after five unpinned tries (`rest_api.py:205`); the rich list cut to its top drops
  addresses that later rank (`rest_stats.py:400-416`).
* **Pool.** `mark_paid` also marks shares recorded after the snapshot (`pool_store.py:80-87`); a
  failed submission still marks them (`optipoolware.py:264-276`); a crash between submission and
  `mark_paid` pays twice; a share stamped before and recorded after a run makes rewards count again
  (`optipoolware.py:472-474`); rewards that arrive between reading and touching are not distributed.
  `paydb` subtracts the node's `server_timestamp` (`optipoolware.py:317`, `:341`), which the REST
  status gives as a string (`rest_api.py:869`): the subtraction raises and ends the payout thread.
  `Pool` models the runs that do take place.

## Proofs

Eight modules hold theorems: `BlockStoreProofs`, `IngestProofs`, `ReorgProofs`,
`SyncProtocolProofs`, `PeersProofs`, `SidecarProofs`, `CommandsProofs`, `PoolProofs`. `tlapm M.tla`
checks each of them; no step is left without a proof. The theorems hold for every value of the
constants that satisfies the named assumption of the module: any peers, threads, blocks and
transactions, and every bound that the runs keep small.

**BlockStore.** From `ConstantsAssumption`, `BodyAssumption` and `CoinbaseAssumption`, for every set
of bodies, every fork height, every allocation and every bound on the height: `TypeCorrect`,
`IndexesAlwaysExact`, `BalancesAlwaysReplay`, `NoReplayEver` and `DifficultyAlwaysAtTip`, whatever
ledgers the upgrade tool is run on, with or without its options, and wherever it dies. None of the
invariants is inductive alone. `IndexesExact` speaks only about stores a node accepts; while the tool
rebuilds, one needs to know that the indexes are exact *up to the scanned height*. `NoReplay` needs
exact indexes when a block is checked, and exact txid indexes need that no txid recurs on a chain,
which for coinbases rests on timestamps that grow along the chain. The inductive invariant `IInv`
therefore has these parts: types; `Control` (who may be inside which loop, with which accumulators);
`Chain` (genesis first, timestamps grow); `HashesExact`, which holds at all times; `Legacy` (a store
of an older schema ends below the fork); `Positioned`, `TxidsCovered`, `KeysCovered` (each group of
indexes is exact up to the tip, or up to `loop.at` during a rebuild, or nothing is claimed of it while
it is in `gap` or no node accepts the store); `TxidsUnique`; `ReplayIsFold`; `Balances` (with the open
accumulator of a rollback or rebuild added in); `Difficulties`; `NoReplay`. There is one lemma per
action and conjunct group, on top of lemmas about `Plus`, `Minus` and the positions of a prefix of the
chain. Sums over the rows of a block are never unfolded: the proof needs only that `Delta(b)` is a
fixed account vector per body.

**AncestorSearch** (in `ReorgProofs`). For every tip, floor and number of linear probes:
`SearchTypeCorrect`, `AlwaysWitnessed`, `AlwaysExact`, `AlwaysProbesBounded`. The invariant adds to
the types what each end of the interval rests on (`Interval`: the height `hi` was denied, `lo`
confirmed, below the tip) and that with a peer that stood still answers are truthful (`Truthful`).
For the number of probes it keeps the potential of the bisection: the interval is no wider than two
to the power of the probes that are left. `CeilLog2` is a `CHOOSE`; that the least such exponent
exists is an argument by the least element of a set of naturals, which also stands in for induction
in the facts about powers of two.

**Ingest.** `AlwaysConsistent`, `LedgerAlwaysSound`, `PoolAlwaysAffordable`, from `BlocksAssumption`
of `ChainRules` (rivalry is symmetric, genesis has no transactions) and the constants' types. The
pool's promise is about the transactions that are young enough to count.
`LedgerSound` is not inductive: `commit` appends a block that was judged several steps earlier, while
other threads fetched, submitted and merged. `Working` says what the digest in progress may rely on
at each place: which of the tips is ahead, that the block at hand passed every check on the ledger
*as it stands now*, and that the transactions before `job.i` are affordable on it. That this survives
the steps of the other threads is what `LocksHeld` is for, so the parts are proved together.
`PoolAffordable` needs the pool's spends to be counted under `MEMPOOL.lock` only.

**Reorg.** `AlwaysConsistent`, `DeepAlwaysNeedsMajority` and `ReorgImplementsLedger`, from
`ReorgAssumption` (finitely many peers; every chain a peer serves starts at genesis). `IInv` says of
the ledger that it `Climbs` (each block valid on those before it, timestamps never back at genesis)
and of each thread, in `Place`, what it knows at each label. Before the rollback (`Measured`,
`Grabbed`): the ancestor lies below the measured tip, the tip is still on the ledger or below its
end, a cut below the checkpoint is sanctioned by a majority, a tie is with another block. Under
`db_lock` (`Saved`): the ledger agrees with the one before up to the ancestor, and the backup is the
rest of it. While a branch is tried (`Trying`), a tie still differs in the first block; while ours
comes back (`Restoring`), the ledger is a prefix of the old one and `todo` exactly the rest, so
every block put back was valid there and none can be refused. Without these, neither `Restored` nor
`LedgerSound` is inductive.

The refinement then goes step by step. At most one thread is in the section that hides the ledger
(`Adopting`), since it owns `db_lock`. Entering it, every block applied, the decision against the
branch and every block put back are stutters: the abstract ledger is `was`. Leaving it with the
branch is a `Switch`, by `Trying` and the test of the new height; leaving it after the restoration is
a stutter, because the ledger equals `was` again, or a `Lose` when a stop cut the restoration short.
The branch beats the measured height; it is an `Overtaken` instead when the ledger had grown past it.
A digest is an `Extend`, a legacy rollback a `Drop`; no other step writes the ledger.

**SyncProtocol.** `NeverLosesStep`, `SlotAlwaysReturned`, and the types of both ends in
`SyncInvariant` (a command's argument is always sent behind it, and no height or offer leads past
`MaxHeight`). `InStep` is about a flag that falls at the first frame out of turn; what makes it
inductive is `Turn`, the list of all pairs of positions with all contents of the two channels that
occur in a round without races, with what the two ends have heard of each other's height. There is
one lemma per step of either loop. `MaxHeight >= 2` leaves room for one block above genesis.
`AlwaysConsistent` is about the rest: late answers, digests by other threads, frames taken for what
they are not. Then `Turn` is lost, and what is left is `ShapeInv`: the pairs of positions with the
*kinds* of the frames under way, of which those that no loop takes at its top are told apart no
further. There are 89 such shapes and no channel holds more than three frames in any. Tables say
which frames a side may take, answer or send where it is (`Takes`, `Replies`, `Says` and their
variants); a lemma per table and side shows that shapes lead to shapes, and a lemma per action that
it moves by its table.

**Peers.** `PeersConsistent`, for any hosts, prefixes and limits and finitely many worker threads.
`PoolExact` and `SyncingExact` compare lists and sets with numbers of threads, so the invariant says
which thread each entry belongs to: `OneWorker` (at most one thread on a host unless it had twins),
`PoolPaired` (list and companion set have a host at most once, and exactly while a worker is past the
join) and `SyncBound` (after a stop, places may be given back that were never taken). The lemmas
count: how adding and removing one occurrence changes `Entries`.

**ForkSchedule** (in `SidecarProofs`). `ScanExpected` first: `dynamic_fork_height`, whose count of
signals in a row is a recursive function over the chain, returns what the definition by the first
full window says. The function is unfolded by giving it explicitly (the distance to the last block
that does not signal) and showing that it solves the recursion. With it `AlwaysTipIndependent` (the
first full window of a chain is that of every longer one) and `AlwaysJudgedRight`. The invariant
`ForkInv` says, unless a reorganisation removed the lock-in or a look failed, what cache, sidecar
and chain know of each other at each of the three moments of `process_block_data` (`Known`): a
height that is cached or saved is the one the scan of the present chain gives, a block is judged
without one only when the scan gives none, and a node that has caught up without one has a chain
whose scan gave none up to its last block.

**DiffHeal** (in `SidecarProofs`). `HealsAlwaysBounded`, `AlwaysAppliedOnce`, `AlwaysMajorityAgainst`,
for every threshold, budget, depth and number of crashes, with the checkpoint below the highest tip.
The accounts are spread over two files and a process that may die between any two of them. `HealInv`
says where a trigger can be (`TriggerPlace`), that the sidecar's count is behind the heals by no more
than the crashes and the budgets that disagreeing peers gave back (`Budget`), and that a heal which
was armed and not applied is on its way in the file or in the starting process, or lost with a crash
(`Accounted`).

**TokenIndex** (in `SidecarProofs`). `AlwaysIndexConsistent`, for any transactions, names, addresses
and blocks, from `TokenAssumption` (a downloaded ledger fits under the bound on blocks). What makes it
inductive is that the journal determines everything: `IndexInv` says that a sequence number, a txid
and the issuance of a name occur once in it (`Keys`), that seen, credits, debits and registry are
images of it (`Images`) and that each count is the cardinality of a set of its rows (`Counts`). An
undo then takes away exactly what the rows it undoes had added, since no other row has their keys.
The recursions of the model (a filtered work list, the flattened scan, the fold over the alias
journal) are shown to have a solution by induction over a bounded set of naturals (`UpTo`).

`AlwaysNeverOverspent` needs finitely many addresses and nothing of the supplies: a party is `Endowed`
unless it was issued a negative supply. A balance is what a party holds below the height `Clean`, so
`SpendInv` says that below *every* height up to `dirty` nobody owes that is endowed (`Solvent`): a
rollback cuts the journal at such a height. The check of a transfer at height h counts what was
received below h and sent up to h; it bounds what is held at greater heights only if nothing was sent
above h by rows that count, and the rest of `SpendInv` is there to show that: rows below `dirty` do
not lie above the ledger (`Heights`), a block in progress is at the tip and a rescan meets only blocks
of the ledger (`WorkLeft`), and a transfer of the ledger below `dirty` is processed already, or this
is the first scan, which takes the transfers in order (`NoneMissed`). The sums are functions on the
subsets of a finite set, solved by induction over it (`Total`); `Conservation` says that over all
parties they add up to zero, so that the holders together have what the issuing pseudo-address owes,
the registered supply.

**Commands.** `AlwaysReplyMatches`, `AlwaysOnlyPermittedChange`. `Merge` unites the tables of
argument counts of the server and of the client; lemmas go through them entry by entry and show that
no tool sends a command of the node more arguments than the node reads after its name (`AskedFits`).
The invariant is then about one command at a time: the arguments the server has read, those under
way and those the client has yet to send, in this order, are the arguments given (`InTurn`), unless
the client is not permitted, was late, gave no number where one is needed, or asks for what is no
command of the node. Only in those cases can an argument be taken for a command; `Granted` says that
what the server then runs is a command of its table that it did not refuse to this host, or a word of
the peers or of a plugin. `WordsAssumption` says that plugins and unknown names are not commands of
the node, which are tried first.

**Pool.** `AlwaysCountedOnce`, `AlwaysPaidOnce`, `AlwaysRewardedOnce`. `CountedOnce` rests on
`Guarded`: the guard has every nonce of the open round, whatever threads are between `nonce_seen` and
`record_share`. `PaidOnce` needs `Owing` (an unpaid share was paid for only by runs that crashed,
unless it is about to be marked) and `Listed` (what the run read is still there, and its remaining
payees are distinct and unmarked). `RewardOnce` needs `Distributed`: a reward that has used up its
allowance is older than every share, the last reset and the time the present run starts from, which
is why a share recorded late is the one thing besides a crash that costs a second distribution.

**Only model-checked.** All liveness properties (`ThreadsReturn`, `Recovers`, `CatchesUp`, `Redials`,
`Ends`, `ComesBack`, `CatchesUpStats`): liveness under fairness is out of the prover's reach.
`QueriesExact`, whose queries are defined by recursion over sequences, `TokensExact`, `AliasesExact`
and `CachesExact`, which compare an index or a cache with a fold over the whole chain: induction
over data is out of the prover's reach, except where a recursion can be solved explicitly or an
argument by a least counterexample replaces it, as above. Two of them also have
conditions that the instances meet and a theorem would have to state: `TokensExact` supposes that no
transaction is twice on a ledger (the reference replay does not look for repeats), and `SignalsExact`,
in `CachesExact`, that the rollbacks between two requests are together no deeper than
`FORK_REORG_BACKOFF`, which is what the comment at `src/rest_api.py:285` relies on.

## Not modelled

Bitcoin- and Ethereum-style RPC (other shapes of the same queries) and the routing, JSON and charts
of REST; wallets, signatures and `polysign`; miners; codecs; the LMDB seam `kvstore.py` (its
transactions are assumed atomic and durable); transport and Tor; snapshot download; the weighted
consensus of peers (arithmetic, whose verdicts are left open); difficulty and fee arithmetic;
historical validation exceptions (tables). Within the modelled parts: fees as numbers, mempool space
tiers and frozen peers, a wrong `--fork-height` of the upgrade tool (none is modelled), the
`filter_rollback_ip` hook, hyperblock peers (`blocknfhb`), the reward check at the old fork.

## Plan

1. Theorems: `TokensExact`; `CachesExact`.
2. Difficulty and fee operators against reference definitions; mempool space tiers and freezing.
