---------------------------- MODULE BlockQueries ----------------------------
(***************************************************************************)
(* What is read from the ledger: the queries of block_store.py, and those  *)
(* of dbhandler.py and rest_api.py that are made of them.  The indexes     *)
(* hold positions <<height, row>>; a query walks one in key order and      *)
(* fetches the rows.  A row found is shown by its position.                *)
(*                                                                         *)
(* A limit of 0 stands for none, a height of 0 for no answer.              *)
(***************************************************************************)
EXTENDS BlockStore, SequencesExt

CONSTANTS
    Span,       \* the cap on a range of blocks (1000 of them, 5000 headers)
    Maturity    \* COINBASE_MATURITY

ASSUME QueriesAssumption == Span \in Nat /\ Maturity \in Nat

RowAt(p) == blocks[p[1]].rows[p[2]]
Before(p, q) == p[1] < q[1] \/ (p[1] = q[1] /\ p[2] < q[2])
Walk(S, reverse) ==
    [k \in 1..Cardinality(S) |->
        CHOOSE p \in S : Cardinality({q \in S : IF reverse THEN Before(p, q) ELSE Before(q, p)}) = k - 1]
First(q) == IF q = <<>> THEN <<>> ELSE <<q[1]>>
Limited(q, limit) == IF limit = 0 \/ limit > Len(q) THEN q ELSE SubSeq(q, 1, limit)

-----------------------------------------------------------------------------
(* Blocks and difficulties. *)
Positions(h) == IF h \in 1..Tip THEN [i \in DOMAIN blocks[h].rows |-> <<h, i>>] ELSE <<>>
get_block(h) == Positions(h)
blocks_in_range(lo, hi) ==
    FlattenSeq([k \in 1..(IF hi < lo THEN 0 ELSE hi - lo + 1) |-> Positions(lo + k - 1)])
blocks_desc == FlattenSeq([k \in 1..Tip |-> Positions(Tip - k + 1)])
block_hash(h) == {x \in Hash : h \in 1..Tip /\ blocks[h].hash = x}
height_by_hash(x) == hashes[x]

(* The counters kept or computed besides the rows. *)
first == IF Tip = 0 THEN 0 ELSE 1
count == Tip
tx_count == txcount

(* The fork-signal scan reads the last row of a block, the coinbase. *)
last_openfield(h) == First(Reverse(get_block(h)))

coinbase(h) == First(SelectSeq(Reverse(get_block(h)), LAMBDA p : IsCoinbase(RowAt(p))))

(* The rows of each block from `window` blocks below; genesis has none. *)
recent_block_weights(tip, window) ==
    LET lo == IF tip - window + 1 > 2 THEN tip - window + 1 ELSE 2
    IN  [k \in 1..(IF tip < lo THEN 0 ELSE tip - lo + 1) |-> Len(blocks[lo + k - 1].rows)]

last_difficulty == IF diff = {} THEN 0 ELSE Max(diff)
difficulty_range(start, end) == {h \in diff : start <= h /\ h < end}

-----------------------------------------------------------------------------
(* The signature index. *)
signature_rows(s, max, limit) ==
    LET found == {<<e[3], e[4]>> : e \in {x \in pos : x[1] = "sig" /\ x[2] = s /\ x[3] <= max}}
    IN  Limited(Walk(found, FALSE), limit)
signature_exists(s, max) == signature_rows(s, max, 1) # <<>>
rows_by_sig_prefix(s, limit) == signature_rows(s, Tip, limit)   \* one signature per prefix

-----------------------------------------------------------------------------
(* The address index: one ordered stream per role. *)
addr_iter(role, a, reverse, lo, hi) ==
    Walk({<<e[3], e[4]>> : e \in {x \in pos : x[1] = role /\ x[2] = a /\ lo <= x[3] /\ x[3] <= hi}}, reverse)

(* The merge of both: the smaller head is taken, the recipient's on a tie, *)
(* and a position just given is not given again.                           *)
TakesFirst(p, q, reverse) == IF reverse THEN Before(q, p) ELSE Before(p, q)

MergeStepTwice(m, pos0) == [m EXCEPT !.out = Append(@, pos0)]   \* with the slip: nothing is left out
MergeStep(m, pos0) == IF m.out # <<>> /\ Last(m.out) = pos0 THEN m ELSE [m EXCEPT !.out = Append(@, pos0)]

Merge(s, r, reverse) ==
    LET upto[n \in 0..(Len(s) + Len(r))] ==
          IF n = 0 THEN [i |-> 1, j |-> 1, out |-> <<>>]
          ELSE LET m == upto[n - 1]
                   sender == IF m.j > Len(r) THEN TRUE
                             ELSE IF m.i > Len(s) THEN FALSE ELSE TakesFirst(s[m.i], r[m.j], reverse)
               IN  IF sender THEN [MergeStep(m, s[m.i]) EXCEPT !.i = m.i + 1]
                             ELSE [MergeStep(m, r[m.j]) EXCEPT !.j = m.j + 1]
    IN  upto[Len(s) + Len(r)].out

address_positions(a, role, reverse, lo, hi) ==
    IF role = "any"
      THEN Merge(addr_iter("from", a, reverse, lo, hi), addr_iter("to", a, reverse, lo, hi), reverse)
      ELSE addr_iter(role, a, reverse, lo, hi)

(* A walk down the chain meets the rows of a block last one first: they    *)
(* are put back in order before anything is skipped or cut off.            *)
Group(q, h) == SelectSeq(q, LAMBDA p : p[1] = h)
Emitted(q, reverse) ==
    FlattenSeq([k \in 1..Tip |-> LET h == IF reverse THEN Tip - k + 1 ELSE k
                                 IN  IF reverse THEN Reverse(Group(q, h)) ELSE Group(q, h)])

address_rows(a, role, reverse, limit, lo, hi, skip) ==
    LET q == Emitted(address_positions(a, role, reverse, lo, hi), reverse)
    IN  Limited(SubSeq(q, skip + 1, Len(q)), limit)

address_tx_count(a, role) == Len(address_positions(a, role, FALSE, 1, Tip))

first_pubkey(a) ==
    First(SelectSeq(addr_iter("from", a, FALSE, 1, Tip), LAMBDA p : ~IsCoinbase(RowAt(p))))

reward_units_since(a, above) ==
    LET q == addr_iter("to", a, TRUE, above + 1, Tip)
    IN  MapThenSumSet(LAMBDA k : RowAt(q[k]).reward, DOMAIN q)

(* What a block at this height may not spend yet (essentials.py). *)
immature_coinbase(a, height) == reward_units_since(a, height - Maturity)

balance_parts(a) == bal[a]
balance_units(a) == LET v == balance_parts(a) IN v["credit"] + v["reward"] - v["debit"] - v["fee"]

txid_height(t) == txid[t]
pkref_first_seen(a) == pkref[a]
pkref_count == Cardinality({a \in Address : pkref[a] # 0})
txid_count == Cardinality({t \in Txid : txid[t] # 0})

(* The views the node hands out as txid_index and pk_registry. *)
contains(t, max) == txid_height(t) # 0 /\ (max = 0 \/ txid_height(t) <= max)
registry_first_seen(a) == pkref_first_seen(a)

-----------------------------------------------------------------------------
(* dbhandler.py *)
last_block_hash == block_hash(Tip)
last_mining_tx == coinbase(Tip)
block_height_max_diff == last_difficulty
latest_rows(limit) == Limited(blocks_desc, limit)
balance_get(a) == balance_units(a)
pubkeyget(a) == first_pubkey(a)

-----------------------------------------------------------------------------
(* rest_api.py: what the explorer and syncing peers are shown. *)
Capped(start, end) == IF end < start + Span THEN end ELSE start + Span
block_by_height(h) == get_block(h)
block_by_hash(x) == get_block(height_by_hash(x))
range_rows(start, end) == blocks_in_range(start, end)
grouped_sync_blocks(q) == [h \in {q[k][1] : k \in DOMAIN q} |-> Group(q, h)]
blocks_range(start, end) == range_rows(start, Capped(start, end))
blocks_since(since, limit) == range_rows(since + 1, since + limit)
headers_range(start, end) ==
    LET heights == {h \in start..Capped(start, end) : h \in 1..Tip}
    IN  {<<h, blocks[h].hash, Len(blocks[h].rows)>> : h \in heights}
address_txs(a, limit) == address_rows(a, "any", TRUE, limit, 1, Tip, 0)
pubkey(a) == [registered |-> registry_first_seen(a) # 0, first |-> registry_first_seen(a)]

(* By content id: the block is looked up, then searched.  By signature:    *)
(* the first row of the index.                                             *)
transaction(t) == First(SelectSeq(get_block(txid_height(t)), LAMBDA p : RowAt(p).txid = t))
transaction_by_sig(s) == First(rows_by_sig_prefix(s, 1))

-----------------------------------------------------------------------------
AllRows == UNION {{<<h, i>> : i \in DOMAIN blocks[h].rows} : h \in 1..Tip}
Touches(a, role, p) ==
    \/ role \in {"any", "from"} /\ RowAt(p).from = a
    \/ role \in {"any", "to"} /\ RowAt(p).to = a
History(a, role, lo, hi) == {p \in AllRows : Touches(a, role, p) /\ lo <= p[1] /\ p[1] <= hi}

(* q lists S once each, by height as asked and within a block in its order. *)
Lists(q, S, reverse) ==
    /\ ToSet(q) = S /\ Len(q) = Cardinality(S)
    /\ \A j, k \in DOMAIN q :
          j < k => \/ IF reverse THEN q[j][1] > q[k][1] ELSE q[j][1] < q[k][1]
                   \/ q[j][1] = q[k][1] /\ q[j][2] < q[k][2]

Role == {"any", "from", "to"}

(* The history of an address is complete, has every row once (one sent to  *)
(* oneself stands in both streams) and in order, from either end and       *)
(* between any heights; skipping and limiting give its pages, none of      *)
(* which repeats or loses a row where a block is cut, and the count        *)
(* agrees.                                                                 *)
HistoryExact ==
    \A a \in Address, role \in Role, reverse \in BOOLEAN :
        LET whole == address_rows(a, role, reverse, 0, 1, Tip, 0) IN
        /\ Lists(whole, History(a, role, 1, Tip), reverse)
        /\ address_tx_count(a, role) = Len(whole)
        /\ \A skip \in 0..1, limit \in 1..2 :
              address_rows(a, role, reverse, limit, 1, Tip, skip) = SubSeq(whole, skip + 1,
                  IF skip + limit < Len(whole) THEN skip + limit ELSE Len(whole))
        /\ Lists(address_rows(a, role, reverse, 0, 2, Tip - 1, 0), History(a, role, 2, Tip - 1), reverse)

(* Every lookup finds what the blocks say: a transaction by content id or  *)
(* by signature, a block by its hash, the key an address first sent with,  *)
(* the rewards that are still immature, balances, weights and the tip.      *)
LookupsExact ==
    /\ \A t \in Txid : LET S == {p \in AllRows : PostFork(p[1], ForkHeight) /\ RowAt(p).txid = t}
                       IN  IF S = {} THEN transaction(t) = <<>> ELSE transaction(t) = <<Walk(S, FALSE)[1]>>
    /\ \A t \in Txid, max \in 0..Tip :
          contains(t, max) <=> \E p \in AllRows : PostFork(p[1], ForkHeight) /\ RowAt(p).txid = t /\ (max = 0 \/ p[1] <= max)
    /\ txid_count = Cardinality({RowAt(p).txid : p \in {q \in AllRows : PostFork(q[1], ForkHeight)}})
    /\ \A s \in Sig : LET S == {p \in AllRows : RowAt(p).sig = s}
                      IN  /\ transaction_by_sig(s) = First(Walk(S, FALSE))
                          /\ \A max \in 0..Tip : signature_exists(s, max) <=> \E p \in S : p[1] <= max
    /\ \A x \in Hash : block_by_hash(x) # <<>> => block_hash(block_by_hash(x)[1][1]) = {x}
    /\ \A h \in 1..Tip : Len(block_by_height(h)) > 0 /\ \A x \in block_hash(h) : height_by_hash(x) = h
    /\ \A a \in Address : LET S == {p \in History(a, "from", 1, Tip) : ~IsCoinbase(RowAt(p))}
                          IN  pubkeyget(a) = First(Walk(S, FALSE))
    /\ \A a \in Address :
          LET young == {p \in History(a, "to", 1, Tip) : Tip + 1 - p[1] < Maturity}
          IN  immature_coinbase(a, Tip + 1) = MapThenSumSet(LAMBDA p : RowAt(p).reward, young)
    /\ \A a \in Address :
          balance_get(a) = alloc[a] + MapThenSumSet(LAMBDA p : RowAt(p).amount + RowAt(p).reward, History(a, "to", 1, Tip))
                             - MapThenSumSet(LAMBDA p : RowAt(p).amount + RowAt(p).fee, History(a, "from", 1, Tip))
    /\ \A a \in Address : pubkey(a).registered <=>
          \E p \in History(a, "from", ForkHeight, Tip) : ~IsCoinbase(RowAt(p)) /\ RowAt(p).pub
    /\ pkref_count = Cardinality({a \in Address : pubkey(a).registered})
    /\ tx_count = Cardinality(AllRows) /\ count = Tip - first + 1
    /\ \A h \in 2..Tip : last_openfield(h) = coinbase(h)
    /\ \A window \in 1..Tip :
          LET w == recent_block_weights(Tip, window)
          IN  MapThenSumSet(LAMBDA k : w[k], DOMAIN w)
                = Cardinality({p \in AllRows : p[1] > Tip - window /\ p[1] > 1})
    /\ last_block_hash # {} /\ block_height_max_diff \in {0, Tip}
    /\ Tip > 1 => last_mining_tx = <<<<Tip, Len(blocks[Tip].rows)>>>>

(* A client that follows the ledger by ranges or by the newest rows gets   *)
(* every block once and whole, and the headers of the same blocks.         *)
RangesExact ==
    /\ \A start, end \in 1..(Tip + 1) : start <= end =>
          /\ Lists(blocks_range(start, end), {p \in AllRows : start <= p[1] /\ p[1] <= end /\ p[1] <= start + Span}, FALSE)
          /\ LET g == grouped_sync_blocks(blocks_range(start, end)) IN \A h \in DOMAIN g : g[h] = Positions(h)
          /\ {<<p[1], blocks[p[1]].hash, Len(blocks[p[1]].rows)>> : p \in ToSet(blocks_range(start, end))}
                = headers_range(start, end)
    /\ \A since \in 0..Tip, limit \in 1..2 :
          Lists(blocks_since(since, limit), {p \in AllRows : since < p[1] /\ p[1] <= since + limit}, FALSE)
    /\ Lists(latest_rows(0), AllRows, TRUE)
    /\ \A start, end \in 1..(Tip + 1) : start \in diff => difficulty_range(start, end) = start..(end - 1) \cap 1..Tip

(* Whenever the node runs on the ledger, after rollbacks, crashes, an      *)
(* upgrade and a repeated one too, what its queries return is what the     *)
(* committed blocks hold, unless the tool has left some records incomplete *)
(* or the node digested blocks while txids were.                           *)
QueriesExact ==
    run = "node" /\ loop.op = "none" /\ gap = {} /\ "fork" \notin blind
        => HistoryExact /\ LookupsExact /\ RangesExact
=============================================================================
