----------------------------- MODULE TokenIndex -----------------------------
(***************************************************************************)
(* The token and alias index (token_index.py, plugins/tokens_aliases): a   *)
(* store of its own that projects the ledger.  Every write is one atomic   *)
(* transaction for one operation.  A block is projected while it is being  *)
(* digested, before its commit; a rollback drops the ledger's blocks in    *)
(* one transaction and then the tokens and the aliases in one each; at a   *)
(* start the plugin rescans the ledger from its anchors.  The process may  *)
(* die between any two of these transactions.                              *)
(***************************************************************************)
EXTENDS Integers, Sequences, FiniteSets, FiniteSetsExt, SequencesExt, Folds

CONSTANTS
    Tx,            \* transactions, named by the 56 characters of their txid
    Op,            \* Tx -> its operation: kind, name, sender, recipient, amount
    Bodies,        \* what blocks may contain: sequences of transactions
    Downloaded,    \* ledgers the node may have when the index is first built
    Name,          \* token names and aliases
    Lower,         \* Name -> Name, str.lower
    Addr,          \* addresses
    Issued,        \* the pseudo-address that issuances debit
    MaxBlocks,     \* bound: blocks on the ledger
    MaxEvents      \* bound: rollbacks, refused blocks and ends of the process

Kinds == {"token:issue", "token:transfer", "alias=", "alias:register", "alias:transfer",
          "alias:free"}
AliasOps == {"alias:register", "alias:transfer", "alias:free"}

ASSUME TokenAssumption ==
    /\ Op \in [Tx -> [kind : Kinds, name : Name, from : Addr, to : Addr, amount : Int]]
    /\ Bodies \subseteq Seq(Tx)
    /\ Downloaded \subseteq Seq(Bodies) /\ \A d \in Downloaded : Len(d) <= MaxBlocks
    /\ Lower \in [Name -> Name]
    /\ Issued \notin Addr
    /\ {MaxBlocks, MaxEvents} \subseteq Nat

VARIABLES
    phase,     \* what the node is doing with the index
    ledger,    \* the committed blocks' bodies
    block,     \* the body of the block being digested
    low,       \* the lowest height the operation in progress changes
    work,      \* operations still to project: records of a height and a transaction
    ti,        \* the tokens' sub-databases
    al,        \* the aliases' sub-databases
    events,    \* rollbacks, refusals and ends of the process so far
    dirty,     \* history: below this height no token operation was missed and none is stale
    pristine   \* history: no restart, no refused block

indexVars == <<phase, ledger, block, low, work, ti, al, events, dirty, pristine>>

Party == Addr \cup {Issued}
Clean == MaxBlocks + 2
NoOwner == [a |-> Issued, h |-> 0]     \* no entry in alias_fwd

EmptyTokens ==
    [anchor |-> 0, seq |-> 0, tokreg |-> {}, seen |-> {}, cred |-> {}, deb |-> {},
     addrtok |-> [k \in Party \X Name |-> 0], tokset |-> [t \in Name |-> 0], journal |-> {}]
EmptyAliases == [anchor |-> 0, seq |-> 0, fwd |-> [n \in Name |-> NoOwner], rev |-> {}, ajournal |-> {}]

-----------------------------------------------------------------------------
(* Token operations, each a write transaction on the store ti.             *)

Bump(anchor, h) == IF h > anchor THEN h ELSE anchor        \* _bump_anchor

(* _incr_addrtok and _incr_count: an entry that reaches zero is deleted. *)
Incr(counts, key) == [counts EXCEPT ![key] = @ + 1]
Less(n, d) == IF n > d THEN n - d ELSE 0

Sum(rows) == MapThenSumSet(LAMBDA r : r.amt, rows)

(* token_credit and token_debit, the sums behind the overspend check: what *)
(* was received strictly below height h, and sent up to and including h.   *)
token_credit(s, t, a, h) == Sum({r \in s.cred : r.tok = t /\ r.party = a /\ r.h < h})
DebitBelow(s, t, a, h) == Sum({r \in s.deb : r.tok = t /\ r.party = a /\ r.h < h})
token_debit(s, t, a, h) == Sum({r \in s.deb : r.tok = t /\ r.party = a /\ r.h <= h})

(* What an issuance and a valid transfer have in common. *)
Record(s, kind, h, x, t, from, to, amt) ==
    LET q == s.seq + 1
        Row(p) == [tok |-> t, party |-> p, h |-> h, q |-> q, amt |-> amt]
    IN [s EXCEPT !.seq = q, !.seen = @ \cup {x},
                 !.cred = @ \cup {Row(to)}, !.deb = @ \cup {Row(from)},
                 !.addrtok = Incr(Incr(@, <<to, t>>), <<from, t>>),
                 !.tokset = Incr(@, t),
                 !.journal = @ \cup {[k |-> kind, h |-> h, q |-> q, tok |-> t, rcp |-> to,
                                      adr |-> from, amt |-> amt, txid |-> x]},
                 !.anchor = Bump(@, h)]

RegisterAgain(s, h, x) ==
    LET t == Lower[Op[x].name] IN
    IF x \in s.seen THEN s
    ELSE [Record(s, "issue", h, x, t, Issued, Op[x].to, Op[x].amount)
             EXCEPT !.tokreg = @ \cup {[tok |-> t, h |-> h, txid |-> x, supply |-> Op[x].amount]}]

(* _issue and register_issue: the first issuance of a name wins. *)
register_issue(s, h, x) ==
    LET t == Lower[Op[x].name] IN
    IF (\E r \in s.tokreg : r.tok = t) \/ x \in s.seen THEN s
    ELSE [Record(s, "issue", h, x, t, Issued, Op[x].to, Op[x].amount)
             EXCEPT !.tokreg = @ \cup {[tok |-> t, h |-> h, txid |-> x, supply |-> Op[x].amount]}]

MarkSeenOnly(s, h, x) == [s EXCEPT !.seen = @ \cup {x}, !.anchor = Bump(@, h)]

(* An invalid transfer: never processed again, unless its block goes. *)
mark_noop(s, h, x) ==
    [s EXCEPT !.seq = @ + 1, !.seen = @ \cup {x}, !.anchor = Bump(@, h),
              !.journal = @ \cup {[k |-> "noop", h |-> h, q |-> s.seq + 1, tok |-> Op[x].name,
                                   rcp |-> Issued, adr |-> Issued, amt |-> 0, txid |-> x]}]

apply_transfer(s, h, x) ==
    Record(s, "transfer", h, x, Op[x].name, Op[x].from, Op[x].to, Op[x].amount)

(* _transfer: dedup by txid, then the overspend check. *)
Transfer(s, h, x) ==
    LET t == Op[x].name  a == Op[x].from IN
    IF x \in s.seen THEN s
    ELSE IF /\ Op[x].amount > 0
            /\ token_credit(s, t, a, h) - token_debit(s, t, a, h) >= Op[x].amount
         THEN apply_transfer(s, h, x)
         ELSE mark_noop(s, h, x)

(* tokens_rollback: every journalled operation at or above height is undone. *)
UndoneAbove(s, height) == {r \in s.journal : r.h > height}
Undone(s, height) == {r \in s.journal : r.h >= height}

tokens_rollback(s, height) ==
    LET J == Undone(s, height)
        R == {r \in J : r.k # "noop"}
        Keyed(rows, End(_)) == {c \in rows : \E r \in R :
                                  c.tok = r.tok /\ c.party = End(r) /\ c.h = r.h /\ c.q = r.q}
        Times(p, t) == Cardinality({r \in R : r.tok = t /\ r.rcp = p})
                       + Cardinality({r \in R : r.tok = t /\ r.adr = p})
    IN [s EXCEPT !.cred = @ \ Keyed(@, LAMBDA r : r.rcp),
                 !.deb = @ \ Keyed(@, LAMBDA r : r.adr),
                 !.addrtok = [k \in Party \X Name |-> Less(@[k], Times(k[1], k[2]))],
                 !.tokset = [t \in Name |-> Less(@[t], Cardinality({r \in R : r.tok = t}))],
                 !.tokreg = {g \in @ : ~\E r \in J : r.k = "issue" /\ r.tok = g.tok},
                 !.seen = @ \ {r.txid : r \in J},
                 !.journal = @ \ J,
                 !.anchor = IF height - 1 > 0 THEN height - 1 ELSE 0]

-----------------------------------------------------------------------------
(* Alias operations, each a write transaction on the store al.             *)

Journal(s, h, k, n, a) ==
    [s EXCEPT !.seq = @ + 1, !.anchor = Bump(@, h),
              !.ajournal = @ \cup {[h |-> h, q |-> s.seq + 1, k |-> k, al |-> n, a |-> a,
                                    prev |-> s.fwd[n]]}]

Rejected(s, h) == [s EXCEPT !.anchor = Bump(@, h)]
Owns(s, n, a) == s.fwd[n] # NoOwner /\ s.fwd[n].a = a

register_alias(s, h, a, n) ==
    IF s.fwd[n] # NoOwner THEN Rejected(s, h)
    ELSE [Journal(s, h, "register", n, a)
             EXCEPT !.fwd[n] = [a |-> a, h |-> h], !.rev = @ \cup {<<a, h, n>>}]

transfer_alias(s, h, from, to, n) ==
    IF ~Owns(s, n, from) THEN Rejected(s, h)
    ELSE [Journal(s, h, "transfer", n, to)
             EXCEPT !.fwd[n] = [a |-> to, h |-> h],
                    !.rev = (@ \ {<<from, s.fwd[n].h, n>>}) \cup {<<to, h, n>>}]

free_alias(s, h, from, n) ==
    IF ~Owns(s, n, from) THEN Rejected(s, h)
    ELSE [Journal(s, h, "free", n, from)
             EXCEPT !.fwd[n] = NoOwner, !.rev = @ \ {<<from, s.fwd[n].h, n>>}]

(* aliases_rollback undoes one journal entry. *)
UndoAlias(s, e) ==
    IF e.k = "register"
    THEN [s EXCEPT !.fwd[e.al] = IF @ # NoOwner /\ @.h = e.h THEN NoOwner ELSE @,
                   !.rev = @ \ {<<e.a, e.h, e.al>>}]
    ELSE [s EXCEPT !.fwd[e.al] = e.prev,
                   !.rev = (@ \ {<<e.a, e.h, e.al>> : k \in {e.k} \ {"free"}})
                           \cup {<<e.prev.a, e.prev.h, e.al>>}]

(* The journal is keyed by height and sequence number.  The entry chosen   *)
(* first is undone last.                                                   *)
Newest(J) == CHOOSE e \in J : \A d \in J : d.h < e.h \/ (d.h = e.h /\ d.q <= e.q)
Oldest(J) == CHOOSE e \in J : \A d \in J : d.h > e.h \/ (d.h = e.h /\ d.q >= e.q)
UndoneLast(J) == Oldest(J)

aliases_rollback(s, height) ==
    LET J == {e \in s.ajournal : e.h >= height} IN
    [MapThenFoldSet(LAMBDA e, t : UndoAlias(t, e), s, LAMBDA e : e, UndoneLast, J)
        EXCEPT !.ajournal = @ \ J, !.anchor = IF height - 1 > 0 THEN height - 1 ELSE 0]

-----------------------------------------------------------------------------
(* The plugin: which operations are applied, and in which order.           *)

ApplyToken(s, e) ==
    CASE Op[e.x].kind = "token:issue" -> register_issue(s, e.h, e.x)
      [] Op[e.x].kind = "token:transfer" -> Transfer(s, e.h, e.x)
      [] OTHER -> s

(* _alias_transfer does not record a self-transfer. *)
AliasTransfer(s, h, o) ==
    IF o.from = o.to THEN s ELSE transfer_alias(s, h, o.from, o.to, o.name)

ApplyAlias(s, e) ==
    LET o == Op[e.x] IN
    CASE o.kind \in {"alias=", "alias:register"} -> register_alias(s, e.h, o.from, o.name)
      [] o.kind = "alias:transfer" -> AliasTransfer(s, e.h, o)
      [] o.kind = "alias:free" -> free_alias(s, e.h, o.from, o.name)
      [] OTHER -> s

At(h, body) == [i \in DOMAIN body |-> [h |-> h, x |-> body[i]]]

(* The entries of ops that are in keep, in their order. *)
Restricted(ops, keep) ==
    LET pick[i \in 0..Len(ops)] ==
          IF i = 0 THEN <<>>
          ELSE IF ops[i] \in keep THEN Append(pick[i - 1], ops[i]) ELSE pick[i - 1]
    IN  pick[Len(ops)]

OfKind(ops, ks) == Restricted(ops, {ops[i] : i \in {j \in DOMAIN ops : Op[ops[j].x].kind \in ks}})

(* on_block: issuances first, then everything else in block order. *)
on_block(h, body) ==
    OfKind(At(h, body), {"token:issue"}) \o OfKind(At(h, body), Kinds \ {"token:issue"})

(* backfill: one scan of the ledger from the lower anchor, inclusive; then *)
(* all issuances, all transfers, legacy claims, structured alias ops.      *)
scan_ledger_operations(from) ==
    FlattenSeq([h \in DOMAIN ledger |-> IF h >= from THEN At(h, ledger[h]) ELSE <<>>])

backfill ==
    LET tokens == scan_ledger_operations(ti.anchor)
        aliases == scan_ledger_operations(al.anchor)
    IN OfKind(tokens, {"token:issue"}) \o OfKind(tokens, {"token:transfer"})
       \o OfKind(aliases, {"alias="}) \o OfKind(aliases, AliasOps)

-----------------------------------------------------------------------------
OnLedger(x) == \E h \in DOMAIN ledger : \E i \in DOMAIN ledger[h] : ledger[h][i] = x

(* digest.py hands a block to the plugins before its last check. *)
dispatch_block(body) ==
    /\ phase = "ready" /\ Len(ledger) < MaxBlocks
    /\ \A i \in DOMAIN body : ~OnLedger(body[i])        \* check_duplicate_signatures
    /\ phase' = "project" /\ block' = body /\ low' = Len(ledger) + 1
    /\ work' = on_block(Len(ledger) + 1, body)
    /\ UNCHANGED <<ledger, ti, al, events, dirty, pristine>>

(* One operation, in its own write transaction. *)
Project ==
    /\ phase \in {"project", "backfill"} /\ work # <<>>
    /\ ti' = ApplyToken(ti, Head(work))
    /\ al' = ApplyAlias(al, Head(work))
    /\ work' = Tail(work)
    /\ UNCHANGED <<phase, ledger, block, low, events, dirty, pristine>>

Ready == phase' = "ready" /\ block' = <<>> /\ low' = 0 /\ work' = <<>>

commit_block ==
    /\ phase = "project" /\ work = <<>>
    /\ ledger' = Append(ledger, block)
    /\ Ready
    /\ UNCHANGED <<ti, al, events, dirty, pristine>>

Event == events < MaxEvents /\ events' = events + 1
Stale(height) == dirty' = Min({dirty, height}) /\ pristine' = FALSE

(* The gate on sender types raises after the plugins have run, and nothing *)
(* tells them.                                                             *)
Refuse ==
    /\ phase = "project" /\ work = <<>>
    /\ Event
    /\ Stale(low)
    /\ Ready
    /\ UNCHANGED <<ledger, ti, al>>

(* rollback: the ledger, then the tokens, then the aliases. *)
rollback_under(height) ==
    /\ phase = "ready" /\ Event
    /\ ledger' = SubSeq(ledger, 1, height - 1)
    /\ phase' = "tokens" /\ low' = height
    /\ UNCHANGED <<block, work, ti, al, dirty, pristine>>

RollbackTokens ==
    /\ phase = "tokens"
    /\ ti' = tokens_rollback(ti, low)
    /\ dirty' = IF low <= dirty THEN Clean ELSE dirty
    /\ phase' = "aliases"
    /\ UNCHANGED <<ledger, block, low, work, al, events, pristine>>

RollbackAliases ==
    /\ phase = "aliases"
    /\ al' = aliases_rollback(al, low)
    /\ Ready
    /\ UNCHANGED <<ledger, ti, events, dirty, pristine>>

(* The process ends, by a stop or in the middle of anything. *)
Die ==
    /\ phase # "down" /\ Event
    /\ IF phase = "tokens" \/ phase = "project" \/ (phase = "backfill" /\ work # <<>>)
       THEN Stale(low) ELSE UNCHANGED dirty /\ pristine' = FALSE
    /\ phase' = "down" /\ block' = <<>> /\ low' = 0 /\ work' = <<>>
    /\ UNCHANGED <<ledger, ti, al>>

(* PluginManager.start: setup, then backfill. *)
start ==
    /\ phase = "down"
    /\ phase' = "backfill" /\ low' = ti.anchor /\ work' = backfill
    /\ UNCHANGED <<ledger, block, ti, al, events, dirty, pristine>>

BackfillDone ==
    /\ phase = "backfill" /\ work = <<>>
    /\ Ready
    /\ UNCHANGED <<ledger, ti, al, events, dirty, pristine>>

IndexInit ==
    /\ phase = "down" /\ ledger \in Downloaded /\ block = <<>> /\ low = 0 /\ work = <<>>
    /\ ti = EmptyTokens /\ al = EmptyAliases
    /\ events = 0 /\ dirty = Clean /\ pristine = (ledger = <<>>)

IndexNext ==
    \/ \E body \in Bodies : dispatch_block(body)
    \/ Project \/ commit_block \/ Refuse
    \/ \E height \in DOMAIN ledger : rollback_under(height)
    \/ RollbackTokens \/ RollbackAliases
    \/ Die \/ start \/ BackfillDone

IndexSpec == IndexInit /\ [][IndexNext]_indexVars

-----------------------------------------------------------------------------
(* Queries. *)

token_balance(t, a) ==
    Sum({r \in ti.cred : r.tok = t /\ r.party = a}) - Sum({r \in ti.deb : r.tok = t /\ r.party = a})

tokens_user(a) == {t \in Name : ti.addrtok[<<a, t>>] > 0}

(* token_detail: the supply it reports is what the holders have. *)
token_detail_supply(t) ==
    MapThenSumSet(LAMBDA a : token_balance(t, a), {a \in Party : token_balance(t, a) > 0})

(* tokens_list counts a token's rows. *)
token_transfers(t) == ti.tokset[t]

(* token_txs_for_address, through the rows and back to the journal. *)
token_txs_for_address(a) ==
    {j \in ti.journal : j.k = "transfer" /\ j.tok \in tokens_user(a) /\
        \E r \in ti.cred \cup ti.deb : r.tok = j.tok /\ r.party = a /\ r.h = j.h /\ r.q = j.q}

(* aliasget and its variants read the reverse table. *)
aliases_for(a) == {n \in Name : \E h \in 0..MaxBlocks : <<a, h, n>> \in al.rev}

(* alias_owner and addfromalias read the forward one. *)
alias_owner(n) == al.fwd[n].a

-----------------------------------------------------------------------------
(* The reference: the ledger replayed from its first block, on a plain set *)
(* of rows without any index.                                              *)
InOrder == FlattenSeq([h \in DOMAIN ledger |-> on_block(h, ledger[h])])

Plain(k, h, t, to, from, amt, x) ==
    [k |-> k, h |-> h, tok |-> t, rcp |-> to, adr |-> from, amt |-> amt, txid |-> x]

Spendable(R, t, a, h) ==
    Sum({r \in R : r.k # "noop" /\ r.tok = t /\ r.rcp = a /\ r.h < h})
    - Sum({r \in R : r.k # "noop" /\ r.tok = t /\ r.adr = a})

ReplayOne(R, e) ==
    LET o == Op[e.x] IN
    CASE o.kind = "token:issue" ->
            IF \E r \in R : r.k = "issue" /\ r.tok = Lower[o.name] THEN R
            ELSE R \cup {Plain("issue", e.h, Lower[o.name], o.to, Issued, o.amount, e.x)}
      [] o.kind = "token:transfer" ->
            R \cup {IF o.amount > 0 /\ Spendable(R, o.name, o.from, e.h) >= o.amount
                    THEN Plain("transfer", e.h, o.name, o.to, o.from, o.amount, e.x)
                    ELSE Plain("noop", e.h, o.name, Issued, Issued, 0, e.x)}
      [] OTHER -> R

Replayed == FoldLeft(ReplayOne, {}, InOrder)
Journalled == {Plain(r.k, r.h, r.tok, r.rcp, r.adr, r.amt, r.txid) : r \in ti.journal}
Below(R, height) == {r \in R : r.h < height}

-----------------------------------------------------------------------------
EntryType == [h : Nat, x : Tx]

(* Type correctness of the node and of the two stores; a name is           *)
(* registered at most once.                                                *)
TypeOK ==
    /\ phase \in {"down", "backfill", "ready", "project", "tokens", "aliases"}
    /\ ledger \in Seq(Seq(Tx)) /\ block \in Seq(Tx) /\ low \in Nat /\ work \in Seq(EntryType)
    /\ ti.anchor \in 0..MaxBlocks /\ al.anchor \in 0..MaxBlocks
    /\ ti.seen \subseteq Tx
    /\ ti.addrtok \in [Party \X Name -> Nat] /\ ti.tokset \in [Name -> Nat]
    /\ \A g, k \in ti.tokreg : g.tok = k.tok => g = k
    /\ al.fwd \in [Name -> [a : Party, h : Nat]]
    /\ dirty \in Nat /\ pristine \in BOOLEAN

(* The materialised indexes say what the journal says, after any mixture   *)
(* of operations, undo and interrupted passes: credits and debits, the     *)
(* reference counts behind tokens_user, the counts behind tokens_list, the *)
(* registry and the txids not to process again.  A wrong count would make  *)
(* an address lose a token it holds or keep one it does not.               *)
IndexesMatchJournal ==
    LET R == {r \in ti.journal : r.k # "noop"} IN
    /\ \A a \in Party, t \in Name :
          /\ ti.addrtok[<<a, t>>] = Cardinality({r \in ti.cred : r.party = a /\ r.tok = t})
                                    + Cardinality({r \in ti.deb : r.party = a /\ r.tok = t})
          /\ token_transfers(t) = Cardinality({r \in R : r.tok = t})
    /\ \A a \in Addr : token_txs_for_address(a) = {r \in R : r.k = "transfer" /\ a \in {r.rcp, r.adr}}
    /\ ti.seen = {r.txid : r \in ti.journal}
    /\ {g.txid : g \in ti.tokreg} = {r.txid : r \in {s \in R : s.k = "issue"}}

(* The derived store is consistent in itself at every step, also between   *)
(* the passes of a backfill and inside a rollback (token_index.py).        *)
Consistent == TypeOK /\ IndexesMatchJournal

(* The overspend rule: no holder ever sends more of a token than it has,   *)
(* although received tokens count only from the next block on and sent     *)
(* ones at once, and although blocks are replaced and rescanned; so the    *)
(* holders together always have the issued supply.  register_issue takes   *)
(* any integer: only the issuer of a negative supply is ever below zero.   *)
(* A stale row above a rolled-back tip is not seen by the check of a lower *)
(* block, so this is promised only while no rollback was cut short.        *)
NeverOverspent ==
    dirty = Clean => \A t \in Name :
        /\ \A a \in Addr :
              \/ token_balance(t, a) >= 0
              \/ \E g \in ti.tokreg : g.tok = t /\ g.supply < 0 /\ Op[g.txid].to = a
        /\ \/ token_detail_supply(t) = Sum({[amt |-> g.supply, tok |-> g.tok] :
                                               g \in {k \in ti.tokreg : k.tok = t}})
           \/ \E g \in ti.tokreg : g.tok = t /\ g.supply < 0

(* "Reorg rollback is a height range-delete": below the lowest height at   *)
(* which a pass was cut short or a projected block was refused, the index  *)
(* holds exactly what a replay of the ledger gives, after any number of    *)
(* reorganisations and restarts; a rollback past that height repairs the   *)
(* index completely.                                                       *)
TokensExact ==
    phase = "ready" => Below(Journalled, dirty) = Below(Replayed, dirty)

(* Until the first restart or refused block the aliases are those of a     *)
(* replay, and the forward and reverse tables mirror each other: however   *)
(* register, transfer and free are stacked on one alias, in one block or   *)
(* in several, a reorganisation unwinds them to the owner before it.       *)
AliasesExact ==
    phase = "ready" /\ pristine =>
        /\ al.fwd = FoldLeft(ApplyAlias, EmptyAliases, InOrder).fwd
        /\ \A a \in Addr : aliases_for(a) = {n \in Name : alias_owner(n) = a}
=============================================================================
