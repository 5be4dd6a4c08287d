---------------------------- MODULE SyncProtocol ----------------------------
(***************************************************************************)
(* One connection between two nodes: the worker thread of the node that    *)
(* dialled ("out", worker.py) and the handler thread of the node that was  *)
(* dialled ("in", node.py), each over its own chain, joined by two FIFO    *)
(* channels.  Both are request loops without a shared turn: which of them  *)
(* speaks next is derived, on each side, from two heights read at          *)
(* different moments, while other threads of the same node digest blocks.  *)
(*                                                                         *)
(* A chain is the sequence of its blocks and the hash of a block is the    *)
(* chain up to it.                                                         *)
(***************************************************************************)
EXTENDS Integers, Sequences, SequencesExt, FiniteSets

CONSTANTS
    Block,        \* block contents
    Batch,        \* blocks that fit the size cap of blocksync
    MaxHeight,    \* bound: no chain grows past it
    MaxEvents,    \* bound: digests by other threads of the two nodes
    MaxDelays,    \* bound: answers that come later than LTIMEOUT
    BanThreshold  \* ban_threshold

ASSUME SyncAssumption ==
    /\ {MaxHeight, MaxEvents, MaxDelays} \subseteq Nat
    /\ {Batch, BanThreshold} \subseteq Nat \ {0}
    /\ MaxHeight >= 2

Node == {"out", "in"}
Peer(n) == IF n = "out" THEN "in" ELSE "out"

VARIABLES
    chain,     \* the ledger of each node
    busy,      \* db_lock is held by another thread of the node
    pc,        \* where the connection's thread of each node waits
    ch,        \* ch[n]: the frames on their way to n
    heard,     \* received_block_height of each side
    offer,     \* blocks_fetched of each side
    slot,      \* peer_ip is in node.syncing, on the dialling side
    strikes,   \* warnings the node holds against its peer
    rival,     \* the highest block another peer advertises to the node
    egress,    \* the node hands out blocks
    compatible,\* each version is in the other's version_allow
    round,     \* the connection has not lost step since it was opened
    events, delays

vars == <<chain, busy, pc, ch, heard, offer, slot, strikes, rival, egress, compatible, round,
          events, delays>>
fixed == <<rival, egress, compatible>>
budget == <<events, delays>>

Msg(kind) == [kind |-> kind]
Height(h) == [kind |-> "height", height |-> h]
Hash(c) == [kind |-> "hash", hash |-> c]
Blocks(o) == [kind |-> "blocks", batch |-> o]
NoOffer == [base |-> <<>>, blocks |-> <<>>]

Idle == "closed"
hdd_block(n) == Len(chain[n])
Banned(n) == strikes[n] >= BanThreshold

-----------------------------------------------------------------------------
(* Frames.  Each loop tests the ban before its receive. *)
AtTop(n) == pc[n] = "top" /\ ~Banned(n)
Arrives(n, kind) == ch[n] # <<>> /\ Head(ch[n]).kind = kind
Take(n) == [ch EXCEPT ![n] = Tail(@)]
Take2(n) == [ch EXCEPT ![n] = Tail(Tail(@))]     \* a command and its argument
Reply(n, ms) == [ch EXCEPT ![n] = Tail(@), ![Peer(n)] = @ \o ms]
Reply2(n, ms) == [ch EXCEPT ![n] = Tail(Tail(@)), ![Peer(n)] = @ \o ms]
Say(n, ms) == [ch EXCEPT ![Peer(n)] = @ \o ms]
Goto(n, p) == pc' = [pc EXCEPT ![n] = p]

(* receive returned "*": nothing came in time.  Either nothing will, both   *)
(* sides being silent, or the answer is still under way.                    *)
Receiving(n) == pc[n] \in {"ok", "version", "top", "height", "hash", "confirm", "blocks", "pool"}
Silent == \A n \in Node : ch[n] = <<>> /\ (Receiving(n) \/ pc[n] = Idle)
Quiet(n) ==
    /\ ch[n] = <<>>
    /\ \/ Silent /\ UNCHANGED delays
       \/ ~Silent /\ delays < MaxDelays /\ delays' = delays + 1
    /\ round' = FALSE

(* The socket closes: what is in flight is lost and the other side's next   *)
(* receive or send fails.  The slot was given back by `finally`.            *)
Closed == [n \in Node |-> Idle]
Close ==
    /\ pc' = Closed
    /\ ch' = [n \in Node |-> <<>>]
    /\ slot' = FALSE
    /\ heard' = [n \in Node |-> 0]
    /\ offer' = [n \in Node |-> NoOffer]

-----------------------------------------------------------------------------
(* The handshake of a new connection. *)
Dial ==
    /\ pc = Closed
    /\ \A n \in Node : ~Banned(n)
    /\ pc' = [out |-> "ok", in |-> "top"]
    /\ ch' = [out |-> <<>>, in |-> <<Msg("version"), Msg("ourversion")>>]
    /\ round' = TRUE
    /\ UNCHANGED <<chain, busy, heard, offer, slot, strikes, fixed, budget>>

(* The handler refuses a version it does not list, and returns. *)
Version ==
    /\ AtTop("in") /\ Arrives("in", "version")
    /\ \/ /\ compatible
          /\ ch' = Reply2("in", <<Msg("ok")>>)
          /\ UNCHANGED <<pc, heard, offer, slot>>
       \/ ~compatible /\ Close
    /\ UNCHANGED <<chain, busy, strikes, round, fixed, budget>>

Handshake ==
    \/ /\ pc["out"] = "ok" /\ Arrives("out", "ok")
       /\ ch' = Reply("out", <<Msg("getversion")>>)
       /\ Goto("out", "version")
    \/ /\ AtTop("in") /\ Arrives("in", "getversion")
       /\ ch' = Reply("in", <<Msg("ourversion")>>)
       /\ UNCHANGED pc
    \/ /\ pc["out"] = "version" /\ Arrives("out", "ourversion")
       /\ ch' = Reply("out", <<Msg("hello")>>)
       /\ Goto("out", "top")
    \/ /\ AtTop("in") /\ Arrives("in", "hello")
       /\ ch' = Reply("in", <<Msg("peers"), Msg("peerlist")>>)
       /\ Goto("in", "sayssync")
    \/ /\ AtTop("out") /\ Arrives("out", "peers")
       /\ ch' = Take2("out")
       /\ UNCHANGED pc

(* A handler asks for a round as it is ("says"), or, after hello, sendsync   *)
(* and blocknf, once db_lock is free ("sayssync"), like the worker.         *)
SaysSync ==
    /\ pc["in"] = "says" \/ (pc["in"] = "sayssync" /\ ~busy["in"])
    /\ ch' = Say("in", <<Msg("sync")>>)
    /\ Goto("in", "top")
    /\ UNCHANGED <<chain, busy, heard, offer, slot, strikes, round, fixed, budget>>

sendsync ==
    /\ pc["out"] = "sendsync" /\ ~busy["out"]
    /\ ch' = Say("out", <<Msg("sendsync")>>)
    /\ Goto("out", "top")
    /\ UNCHANGED <<chain, busy, heard, offer, slot, strikes, round, fixed, budget>>

Resume(n) == IF n = "out" THEN "sendsync" ELSE "says"
ResumeFree(n) == IF n = "out" THEN "sendsync" ELSE "sayssync"

(* The handler's answer to sendsync, and to nonewblk. *)
HandlerSync ==
    /\ AtTop("in")
    /\ \/ Arrives("in", "sendsync") /\ Goto("in", "sayssync")
       \/ Arrives("in", "nonewblk") /\ Goto("in", "says")
    /\ ch' = Take("in")

-----------------------------------------------------------------------------
(* A round: heights, then the hash of the lower side, then its answer. *)
Sync ==
    /\ AtTop("out") /\ Arrives("out", "sync")
    /\ slot' = TRUE
    /\ ch' = Reply("out", <<Msg("blockheight"), Height(hdd_block("out"))>>)
    /\ Goto("out", "height")
    /\ UNCHANGED <<chain, busy, heard, offer, strikes, round, fixed, budget>>

(* blockheight: the handler answers with its height, and only then compares. *)
HandlerHeight ==
    /\ AtTop("in") /\ Arrives("in", "blockheight")
    /\ heard' = [heard EXCEPT !["in"] = ch["in"][2].height]
    /\ ch' = Reply2("in", <<Height(hdd_block("in"))>>)
    /\ Goto("in", "compare")
    /\ UNCHANGED <<chain, busy, offer, slot, strikes, round, fixed, budget>>

(* Each side compares twice, the `elif` with the height it has by then: when *)
(* another thread has moved it across, the round ends without a hash.       *)
HandlerCompare ==
    /\ pc["in"] = "compare"
    /\ \/ /\ heard["in"] > hdd_block("in")
          /\ ch' = Say("in", <<Hash(chain["in"])>>)
          /\ Goto("in", "top")
       \/ /\ heard["in"] <= hdd_block("in")
          /\ Goto("in", "again")
          /\ UNCHANGED ch
    /\ UNCHANGED <<chain, busy, heard, offer, slot, strikes, round, fixed, budget>>

HandlerAgain ==
    /\ pc["in"] = "again"
    /\ Goto("in", IF heard["in"] <= hdd_block("in") THEN "hash" ELSE "top")
    /\ UNCHANGED <<chain, busy, ch, heard, offer, slot, strikes, round, fixed, budget>>

(* The worker compares the answer with the height it has by then. *)
HeightAbove == hdd_block("out") + 1
HeightAgain == hdd_block("out")
WorkerCompare ==
    /\ pc["out"] = "height" /\ Arrives("out", "height")
    /\ heard' = [heard EXCEPT !["out"] = Head(ch["out"]).height]
    /\ ch' = Take("out")
    /\ Goto("out", IF Head(ch["out"]).height < HeightAgain THEN "hash" ELSE "again")
    /\ UNCHANGED <<chain, busy, offer, slot, strikes, round, fixed, budget>>

WorkerAgain ==
    /\ pc["out"] = "again"
    /\ ch' = IF heard["out"] >= hdd_block("out") THEN Say("out", <<Hash(chain["out"])>>) ELSE ch
    /\ Goto("out", "top")
    /\ slot' = FALSE
    /\ UNCHANGED <<chain, busy, heard, offer, strikes, round, fixed, budget>>

(* How many warnings an unknown hash costs: 2 from the handler, 1 from the  *)
(* worker.  A ban makes the handler leave at once; the worker's exception   *)
(* ends only the round, and its loop notices the ban.                       *)
Forked(n) == IF n = "in" THEN 2 ELSE 1
Warn(n, count) == strikes' = [strikes EXCEPT ![n] = IF @ + count > BanThreshold
                                                    THEN BanThreshold ELSE @ + count]
Leaves(n) == n = "in" /\ strikes[n] + Forked(n) >= BanThreshold
Known(n, c) == c # <<>> /\ IsPrefix(c, chain[n])
blocksync(n, c) ==
    [base |-> c, blocks |-> SubSeq(chain[n], Len(c) + 1,
                                   IF Len(c) + Batch < Len(chain[n]) THEN Len(c) + Batch
                                                                     ELSE Len(chain[n]))]
KeepSlot(n) == UNCHANGED slot
EndSlot(n) == slot' = (slot /\ n # "out")

NotFound(n, sent) ==
    /\ Warn(n, Forked(n))
    /\ \/ Leaves(n) /\ Close
       \/ /\ ~Leaves(n)
          /\ ch' = sent
          /\ Goto(n, "top") /\ EndSlot(n)
          /\ UNCHANGED <<heard, offer>>

Accepted == {"blockscf", "blocksrj"}

(* The higher side looks the hash up and says what it has to offer. *)
Lookup(n) ==
    /\ pc[n] = "hash" /\ Arrives(n, "hash")
    /\ LET c == Head(ch[n]).hash IN
       \/ ~Known(n, c) /\ NotFound(n, Reply(n, <<Msg("blocknf"), Hash(c)>>))
       \/ /\ Known(n, c) /\ (c = chain[n] \/ ~egress[n])
          /\ ch' = Reply(n, <<Msg("nonewblk")>>)
          /\ Goto(n, "top") /\ EndSlot(n)
          /\ UNCHANGED <<heard, offer, strikes>>
       \/ /\ Known(n, c) /\ c # chain[n] /\ egress[n]
          /\ offer' = [offer EXCEPT ![n] = blocksync(n, c)]
          /\ ch' = Reply(n, <<Msg("blocksfnd")>>)
          /\ Goto(n, "confirm")
          /\ UNCHANGED <<heard, slot, strikes>>
    /\ UNCHANGED <<chain, busy, round, fixed, budget>>

(* Whatever comes next is taken for the confirmation. *)
Confirm(n) ==
    /\ pc[n] = "confirm" /\ ch[n] # <<>>
    /\ ch' = IF Head(ch[n]).kind = "blockscf" THEN Reply(n, <<Blocks(offer[n])>>) ELSE Take(n)
    /\ round' = (round /\ Head(ch[n]).kind \in Accepted)
    /\ offer' = [offer EXCEPT ![n] = NoOffer]
    /\ Goto(n, "top") /\ EndSlot(n)
    /\ UNCHANGED <<chain, busy, heard, strikes, fixed, budget>>

(* blocksfnd: the lower side takes the blocks unless its ledger is busy or  *)
(* the peer is not at the height it requires.                               *)
block_req(n) == IF rival[n] > heard[n] THEN rival[n] ELSE heard[n]
AcceptsAhead(n) == heard[n] >= block_req(n) /\ heard[n] > hdd_block(n) + 1
Accepts(n) == heard[n] >= block_req(n) /\ heard[n] > hdd_block(n)
BlocksFound(n) ==
    /\ AtTop(n) /\ Arrives(n, "blocksfnd")
    /\ \/ busy[n] /\ ch' = Take(n) /\ Goto(n, Resume(n))
       \/ ~busy[n] /\ Accepts(n) /\ ch' = Reply(n, <<Msg("blockscf")>>) /\ Goto(n, "blocks")
       \/ ~busy[n] /\ ~Accepts(n) /\ ch' = Reply(n, <<Msg("blocksrj")>>) /\ Goto(n, Resume(n))
    /\ UNCHANGED <<chain, busy, heard, offer, slot, strikes, round, fixed, budget>>

(* digest_block: skipped when another thread digests.  A batch that does not *)
(* follow our tip any more costs the peer two warnings, and the exception   *)
(* ends the connection.                                                     *)
Rejected(n) == Warn(n, 2) /\ Close
digest_block(n) ==
    /\ pc[n] = "blocks" /\ Arrives(n, "blocks")
    /\ LET o == Head(ch[n]).batch IN
       \/ /\ busy[n] \/ o.base = chain[n]
          /\ chain' = IF busy[n] THEN chain ELSE [chain EXCEPT ![n] = @ \o o.blocks]
          /\ ch' = Take(n)
          /\ Goto(n, Resume(n))
          /\ UNCHANGED <<heard, offer, slot, strikes>>
       \/ ~busy[n] /\ o.base # chain[n] /\ Rejected(n) /\ UNCHANGED chain
    /\ UNCHANGED <<busy, round, fixed, budget>>

(* blocknf: the fork resolution of module Reorg, which adopts a longer chain. *)
blocknf(n) ==
    /\ AtTop(n) /\ Arrives(n, "blocknf")
    /\ ch' = Take2(n)
    /\ Goto(n, ResumeFree(n))
    /\ chain' = IF ~busy[n] /\ Len(chain[Peer(n)]) > Len(chain[n])
                THEN [chain EXCEPT ![n] = chain[Peer(n)]] ELSE chain
    /\ UNCHANGED <<busy, heard, offer, slot, strikes, round, fixed, budget>>

(* nonewblk at the worker: the mempools are exchanged. *)
Mempools ==
    \/ /\ AtTop("out") /\ Arrives("out", "nonewblk")
       /\ \/ ch' = Reply("out", <<Msg("mempool"), Msg("pool")>>) /\ Goto("out", "pool")
          \/ ch' = Take("out") /\ Goto("out", "sendsync")      \* not sendable yet
    \/ /\ AtTop("in") /\ Arrives("in", "mempool")
       /\ ch' = Reply2("in", <<Msg("pool")>>)
       /\ UNCHANGED pc
    \/ /\ pc["out"] = "pool" /\ Arrives("out", "pool")
       /\ ch' = Take("out")
       /\ Goto("out", "sendsync")

-----------------------------------------------------------------------------
(* What a side does with a frame it did not wait for, and with silence. *)
Expected(n) ==
    CASE pc[n] = "ok" -> {"ok"}
      [] pc[n] = "version" -> {"ourversion"}
      [] pc[n] = "height" -> {"height"}
      [] pc[n] = "hash" -> {"hash"}
      [] pc[n] = "blocks" -> {"blocks"}
      [] pc[n] = "pool" -> {"pool"}
      [] pc[n] = "top" /\ n = "out" -> {"peers", "sync", "blocknf", "blocksfnd", "nonewblk"}
      [] pc[n] = "top" /\ n = "in" ->
           {"version", "getversion", "hello", "sendsync", "blockheight", "blocksfnd",
            "blocknf", "nonewblk", "mempool"}
      [] OTHER -> {}

Unexpected(n) == Receiving(n) /\ pc[n] # "confirm" /\ ch[n] # <<>> /\ Head(ch[n]).kind \notin Expected(n)

(* At its top, or in the handshake, a side ends the connection. *)
Broken(n) ==
    /\ pc[n] \in {"top", "ok", "version"}
    /\ \/ Unexpected(n) /\ round' = FALSE /\ UNCHANGED delays
       \/ Quiet(n)
    /\ Close
    /\ UNCHANGED <<chain, busy, strikes, fixed, events>>

(* Within a round an answer that is no height is a failed sync: the slot is *)
(* given back and the connection stays.                                     *)
SyncFails ==
    /\ pc["out"] = "height"
    /\ \/ Unexpected("out") /\ ch' = Take("out") /\ round' = FALSE /\ UNCHANGED delays
       \/ Quiet("out") /\ UNCHANGED ch
    /\ Goto("out", "top")
    /\ slot' = FALSE
    /\ UNCHANGED <<chain, busy, heard, offer, strikes, fixed, events>>

(* Instead of the hash: any other frame is looked up like one.  Silence ends *)
(* the handler's connection, but the worker looks "*" up as well.           *)
NoHash(n) ==
    /\ pc[n] = "hash"
    /\ \/ /\ Unexpected(n) /\ round' = FALSE /\ UNCHANGED delays
          /\ NotFound(n, Reply(n, <<Msg("blocknf"), Hash(<<>>)>>))
       \/ /\ Quiet(n)
          /\ \/ n = "in" /\ Close /\ UNCHANGED strikes
             \/ n = "out" /\ NotFound(n, Say(n, <<Msg("blocknf"), Hash(<<>>)>>))
    /\ UNCHANGED <<chain, busy, fixed, events>>

NoConfirmation(n) ==
    /\ pc[n] = "confirm" /\ Quiet(n)
    /\ offer' = [offer EXCEPT ![n] = NoOffer]
    /\ Goto(n, "top") /\ EndSlot(n)
    /\ UNCHANGED <<chain, busy, ch, heard, strikes, fixed, events>>

(* Anything but blocks is digested, and refused. *)
NoBlocks(n) ==
    /\ pc[n] = "blocks"
    /\ \/ Unexpected(n) /\ round' = FALSE /\ UNCHANGED delays
       \/ Quiet(n)
    /\ \/ /\ busy[n]
          /\ ch' = IF ch[n] = <<>> THEN ch ELSE Take(n)
          /\ Goto(n, Resume(n))
          /\ UNCHANGED <<heard, offer, slot, strikes>>
       \/ ~busy[n] /\ Rejected(n)
    /\ UNCHANGED <<chain, busy, fixed, events>>

NoPool ==
    /\ pc["out"] = "pool"
    /\ \/ Unexpected("out") /\ ch' = Take("out") /\ round' = FALSE /\ UNCHANGED delays
       \/ Quiet("out") /\ UNCHANGED ch
    /\ Goto("out", "sendsync")
    /\ UNCHANGED <<chain, busy, heard, offer, slot, strikes, fixed, events>>

LoopEnds(n) ==
    /\ pc[n] = "top" /\ Banned(n)
    /\ Close
    /\ UNCHANGED <<chain, busy, strikes, round, fixed, budget>>

-----------------------------------------------------------------------------
(* Other threads of a node digest a block, or reorganise, under db_lock. *)
Others(n) ==
    \/ /\ ~busy[n] /\ events < MaxEvents
       /\ busy' = [busy EXCEPT ![n] = TRUE]
       /\ events' = events + 1
       /\ UNCHANGED chain
    \/ /\ busy[n]
       /\ busy' = [busy EXCEPT ![n] = FALSE]
       /\ \/ /\ Len(chain[n]) < MaxHeight
             /\ \E b \in Block : chain' = [chain EXCEPT ![n] = Append(@, b)]
          \/ /\ Len(chain[n]) > 1
             /\ chain' = [chain EXCEPT ![n] = Front(@)]
       /\ UNCHANGED events

Environment ==
    /\ \E n \in Node : Others(n)
    /\ UNCHANGED <<pc, ch, heard, offer, slot, strikes, round, fixed, delays>>

Init ==
    /\ chain \in {[out |-> c, in |-> d] : c, d \in {s \in BoundedSeq(Block, 2) : s # <<>>}}
    /\ chain["out"][1] = chain["in"][1]
    /\ busy = [n \in Node |-> FALSE]
    /\ pc = Closed
    /\ ch = [n \in Node |-> <<>>]
    /\ heard = [n \in Node |-> 0]
    /\ offer = [n \in Node |-> NoOffer]
    /\ slot = FALSE
    /\ strikes = [n \in Node |-> 0]
    /\ rival \in {[out |-> r, in |-> 0] : r \in {0, MaxHeight + 1}}
    /\ egress \in {[out |-> TRUE, in |-> rival["out"] > 0], [n \in Node |-> TRUE]}
    /\ compatible \in BOOLEAN
    /\ round = TRUE
    /\ events = 0 /\ delays = 0

Chat ==
    /\ (Handshake \/ HandlerSync \/ Mempools)
    /\ UNCHANGED <<chain, busy, heard, offer, slot, strikes, round, fixed, budget>>

Exchange ==
    \/ Dial \/ Version \/ Chat \/ SaysSync \/ sendsync
    \/ Sync \/ HandlerHeight \/ HandlerCompare \/ HandlerAgain \/ WorkerCompare \/ WorkerAgain
    \/ \E n \in Node :
        \/ Lookup(n) \/ Confirm(n) \/ BlocksFound(n) \/ digest_block(n) \/ blocknf(n)
        \/ Broken(n) \/ NoHash(n) \/ NoConfirmation(n) \/ NoBlocks(n) \/ LoopEnds(n)
    \/ SyncFails \/ NoPool

Next == Exchange \/ Environment

Spec == Init /\ [][Next]_vars

(* Threads run, frames arrive and a held db_lock is given back. *)
FairSpec ==
    /\ Spec
    /\ WF_vars(Exchange)
    /\ \A n \in Node : WF_vars(busy[n] /\ Environment)

-----------------------------------------------------------------------------
(* Type correctness of the two threads, and bounded channels. *)
TypeOK ==
    /\ \A n \in Node : chain[n] \in BoundedSeq(Block, MaxHeight) /\ chain[n] # <<>>
    /\ busy \in [Node -> BOOLEAN]
    /\ \A n \in Node : Receiving(n) \/ pc[n] \in {Idle, "compare", "again", "says", "sayssync", "sendsync"}
    /\ \A n \in Node : Len(ch[n]) <= 3
    /\ heard \in [Node -> 0..MaxHeight]
    /\ strikes \in [Node -> 0..BanThreshold]
    /\ slot \in BOOLEAN /\ round \in BOOLEAN
    /\ events \in 0..MaxEvents /\ delays \in 0..MaxDelays

(* As long as no other thread touches either ledger and no answer is late,  *)
(* the two loops agree on whose turn it is: no side receives a frame it did *)
(* not wait for, takes one for a confirmation it is not, or waits in vain.  *)
(* It rests on the two comparisons of the heights (worker.py:175, 226 and   *)
(* node.py:288, 296) covering equal heights exactly once.                   *)
InStep == compatible /\ events = 0 /\ delays = 0 => round

(* However a round ends, with a batch, a refusal, an unknown hash, silence, *)
(* a wrong frame or a ban, the place it took in node.syncing is given back. *)
SlotReturned == slot => pc["out"] \in {"height", "again", "hash", "confirm"}

(* The two loops and their channel keep their types, and places return     *)
(* (worker.py, node.py).                                                   *)
Consistent == TypeOK /\ SlotReturned

Settled == Len(chain["out"]) = Len(chain["in"])

(* Once the other threads are still, the shorter node catches up with the   *)
(* longer one over this connection, whoever dialled, through lost steps,    *)
(* time-outs and redials, unless the races made one of them ban the other.  *)
CatchesUp ==
    (compatible /\ rival["out"] = 0 /\ egress["in"]) => <>[](Settled \/ Banned("out") \/ Banned("in"))
=============================================================================
