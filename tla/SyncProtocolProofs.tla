-------------------------- MODULE SyncProtocolProofs --------------------------
(***************************************************************************)
(* The two request loops of a connection, for any blocks, batch size,      *)
(* heights and ban threshold: without races they never lose step; with     *)
(* them they lose it in a few ways only, which never fill a channel; and a *)
(* place in node.syncing is always given back.                             *)
(***************************************************************************)
EXTENDS SyncProtocol, SequenceTheorems, TLAPS

Chains == BoundedSeq(Block, MaxHeight)
Offers == {o \in [base : Chains, blocks : Chains] : Len(o.base) + Len(o.blocks) <= MaxHeight}
Kind == {"version", "ourversion", "ok", "getversion", "hello", "peers", "peerlist", "sync",
         "sendsync", "blockheight", "blocksfnd", "blockscf", "blocksrj", "blocknf", "nonewblk",
         "mempool", "pool"}
Frame == {Msg(k) : k \in Kind} \cup {Height(h) : h \in 0..MaxHeight}
           \cup {Hash(c) : c \in Chains} \cup {Blocks(o) : o \in Offers}
Place == {"closed", "ok", "version", "top", "height", "hash", "confirm", "blocks", "pool",
          "compare", "again", "says", "sayssync", "sendsync"}

(* Frames that are sent together with their argument. *)
Commands == {"version", "peers", "blockheight", "blocknf", "mempool"}
Followed(s) ==
    \A i \in 1..Len(s) :
        s[i].kind \in Commands =>
            /\ i < Len(s)
            /\ (s[i].kind = "blockheight" => s[i + 1].kind = "height")
Stream(s) == s \in Seq(Frame) /\ Followed(s)
Channels(c) == c \in [Node -> Seq(Frame)] /\ \A n \in Node : Followed(c[n])

(* What the two threads keep, and what is under way between them. *)
SyncTypes ==
    /\ chain \in [Node -> Chains \ {<<>>}]
    /\ pc \in [Node -> Place]
    /\ Channels(ch)
    /\ heard \in [Node -> 0..MaxHeight]
    /\ offer \in [Node -> Offers]
    /\ strikes \in [Node -> 0..BanThreshold]
    /\ events \in 0..MaxEvents /\ delays \in 0..MaxDelays

(* Channels hold at most three frames while the sides keep step. *)
None == <<>>
One(a) == <<a>>
Two(a, b) == <<a, b>>
Three(a, b, c) == <<a, b, c>>

Boxed(po, pi, co, ci) ==
    /\ pc["out"] = po /\ pc["in"] = pi
    /\ ch["out"] = co /\ ch["in"] = ci

(* Whose turn it is.  The handshake: *)
Opening ==
    \/ Boxed("closed", "closed", None, None)
    \/ Boxed("ok", "top", None, Two(Msg("version"), Msg("ourversion")))
    \/ Boxed("ok", "top", One(Msg("ok")), None)
    \/ Boxed("version", "top", None, One(Msg("getversion")))
    \/ Boxed("version", "top", One(Msg("ourversion")), None)
    \/ Boxed("top", "top", None, One(Msg("hello")))
    \/ Boxed("top", "sayssync", Two(Msg("peers"), Msg("peerlist")), None)
    \/ Boxed("top", "top", Three(Msg("peers"), Msg("peerlist"), Msg("sync")), None)

(* between two rounds, *)
Between ==
    \/ Boxed("top", "says", None, None)
    \/ Boxed("top", "sayssync", None, None)
    \/ Boxed("top", "top", One(Msg("sync")), None)
    \/ Boxed("sendsync", "top", None, None)
    \/ Boxed("top", "top", None, One(Msg("sendsync")))
    \/ Boxed("top", "top", None, One(Msg("nonewblk")))
    \/ Boxed("top", "top", One(Msg("nonewblk")), None)
    \/ Boxed("pool", "top", None, Two(Msg("mempool"), Msg("pool")))
    \/ Boxed("pool", "top", One(Msg("pool")), None)
    \/ \E c \in Chains : Boxed("top", "top", None, Two(Msg("blocknf"), Hash(c)))
    \/ \E c \in Chains : Boxed("top", "top", Two(Msg("blocknf"), Hash(c)), None)

(* the comparison of the heights, which each side makes when it gets to it *)
(* and which has to come out the same way,                                 *)
Ahead == hdd_block("in") < hdd_block("out")
Comparing ==
    \/ Boxed("height", "top", None, Two(Msg("blockheight"), Height(hdd_block("out"))))
    \/ /\ heard["in"] = hdd_block("out")
       /\ \/ Boxed("height", "compare", One(Height(hdd_block("in"))), None)
          \/ Ahead /\ Boxed("hash", "compare", None, None)
          \/ /\ Ahead
             /\ \E c \in Chains : Boxed("height", "top", Two(Height(hdd_block("in")), Hash(c)), None)
          \/ ~Ahead /\ Boxed("height", "again", One(Height(hdd_block("in"))), None)
          \/ ~Ahead /\ Boxed("height", "hash", One(Height(hdd_block("in"))), None)
          \/ ~Ahead /\ \E c \in Chains : Boxed("top", "compare", None, One(Hash(c)))
          \/ ~Ahead /\ \E c \in Chains : Boxed("top", "again", None, One(Hash(c)))
          \/ /\ ~Ahead /\ heard["out"] = hdd_block("in")
             /\ \/ Boxed("again", "compare", None, None)
                \/ Boxed("again", "again", None, None)
                \/ Boxed("again", "hash", None, None)
    \/ \E c \in Chains : Boxed("hash", "top", One(Hash(c)), None)
    \/ \E c \in Chains : Boxed("top", "hash", None, One(Hash(c)))

(* and the blocks. *)
Handing ==
    \/ Boxed("confirm", "top", None, One(Msg("blocksfnd")))
    \/ Boxed("confirm", "blocks", One(Msg("blockscf")), None)
    \/ Boxed("confirm", "says", One(Msg("blocksrj")), None)
    \/ Boxed("confirm", "top", Two(Msg("blocksrj"), Msg("sync")), None)
    \/ \E o \in Offers : Boxed("top", "blocks", None, One(Blocks(o)))
    \/ Boxed("top", "confirm", One(Msg("blocksfnd")), None)
    \/ Boxed("blocks", "confirm", None, One(Msg("blockscf")))
    \/ Boxed("sendsync", "confirm", None, One(Msg("blocksrj")))
    \/ Boxed("top", "confirm", None, Two(Msg("blocksrj"), Msg("sendsync")))
    \/ \E o \in Offers : Boxed("blocks", "top", One(Blocks(o)), None)

Turn == Opening \/ Between \/ Comparing \/ Handing

Undisturbed == compatible /\ events = 0 /\ delays = 0
TurnInv == Undisturbed => round /\ ~busy["out"] /\ ~busy["in"] /\ Turn

-----------------------------------------------------------------------------
(* Short sequences. *)
LEMMA Shift ==
  ASSUME NEW a, NEW b, NEW c
  PROVE  /\ Head(<<a>>) = a /\ Head(<<a, b>>) = a /\ Head(<<a, b, c>>) = a
         /\ Tail(<<a>>) = <<>> /\ Tail(<<a, b>>) = <<b>> /\ Tail(<<a, b, c>>) = <<b, c>>
         /\ <<a>> # <<>> /\ <<a, b>> # <<>> /\ <<a, b, c>> # <<>>
  OBVIOUS

LEMMA Joined ==
  ASSUME NEW a, NEW b, NEW c
  PROVE  /\ <<>> \o <<a>> = <<a>> /\ <<>> \o <<a, b>> = <<a, b>>
         /\ <<a>> \o <<b>> = <<a, b>> /\ <<a, b>> \o <<c>> = <<a, b, c>>
<1> DEFINE S == {a, b, c}
<1>1. /\ <<>> \in Seq(S) /\ <<a>> \in Seq(S) /\ <<b>> \in Seq(S) /\ <<c>> \in Seq(S)
      /\ <<a, b>> \in Seq(S) /\ <<a, b, c>> \in Seq(S)
  OBVIOUS
<1>2. <<>> \o <<a>> = <<a>> /\ <<>> \o <<a, b>> = <<a, b>>
  BY <1>1, ConcatEmptySeq
<1>3. <<a>> \o <<b>> = <<a, b>>
  <2> DEFINE t == <<a>> \o <<b>>
             u == <<a, b>>
  <2>1. t \in Seq(S) /\ Len(t) = 2 /\ t[1] = a /\ t[2] = b
    BY <1>1
  <2>2. u \in Seq(S) /\ Len(u) = 2 /\ u[1] = a /\ u[2] = b
    OBVIOUS
  <2> HIDE DEF t, u
  <2>3. \A i \in 1..Len(t) : t[i] = u[i]
    BY <2>1, <2>2
  <2>4. t = u
    BY <2>1, <2>2, <2>3, SeqEqual
  <2> QED
    BY <2>4 DEF t, u
<1>4. <<a, b>> \o <<c>> = <<a, b, c>>
  <2> DEFINE t == <<a, b>> \o <<c>>
             u == <<a, b, c>>
  <2>1. t \in Seq(S) /\ Len(t) = 3 /\ t[1] = a /\ t[2] = b /\ t[3] = c
    BY <1>1
  <2>2. u \in Seq(S) /\ Len(u) = 3 /\ u[1] = a /\ u[2] = b /\ u[3] = c
    OBVIOUS
  <2> HIDE DEF t, u
  <2>3. \A i \in 1..Len(t) : t[i] = u[i]
    BY <2>1, <2>2
  <2>4. t = u
    BY <2>1, <2>2, <2>3, SeqEqual
  <2> QED
    BY <2>4 DEF t, u
<1> QED
  BY <1>2, <1>3, <1>4

(* A ledger and a batch that follows it. *)
LEMMA ChainsAre ==
  ASSUME NEW s
  PROVE  s \in Chains <=> s \in Seq(Block) /\ Len(s) <= MaxHeight
<1>1. ASSUME s \in Chains
      PROVE  s \in Seq(Block) /\ Len(s) <= MaxHeight
  <2>1. PICK m \in 0..MaxHeight : s \in [1..m -> Block]
    BY <1>1 DEF Chains, BoundedSeq, SeqOf
  <2>2. m \in Nat /\ m <= MaxHeight
    BY <2>1, SyncAssumption
  <2> QED
    BY <2>1, <2>2
<1>2. ASSUME s \in Seq(Block), Len(s) <= MaxHeight
      PROVE  s \in Chains
  <2>1. Len(s) \in 0..MaxHeight /\ s \in [1..Len(s) -> Block]
    BY <1>2, SyncAssumption
  <2> QED
    BY <2>1 DEF Chains, BoundedSeq, SeqOf
<1> QED
  BY <1>1, <1>2

-----------------------------------------------------------------------------
(* Frames and channels. *)
LEMMA MsgFrame ==
  ASSUME NEW k \in Kind
  PROVE  Msg(k) \in Frame /\ Msg(k).kind = k
  BY DEF Frame, Msg

LEMMA HeightFrame ==
  ASSUME NEW h \in 0..MaxHeight
  PROVE  Height(h) \in Frame /\ Height(h).kind = "height" /\ Height(h).height = h
  BY DEF Frame, Height

LEMMA HashFrame ==
  ASSUME NEW c \in Chains
  PROVE  Hash(c) \in Frame /\ Hash(c).kind = "hash" /\ Hash(c).hash = c
  BY DEF Frame, Hash

LEMMA BlocksFrame ==
  ASSUME NEW o \in Offers
  PROVE  Blocks(o) \in Frame /\ Blocks(o).kind = "blocks" /\ Blocks(o).batch = o
  BY DEF Frame, Blocks

(* The kind of a frame tells what it carries. *)
LEMMA FrameContent ==
  ASSUME NEW f \in Frame
  PROVE  /\ f.kind = "height" => f.height \in 0..MaxHeight
         /\ f.kind = "hash" => f.hash \in Chains
         /\ f.kind = "blocks" => f.batch \in Offers
<1>1. ASSUME NEW k \in Kind, f = Msg(k)
      PROVE  f.kind \notin {"height", "hash", "blocks"}
  BY <1>1 DEF Msg, Kind
<1>2. ASSUME NEW h \in 0..MaxHeight, f = Height(h)
      PROVE  f.kind = "height" /\ f.height = h
  BY <1>2 DEF Height
<1>3. ASSUME NEW c \in Chains, f = Hash(c)
      PROVE  f.kind = "hash" /\ f.hash = c
  BY <1>3 DEF Hash
<1>4. ASSUME NEW o \in Offers, f = Blocks(o)
      PROVE  f.kind = "blocks" /\ f.batch = o
  BY <1>4 DEF Blocks
<1>5. \/ \E k \in Kind : f = Msg(k)
      \/ \E h \in 0..MaxHeight : f = Height(h)
      \/ \E c \in Chains : f = Hash(c)
      \/ \E o \in Offers : f = Blocks(o)
  BY DEF Frame
<1> QED
  BY <1>1, <1>2, <1>3, <1>4, <1>5

LEMMA OneFrame ==
  ASSUME NEW f \in Frame, f.kind \notin Commands
  PROVE  Stream(<<f>>)
  BY DEF Stream, Followed

LEMMA TwoFrames ==
  ASSUME NEW f \in Frame, NEW g \in Frame,
         f.kind = "blockheight" => g.kind = "height", g.kind \notin Commands
  PROVE  Stream(<<f, g>>)
  BY DEF Stream, Followed

LEMMA TailStream ==
  ASSUME NEW s, Stream(s), s # <<>>
  PROVE  Stream(Tail(s))
<1>1. /\ s \in Seq(Frame) /\ Len(s) \in Nat /\ Len(s) > 0
      /\ Tail(s) \in Seq(Frame) /\ Len(Tail(s)) = Len(s) - 1
      /\ \A i \in 1..(Len(s) - 1) : Tail(s)[i] = s[i + 1]
  BY DEF Stream
<1>2. ASSUME NEW i \in 1..Len(Tail(s)), Tail(s)[i].kind \in Commands
      PROVE  /\ i < Len(Tail(s))
             /\ Tail(s)[i].kind = "blockheight" => Tail(s)[i + 1].kind = "height"
  <2>1. i + 1 \in 1..Len(s) /\ s[i + 1].kind \in Commands /\ Tail(s)[i] = s[i + 1]
    BY <1>1, <1>2
  <2>2. i + 1 < Len(s) /\ (s[i + 1].kind = "blockheight" => s[i + 2].kind = "height")
    BY <1>1, <2>1 DEF Stream, Followed
  <2>3. i < Len(Tail(s)) /\ i + 1 \in 1..(Len(s) - 1) /\ (i + 1) + 1 = i + 2
    BY <1>1, <2>1, <2>2
  <2>4. Tail(s)[i + 1] = s[i + 2]
    BY <1>1, <2>3
  <2> QED
    BY <2>1, <2>2, <2>3, <2>4, Zenon
<1> QED
  BY <1>1, <1>2 DEF Stream, Followed

LEMMA Tail2Stream ==
  ASSUME NEW s, Stream(s), s # <<>>, Head(s).kind \in Commands
  PROVE  Tail(s) # <<>> /\ Stream(Tail(Tail(s)))
<1>1. s \in Seq(Frame) /\ Len(s) \in Nat /\ Len(s) > 0 /\ s[1] = Head(s)
  BY DEF Stream
<1>2. 1 < Len(s)
  BY <1>1 DEF Stream, Followed
<1>3. Len(Tail(s)) = Len(s) - 1
  BY <1>1
<1>4. Tail(s) # <<>>
  BY <1>1, <1>2, <1>3
<1> QED
  BY <1>4, TailStream

LEMMA JoinStream ==
  ASSUME NEW s, NEW t, Stream(s), Stream(t)
  PROVE  Stream(s \o t)
<1>1. /\ s \in Seq(Frame) /\ t \in Seq(Frame) /\ Len(s) \in Nat /\ Len(t) \in Nat
      /\ s \o t \in Seq(Frame) /\ Len(s \o t) = Len(s) + Len(t)
      /\ \A i \in 1..(Len(s) + Len(t)) : (s \o t)[i] = IF i <= Len(s) THEN s[i] ELSE t[i - Len(s)]
  BY ConcatProperties DEF Stream
<1> DEFINE u == s \o t
<1> HIDE DEF u
<1>2. ASSUME NEW i \in 1..Len(u), u[i].kind \in Commands
      PROVE  i < Len(u) /\ (u[i].kind = "blockheight" => u[i + 1].kind = "height")
  <2>1. CASE i <= Len(s)
    <3>1. i < Len(s) /\ (s[i].kind = "blockheight" => s[i + 1].kind = "height") /\ u[i] = s[i]
      BY <1>1, <1>2, <2>1 DEF Stream, Followed, u
    <3>2. u[i + 1] = s[i + 1]
      BY <1>1, <3>1 DEF u
    <3>3. i < Len(u)
      BY <1>1, <3>1 DEF u
    <3> QED
      BY <3>1, <3>2, <3>3, Zenon
  <2>2. CASE ~(i <= Len(s))
    <3> DEFINE j == i - Len(s)
    <3>1. j \in 1..Len(t) /\ u[i] = t[j]
      BY <1>1, <2>2 DEF u
    <3>2. j < Len(t) /\ (t[j].kind = "blockheight" => t[j + 1].kind = "height")
      BY <1>2, <3>1 DEF Stream, Followed
    <3>3. i + 1 \in 1..Len(u) /\ ~(i + 1 <= Len(s)) /\ (i + 1) - Len(s) = j + 1
      BY <1>1, <2>2, <3>2 DEF u
    <3>4. u[i + 1] = t[j + 1]
      BY <1>1, <3>3 DEF u
    <3>5. i < Len(u)
      BY <1>1, <3>3 DEF u
    <3> QED
      BY <3>1, <3>2, <3>4, <3>5, Zenon
  <2> QED
    BY <2>1, <2>2
<1> QED
  BY <1>1, <1>2 DEF Stream, Followed, u

(* What each way of using the channels leaves in them. *)
LEMMA ChannelUpdate ==
  ASSUME Channels(ch), NEW n \in Node, NEW s, NEW t, Stream(s), Stream(t), NEW d,
         d = [ch EXCEPT ![n] = s, ![Peer(n)] = t]
  PROVE  Channels(d)
  BY DEF Channels, Stream, Node, Peer

LEMMA StreamOf ==
  ASSUME Channels(ch), NEW n \in Node
  PROVE  Stream(ch[n]) /\ Stream(ch[Peer(n)])
  BY DEF Channels, Stream, Node, Peer

LEMMA TakeType ==
  ASSUME Channels(ch), NEW n \in Node, ch[n] # <<>>
  PROVE  Channels(Take(n))
  BY StreamOf, TailStream DEF Channels, Stream, Take

LEMMA Take2Type ==
  ASSUME Channels(ch), NEW n \in Node, ch[n] # <<>>, Head(ch[n]).kind \in Commands
  PROVE  Channels(Take2(n))
  BY StreamOf, Tail2Stream DEF Channels, Stream, Take2

LEMMA SayType ==
  ASSUME Channels(ch), NEW n \in Node, NEW ms, Stream(ms)
  PROVE  Channels(Say(n, ms))
<1>1. Stream(ch[Peer(n)] \o ms)
  BY StreamOf, JoinStream
<1> QED
  BY <1>1 DEF Channels, Stream, Say

LEMMA ReplyType ==
  ASSUME Channels(ch), NEW n \in Node, ch[n] # <<>>, NEW ms, Stream(ms)
  PROVE  Channels(Reply(n, ms))
<1>1. Stream(ch[Peer(n)] \o ms) /\ Stream(Tail(ch[n])) /\ n # Peer(n)
  BY StreamOf, JoinStream, TailStream DEF Peer, Node
<1>2. Reply(n, ms) = [ch EXCEPT ![n] = Tail(ch[n]), ![Peer(n)] = ch[Peer(n)] \o ms]
  BY <1>1 DEF Reply, Channels
<1> HIDE DEF Reply
<1> QED
  BY <1>1, <1>2, ChannelUpdate

LEMMA Reply2Type ==
  ASSUME Channels(ch), NEW n \in Node, ch[n] # <<>>, Head(ch[n]).kind \in Commands,
         NEW ms, Stream(ms)
  PROVE  Channels(Reply2(n, ms))
<1>1. Stream(ch[Peer(n)] \o ms) /\ Stream(Tail(Tail(ch[n]))) /\ n # Peer(n)
  BY StreamOf, JoinStream, Tail2Stream DEF Peer, Node
<1>2. Reply2(n, ms) = [ch EXCEPT ![n] = Tail(Tail(ch[n])), ![Peer(n)] = ch[Peer(n)] \o ms]
  BY <1>1 DEF Reply2, Channels
<1> QED
  BY <1>1, <1>2, ChannelUpdate

(* The frames the loops send. *)
LEMMA MsgStream ==
  ASSUME NEW k \in Kind \ Commands
  PROVE  Stream(<<Msg(k)>>)
  BY MsgFrame, OneFrame

LEMMA HashStream ==
  ASSUME NEW c \in Chains
  PROVE  Stream(<<Hash(c)>>) /\ Stream(<<Msg("blocknf"), Hash(c)>>)
<1>1. Hash(c) \in Frame /\ Hash(c).kind \notin Commands
  BY HashFrame DEF Commands
<1>2. Msg("blocknf") \in Frame /\ Msg("blocknf").kind # "blockheight"
  BY MsgFrame DEF Kind
<1> QED
  BY <1>1, <1>2, OneFrame, TwoFrames

LEMMA HeightStream ==
  ASSUME NEW h \in 0..MaxHeight
  PROVE  Stream(<<Height(h)>>) /\ Stream(<<Msg("blockheight"), Height(h)>>)
<1>1. Height(h) \in Frame /\ Height(h).kind = "height" /\ Height(h).kind \notin Commands
  BY HeightFrame DEF Commands
<1>2. Msg("blockheight") \in Frame
  BY MsgFrame DEF Kind
<1> QED
  BY <1>1, <1>2, OneFrame, TwoFrames

LEMMA BlocksStream ==
  ASSUME NEW o \in Offers
  PROVE  Stream(<<Blocks(o)>>)
<1>1. Blocks(o) \in Frame /\ Blocks(o).kind \notin Commands
  BY BlocksFrame DEF Commands
<1> QED
  BY <1>1, OneFrame

LEMMA PairStream ==
  ASSUME NEW k \in Kind \ {"blockheight"}, NEW m \in Kind \ Commands
  PROVE  Stream(<<Msg(k), Msg(m)>>)
<1>1. Msg(k) \in Frame /\ Msg(k).kind # "blockheight" /\ Msg(m) \in Frame /\ Msg(m).kind \notin Commands
  BY MsgFrame
<1> QED
  BY <1>1, TwoFrames

LEMMA EmptyStream == Stream(<<>>)
  BY DEF Stream, Followed

LEMMA NoOfferType == NoOffer \in Offers /\ <<>> \in Chains
<1>1. <<>> \in Seq(Block) /\ Len(<<>>) = 0 /\ 0 <= MaxHeight
  BY SyncAssumption
<1>2. <<>> \in Chains
  BY <1>1, ChainsAre
<1> QED
  BY <1>1, <1>2 DEF NoOffer, Offers

(* Heights are numbers, and the first of a height's frames carries one. *)
LEMMA Heights ==
  ASSUME SyncTypes, NEW n \in Node
  PROVE  chain[n] \in Chains /\ chain[n] \in Seq(Block) /\ hdd_block(n) \in 0..MaxHeight
         /\ Len(chain[n]) \in 1..MaxHeight
<1>1. chain[n] \in Chains /\ chain[n] # <<>>
  BY DEF SyncTypes
<1>2. chain[n] \in Seq(Block) /\ Len(chain[n]) <= MaxHeight
  BY <1>1, ChainsAre
<1> QED
  BY <1>1, <1>2, SyncAssumption DEF hdd_block

LEMMA InitTypes == Init => SyncTypes
<1> SUFFICES ASSUME Init PROVE SyncTypes
  OBVIOUS
<1>1. chain \in [Node -> Chains \ {<<>>}]
  <2>1. PICK c, d \in {s \in BoundedSeq(Block, 2) : s # <<>>} : chain = [out |-> c, in |-> d]
    BY DEF Init
  <2>2. ASSUME NEW s \in BoundedSeq(Block, 2)
        PROVE  s \in Chains
    <3>1. PICK m \in 0..2 : s \in [1..m -> Block]
      BY <2>2 DEF BoundedSeq, SeqOf
    <3>2. s \in Seq(Block) /\ Len(s) = m /\ m <= MaxHeight
      BY <3>1, SyncAssumption
    <3> QED
      BY <3>2, ChainsAre
  <2>3. c \in Chains \ {<<>>} /\ d \in Chains \ {<<>>}
    BY <2>1, <2>2
  <2> QED
    BY <2>1, <2>3 DEF Node
<1>2. Channels(ch)
  BY EmptyStream DEF Init, Channels, Stream
<1> QED
  BY <1>1, <1>2, NoOfferType, SyncAssumption DEF Init, SyncTypes, Closed, Idle, Place

-----------------------------------------------------------------------------
(* Steps keep the types, action by action. *)
LEMMA CloseTypes ==
  ASSUME SyncTypes, Close
  PROVE  /\ pc' \in [Node -> Place] /\ Channels(ch)'
         /\ heard' \in [Node -> 0..MaxHeight] /\ offer' \in [Node -> Offers]
<1>1. Channels(ch)'
  BY EmptyStream DEF Close, Channels, Stream
<1> QED
  BY <1>1, NoOfferType, SyncAssumption DEF Close, Closed, Idle, Place

LEMMA HandshakeTypes ==
  ASSUME SyncTypes, Dial \/ Version \/ SaysSync \/ sendsync \/ LoopEnds("out") \/ LoopEnds("in")
  PROVE  SyncTypes'
<1> USE DEF Node
<1>1. CASE Dial
  <2>1. /\ pc' = [out |-> "ok", in |-> "top"]
        /\ ch' = [out |-> <<>>, in |-> <<Msg("version"), Msg("ourversion")>>]
        /\ UNCHANGED <<chain, heard, offer, strikes, events, delays>>
    BY <1>1, Zenon DEF Dial, budget
  <2>2. Stream(<<Msg("version"), Msg("ourversion")>>)
    BY PairStream DEF Kind, Commands
  <2>3. pc' \in [Node -> Place]
    BY <2>1 DEF Place
  <2>4. Channels(ch)'
    <3>1. PICK s, e : /\ s = <<Msg("version"), Msg("ourversion")>> /\ Stream(s)
                      /\ e = <<>> /\ Stream(e)
      BY <2>2, EmptyStream
    <3>2. ch' = [out |-> e, in |-> s]
      BY <2>1, <3>1, Zenon
    <3> DEFINE S == Seq(Frame)
    <3>3. e \in S /\ s \in S
      BY <3>1 DEF Stream
    <3> HIDE DEF S
    <3>4. ch'["out"] = e /\ ch'["in"] = s /\ ch' \in [Node -> S]
      BY <3>2, <3>3
    <3> USE DEF S
    <3> QED
      BY <3>1, <3>4 DEF Channels, Stream
  <2> QED
    BY <2>1, <2>3, <2>4 DEF SyncTypes
<1>2. CASE Version
  <2>1. UNCHANGED <<chain, strikes, events, delays>>
    BY <1>2, Zenon DEF Version, budget
  <2>2. CASE Close
    BY <2>1, <2>2, CloseTypes DEF SyncTypes
  <2>3. CASE ch' = Reply2("in", <<Msg("ok")>>) /\ UNCHANGED <<pc, heard, offer, slot>>
    <3>1. Stream(<<Msg("ok")>>)
      BY MsgStream DEF Kind, Commands
    <3>2. ch["in"] # <<>> /\ Head(ch["in"]).kind \in Commands
      BY <1>2 DEF Version, Arrives, Commands
    <3>3. Channels(ch)'
      BY <2>3, <3>1, <3>2, Reply2Type DEF SyncTypes
    <3> QED
      BY <2>1, <2>3, <3>3 DEF SyncTypes
  <2> QED
    BY <1>2, <2>2, <2>3, Zenon DEF Version
<1>3. CASE SaysSync \/ sendsync
  <2>1. PICK n \in Node, k \in {"sync", "sendsync"} : ch' = Say(n, <<Msg(k)>>) /\ Goto(n, "top")
    BY <1>3 DEF SaysSync, sendsync
  <2>2. Stream(<<Msg(k)>>)
    BY MsgStream DEF Kind, Commands
  <2>3. Channels(ch)'
    BY <2>1, <2>2, SayType DEF SyncTypes
  <2>4. UNCHANGED <<chain, heard, offer, strikes, events, delays>>
    BY <1>3, Zenon DEF SaysSync, sendsync, budget
  <2> QED
    BY <2>1, <2>3, <2>4 DEF SyncTypes, Goto, Place
<1>4. CASE LoopEnds("out") \/ LoopEnds("in")
  <2>1. Close /\ UNCHANGED <<chain, strikes, events, delays>>
    BY <1>4, Zenon DEF LoopEnds, budget
  <2> QED
    BY <2>1, CloseTypes DEF SyncTypes
<1> QED
  BY <1>1, <1>2, <1>3, <1>4

LEMMA Arrived ==
  ASSUME SyncTypes, NEW n \in Node, ch[n] # <<>>
  PROVE  Head(ch[n]) \in Frame
  BY DEF SyncTypes, Channels

LEMMA ChatTypes ==
  ASSUME SyncTypes, Chat
  PROVE  SyncTypes'
<1> USE DEF Node
<1>1. UNCHANGED <<chain, heard, offer, strikes, events, delays>>
  BY Zenon DEF Chat, budget
<1>2. Channels(ch)
  BY DEF SyncTypes
<1>3. SUFFICES pc' \in [Node -> Place] /\ Channels(ch)'
  BY <1>1, Zenon DEF SyncTypes
<1>4. \A n \in Node, p \in Place : Goto(n, p) => pc' \in [Node -> Place]
  BY DEF SyncTypes, Goto
<1>5. pc' = pc => pc' \in [Node -> Place]
  BY DEF SyncTypes
<1>6. \A k \in Kind \ Commands : Stream(<<Msg(k)>>)
  BY MsgStream
<1>7. Stream(<<Msg("peers"), Msg("peerlist")>>) /\ Stream(<<Msg("mempool"), Msg("pool")>>)
  BY PairStream DEF Kind, Commands
<1>8. ASSUME NEW n \in Node, ch[n] # <<>>, NEW ms, Stream(ms), ch' = Reply(n, ms)
      PROVE  Channels(ch)'
  BY <1>2, <1>8, ReplyType
<1>9. ASSUME NEW n \in Node, ch[n] # <<>>, ch' = Take(n)
      PROVE  Channels(ch)'
  BY <1>2, <1>9, TakeType
<1>10. CASE Handshake
  <2>1. CASE /\ Arrives("out", "ok")
             /\ ch' = Reply("out", <<Msg("getversion")>>) /\ Goto("out", "version")
    BY <2>1, <1>4, <1>6, <1>8 DEF Kind, Commands, Place, Arrives
  <2>2. CASE /\ Arrives("in", "getversion")
             /\ ch' = Reply("in", <<Msg("ourversion")>>) /\ UNCHANGED pc
    BY <2>2, <1>5, <1>6, <1>8 DEF Kind, Commands, Arrives
  <2>3. CASE /\ Arrives("out", "ourversion")
             /\ ch' = Reply("out", <<Msg("hello")>>) /\ Goto("out", "top")
    BY <2>3, <1>4, <1>6, <1>8 DEF Kind, Commands, Place, Arrives
  <2>4. CASE /\ Arrives("in", "hello")
             /\ ch' = Reply("in", <<Msg("peers"), Msg("peerlist")>>) /\ Goto("in", "sayssync")
    BY <2>4, <1>4, <1>7, <1>8 DEF Place, Arrives
  <2>5. CASE Arrives("out", "peers") /\ ch' = Take2("out") /\ UNCHANGED pc
    <3>1. ch["out"] # <<>> /\ Head(ch["out"]).kind \in Commands
      BY <2>5 DEF Arrives, Commands
    <3> QED
      BY <2>5, <3>1, <1>2, <1>5, Take2Type
  <2> QED
    BY <1>10, <2>1, <2>2, <2>3, <2>4, <2>5, Zenon DEF Handshake
<1>11. CASE HandlerSync
  <2>1. ch["in"] # <<>> /\ ch' = Take("in") /\ (Goto("in", "sayssync") \/ Goto("in", "says"))
    BY <1>11 DEF HandlerSync, Arrives
  <2> QED
    BY <2>1, <1>4, <1>9 DEF Place
<1>12. CASE Mempools
  <2>1. CASE /\ Arrives("out", "nonewblk")
             /\ ch' = Reply("out", <<Msg("mempool"), Msg("pool")>>) /\ Goto("out", "pool")
    BY <2>1, <1>4, <1>7, <1>8 DEF Place, Arrives
  <2>2. CASE (Arrives("out", "nonewblk") \/ Arrives("out", "pool"))
               /\ ch' = Take("out") /\ Goto("out", "sendsync")
    BY <2>2, <1>4, <1>9 DEF Place, Arrives
  <2>3. CASE Arrives("in", "mempool") /\ ch' = Reply2("in", <<Msg("pool")>>) /\ UNCHANGED pc
    <3>1. ch["in"] # <<>> /\ Head(ch["in"]).kind \in Commands
      BY <2>3 DEF Arrives, Commands
    <3>2. Stream(<<Msg("pool")>>)
      BY <1>6 DEF Kind, Commands
    <3> QED
      BY <2>3, <3>1, <3>2, <1>2, <1>5, Reply2Type
  <2> QED
    BY <1>12, <2>1, <2>2, <2>3, Zenon DEF Mempools
<1> QED
  BY <1>10, <1>11, <1>12, Zenon DEF Chat

(* The comparison of the heights: what is heard is what the peer sent. *)
LEMMA CompareTypes ==
  ASSUME SyncTypes, Sync \/ HandlerHeight \/ HandlerCompare \/ HandlerAgain \/ WorkerCompare \/ WorkerAgain \/ SyncFails \/ NoPool
  PROVE  SyncTypes'
<1> USE DEF Node
<1>1. \A n \in Node : hdd_block(n) \in 0..MaxHeight /\ chain[n] \in Chains
  BY Heights
<1>2. Channels(ch)
  BY DEF SyncTypes
<1>3. \A n \in Node, p \in Place : Goto(n, p) => pc' \in [Node -> Place]
  BY DEF SyncTypes, Goto
<1>4. CASE Sync
  <2>1. /\ Goto("out", "height") /\ ch["out"] # <<>>
        /\ ch' = Reply("out", <<Msg("blockheight"), Height(hdd_block("out"))>>)
        /\ UNCHANGED <<chain, heard, offer, strikes, events, delays>>
    BY <1>4, Zenon DEF Sync, Arrives, budget
  <2>2. Stream(<<Msg("blockheight"), Height(hdd_block("out"))>>)
    BY <1>1, HeightStream
  <2>3. Channels(ch)'
    BY <1>2, <2>1, <2>2, ReplyType
  <2> QED
    BY <1>3, <2>1, <2>3 DEF SyncTypes, Place
<1>5. CASE HandlerHeight
  <2>1. /\ Goto("in", "compare") /\ ch["in"] # <<>> /\ Head(ch["in"]).kind = "blockheight"
        /\ heard' = [heard EXCEPT !["in"] = ch["in"][2].height]
        /\ ch' = Reply2("in", <<Height(hdd_block("in"))>>)
        /\ UNCHANGED <<chain, offer, strikes, events, delays>>
    BY <1>5, Zenon DEF HandlerHeight, Arrives, budget
  <2>2. ch["in"][2].height \in 0..MaxHeight
    <3>1. ch["in"] \in Seq(Frame) /\ Followed(ch["in"])
      BY DEF SyncTypes, Channels
    <3>2. Len(ch["in"]) \in Nat /\ 1 \in 1..Len(ch["in"]) /\ ch["in"][1].kind = "blockheight"
      BY <2>1, <3>1
    <3>3. 1 < Len(ch["in"]) /\ ch["in"][1 + 1].kind = "height"
      BY <3>1, <3>2 DEF Followed, Commands
    <3>4. ch["in"][2] \in Frame /\ ch["in"][2].kind = "height"
      BY <3>1, <3>2, <3>3
    <3> QED
      BY <3>4, FrameContent
  <2>3. Stream(<<Height(hdd_block("in"))>>)
    BY <1>1, HeightStream
  <2>4. Channels(ch)'
    BY <1>2, <2>1, <2>3, Reply2Type DEF Commands
  <2>5. heard' \in [Node -> 0..MaxHeight]
    BY <2>1, <2>2 DEF SyncTypes
  <2> QED
    BY <1>3, <2>1, <2>4, <2>5 DEF SyncTypes, Place
<1>6. CASE HandlerCompare
  <2>1. UNCHANGED <<chain, heard, offer, strikes, events, delays>>
    BY <1>6, Zenon DEF HandlerCompare, budget
  <2>2. CASE ch' = Say("in", <<Hash(chain["in"])>>) /\ Goto("in", "top")
    <3>1. Channels(ch)'
      BY <1>1, <1>2, <2>2, HashStream, SayType
    <3> QED
      BY <1>3, <2>1, <2>2, <3>1 DEF SyncTypes, Place
  <2>3. CASE Goto("in", "again") /\ UNCHANGED ch
    BY <1>3, <2>1, <2>3 DEF SyncTypes, Place
  <2> QED
    BY <1>6, <2>2, <2>3, Zenon DEF HandlerCompare
<1>9. CASE HandlerAgain
  <2>1. /\ UNCHANGED <<chain, ch, heard, offer, strikes, events, delays>>
        /\ Goto("in", "hash") \/ Goto("in", "top")
    BY <1>9, Zenon DEF HandlerAgain, budget
  <2> QED
    BY <1>3, <2>1 DEF SyncTypes, Place
<1>7. CASE WorkerCompare
  <2>1. /\ ch["out"] # <<>> /\ Head(ch["out"]).kind = "height"
        /\ heard' = [heard EXCEPT !["out"] = Head(ch["out"]).height]
        /\ UNCHANGED <<chain, offer, strikes, events, delays>>
    BY <1>7, Zenon DEF WorkerCompare, Arrives, budget
  <2>2. heard' \in [Node -> 0..MaxHeight]
    BY <2>1, Arrived, FrameContent DEF SyncTypes
  <2>3. Channels(Take("out"))
    BY <1>2, <2>1, TakeType
  <2>4. Channels(ch)' /\ pc' \in [Node -> Place]
    <3>1. ch' = Take("out") /\ (Goto("out", "hash") \/ Goto("out", "again"))
      BY <1>7, Zenon DEF WorkerCompare
    <3> QED
      BY <1>3, <2>3, <3>1 DEF Place
  <2> QED
    BY <2>1, <2>2, <2>4 DEF SyncTypes
<1>10. CASE WorkerAgain
  <2>1. /\ UNCHANGED <<chain, heard, offer, strikes, events, delays>> /\ Goto("out", "top")
        /\ ch' = ch \/ ch' = Say("out", <<Hash(chain["out"])>>)
    BY <1>10, Zenon DEF WorkerAgain, budget
  <2>2. Channels(ch)'
    BY <1>1, <1>2, <2>1, HashStream, SayType
  <2> QED
    BY <1>3, <2>1, <2>2 DEF SyncTypes, Place
<1>8. CASE SyncFails \/ NoPool
  <2>1. /\ UNCHANGED <<chain, heard, offer, strikes, events>>
        /\ ch' = ch \/ (ch["out"] # <<>> /\ ch' = Take("out"))
        /\ Goto("out", "top") \/ Goto("out", "sendsync")
        /\ delays' = delays \/ (delays < MaxDelays /\ delays' = delays + 1)
    BY <1>8, Zenon DEF SyncFails, NoPool, Unexpected, Quiet
  <2>2. Channels(ch)'
    BY <1>2, <2>1, TakeType
  <2>3. delays' \in 0..MaxDelays
    BY <2>1, SyncAssumption DEF SyncTypes
  <2> QED
    BY <1>3, <2>1, <2>2, <2>3 DEF SyncTypes, Place
<1> QED
  BY <1>4, <1>5, <1>6, <1>7, <1>8, <1>9, <1>10

LEMMA WarnTypes ==
  ASSUME SyncTypes, NEW n \in Node, NEW k \in {1, 2}, Warn(n, k)
  PROVE  strikes' \in [Node -> 0..BanThreshold]
<1>1. strikes \in [Node -> 0..BanThreshold] /\ BanThreshold \in Nat /\ k \in Nat
  BY SyncAssumption DEF SyncTypes
<1>2. (IF strikes[n] + k > BanThreshold THEN BanThreshold ELSE strikes[n] + k) \in 0..BanThreshold
  BY <1>1
<1> QED
  BY <1>1, <1>2 DEF Warn

LEMMA NotFoundTypes ==
  ASSUME SyncTypes, NEW n \in Node, NEW s, Channels(s), NotFound(n, s)
  PROVE  /\ pc' \in [Node -> Place] /\ Channels(ch)'
         /\ heard' \in [Node -> 0..MaxHeight] /\ offer' \in [Node -> Offers]
         /\ strikes' \in [Node -> 0..BanThreshold]
<1>1. strikes' \in [Node -> 0..BanThreshold]
  BY WarnTypes DEF NotFound, Forked
<1>2. CASE Close
  BY <1>1, <1>2, CloseTypes
<1>3. CASE ch' = s /\ Goto(n, "top") /\ UNCHANGED <<heard, offer>>
  BY <1>1, <1>3 DEF SyncTypes, Goto, Place
<1> QED
  BY <1>2, <1>3, Zenon DEF NotFound

(* What a batch offers follows the hash it was asked for. *)
LEMMA BatchOffered ==
  ASSUME SyncTypes, NEW n \in Node, NEW c \in Chains, Known(n, c)
  PROVE  blocksync(n, c) \in Offers
<1> DEFINE e == IF Len(c) + Batch < Len(chain[n]) THEN Len(c) + Batch ELSE Len(chain[n])
           b == SubSeq(chain[n], Len(c) + 1, e)
<1>1. /\ c \in Seq(Block) /\ Len(c) \in Nat /\ Batch \in Nat /\ MaxHeight \in Nat
      /\ chain[n] \in Seq(Block) /\ Len(chain[n]) \in Nat /\ Len(chain[n]) <= MaxHeight
  BY Heights, ChainsAre, SyncAssumption
<1>2. Len(c) <= Len(chain[n])
  BY DEF Known, IsPrefix
<1>3. e \in Int /\ Len(c) <= e /\ e <= Len(chain[n])
  BY <1>1, <1>2
<1> HIDE DEF e
<1>4. \A i \in (Len(c) + 1)..e : chain[n][i] \in Block
  BY <1>1, <1>3
<1>5. b \in Seq(Block) /\ Len(b) = IF Len(c) + 1 <= e THEN e - (Len(c) + 1) + 1 ELSE 0
  <2>1. Len(c) + 1 \in Int
    BY <1>1
  <2> QED
    BY <1>3, <1>4, <2>1, SubSeqProperties
<1> HIDE DEF b
<1>6. Len(b) = e - Len(c)
  BY <1>1, <1>3, <1>5
<1>7. b \in Chains /\ Len(c) + Len(b) <= MaxHeight
  BY <1>1, <1>3, <1>5, <1>6, ChainsAre
<1>8. blocksync(n, c) = [base |-> c, blocks |-> b]
  BY DEF blocksync, b, e
<1> QED
  BY <1>7, <1>8 DEF Offers

LEMMA LookupTypes ==
  ASSUME SyncTypes, NEW n \in Node, Lookup(n)
  PROVE  SyncTypes'
<1>1. Channels(ch) /\ ch[n] # <<>> /\ Head(ch[n]).kind = "hash"
  BY DEF Lookup, Arrives, SyncTypes
<1>2. UNCHANGED <<chain, events, delays>>
  BY Zenon DEF Lookup, budget
<1>3. PICK c \in Chains : Head(ch[n]).hash = c
  BY <1>1, Arrived, FrameContent
<1>4. /\ Channels(Reply(n, <<Msg("blocknf"), Hash(c)>>))
      /\ Channels(Reply(n, <<Msg("nonewblk")>>)) /\ Channels(Reply(n, <<Msg("blocksfnd")>>))
  <2>1. /\ Stream(<<Msg("blocknf"), Hash(c)>>) /\ Stream(<<Msg("nonewblk")>>)
        /\ Stream(<<Msg("blocksfnd")>>)
    BY HashStream, MsgStream DEF Kind, Commands
  <2> QED
    BY <1>1, <2>1, ReplyType
<1>5. CASE NotFound(n, Reply(n, <<Msg("blocknf"), Hash(c)>>))
  BY <1>2, <1>4, <1>5, NotFoundTypes DEF SyncTypes
<1>6. CASE /\ ch' = Reply(n, <<Msg("nonewblk")>>) /\ Goto(n, "top")
           /\ UNCHANGED <<heard, offer, strikes>>
  BY <1>2, <1>4, <1>6 DEF SyncTypes, Goto, Place
<1>7. CASE /\ Known(n, c) /\ offer' = [offer EXCEPT ![n] = blocksync(n, c)]
           /\ ch' = Reply(n, <<Msg("blocksfnd")>>) /\ Goto(n, "confirm")
           /\ UNCHANGED <<heard, slot, strikes>>
  <2>1. offer' \in [Node -> Offers]
    BY <1>7, BatchOffered DEF SyncTypes
  <2> QED
    BY <1>2, <1>4, <1>7, <2>1 DEF SyncTypes, Goto, Place
<1> QED
  BY <1>3, <1>5, <1>6, <1>7, Zenon DEF Lookup

LEMMA HandTypes ==
  ASSUME SyncTypes, NEW n \in Node, Confirm(n) \/ NoConfirmation(n) \/ BlocksFound(n)
  PROVE  SyncTypes'
<1>1. Channels(ch) /\ offer[n] \in Offers
  BY DEF SyncTypes
<1>2. \A p \in Place : Goto(n, p) => pc' \in [Node -> Place]
  BY DEF SyncTypes, Goto
<1>3. CASE Confirm(n)
  <2>1. /\ ch' = Reply(n, <<Blocks(offer[n])>>) \/ ch' = Take(n)
        /\ ch[n] # <<>> /\ Goto(n, "top")
        /\ offer' = [offer EXCEPT ![n] = NoOffer]
        /\ UNCHANGED <<chain, heard, strikes, events, delays>>
    BY <1>3, Zenon DEF Confirm, budget
  <2>2. Channels(ch)'
    BY <1>1, <2>1, BlocksStream, ReplyType, TakeType
  <2> QED
    BY <1>2, <2>1, <2>2, NoOfferType DEF SyncTypes, Place
<1>4. CASE NoConfirmation(n)
  <2>1. /\ Goto(n, "top") /\ offer' = [offer EXCEPT ![n] = NoOffer]
        /\ delays' = delays \/ (delays < MaxDelays /\ delays' = delays + 1)
        /\ UNCHANGED <<chain, ch, heard, strikes, events>>
    BY <1>4, Zenon DEF NoConfirmation, Quiet
  <2>2. delays' \in 0..MaxDelays
    BY <2>1, SyncAssumption DEF SyncTypes
  <2> QED
    BY <1>2, <2>1, <2>2, NoOfferType DEF SyncTypes, Place
<1>5. CASE BlocksFound(n)
  <2>1. /\ ch[n] # <<>>
        /\ UNCHANGED <<chain, heard, offer, strikes, events, delays>>
        /\ \/ ch' = Take(n) /\ Goto(n, Resume(n))
           \/ ch' = Reply(n, <<Msg("blockscf")>>) /\ Goto(n, "blocks")
           \/ ch' = Reply(n, <<Msg("blocksrj")>>) /\ Goto(n, Resume(n))
    BY <1>5, Zenon DEF BlocksFound, Arrives, budget
  <2>2. Stream(<<Msg("blockscf")>>) /\ Stream(<<Msg("blocksrj")>>)
    BY MsgStream DEF Kind, Commands
  <2>3. Channels(ch)'
    BY <1>1, <2>1, <2>2, ReplyType, TakeType
  <2>4. pc' \in [Node -> Place]
    BY <1>2, <2>1 DEF Resume, Place
  <2> QED
    BY <2>1, <2>3, <2>4 DEF SyncTypes
<1> QED
  BY <1>3, <1>4, <1>5

(* The ledger grows by a batch that follows it, or is replaced by the peer's. *)
LEMMA DigestTypes ==
  ASSUME SyncTypes, NEW n \in Node, digest_block(n)
  PROVE  SyncTypes'
<1>1. /\ Channels(ch) /\ ch[n] # <<>> /\ Head(ch[n]).kind = "blocks"
      /\ UNCHANGED <<events, delays>>
  BY Zenon DEF digest_block, Arrives, SyncTypes, budget
<1>2. PICK o \in Offers : Head(ch[n]).batch = o
  BY <1>1, Arrived, FrameContent
<1>3. CASE /\ busy[n] \/ o.base = chain[n]
           /\ chain' = IF busy[n] THEN chain ELSE [chain EXCEPT ![n] = @ \o o.blocks]
           /\ ch' = Take(n) /\ Goto(n, Resume(n))
           /\ UNCHANGED <<heard, offer, slot, strikes>>
  <2>1. Channels(ch)'
    BY <1>1, <1>3, TakeType
  <2>2. pc' \in [Node -> Place]
    BY <1>3 DEF SyncTypes, Goto, Resume, Place
  <2>3. ASSUME o.base = chain[n] PROVE chain[n] \o o.blocks \in Chains \ {<<>>}
    <3>1. /\ o.blocks \in Seq(Block) /\ Len(o.blocks) \in Nat
          /\ Len(chain[n]) + Len(o.blocks) <= MaxHeight
      BY <2>3, ChainsAre DEF Offers
    <3>2. chain[n] \in Seq(Block) /\ Len(chain[n]) \in 1..MaxHeight /\ MaxHeight \in Nat
      BY Heights, SyncAssumption
    <3> DEFINE d == chain[n] \o o.blocks
    <3>3. d \in Seq(Block) /\ Len(d) = Len(chain[n]) + Len(o.blocks)
      BY <3>1, <3>2, ConcatProperties
    <3>6. PICK k \in 1..MaxHeight, m \in Nat : k + m <= MaxHeight /\ Len(d) = k + m
      BY <3>1, <3>2, <3>3, Zenon
    <3> HIDE DEF d
    <3>4. Len(d) > 0 /\ Len(d) <= MaxHeight
      BY <3>2, <3>6
    <3>5. d # <<>>
      BY <3>4
    <3> QED
      BY <3>3, <3>4, <3>5, ChainsAre DEF d
  <2>4. chain' \in [Node -> Chains \ {<<>>}]
    BY <1>3, <2>3 DEF SyncTypes
  <2> QED
    BY <1>1, <1>3, <2>1, <2>2, <2>4 DEF SyncTypes
<1>4. CASE Rejected(n) /\ UNCHANGED chain
  BY <1>1, <1>4, WarnTypes, CloseTypes DEF SyncTypes, Rejected
<1> QED
  BY <1>2, <1>3, <1>4, Zenon DEF digest_block

LEMMA ForkTypes ==
  ASSUME SyncTypes, NEW n \in Node, blocknf(n)
  PROVE  SyncTypes'
<1>1. /\ Channels(ch) /\ ch[n] # <<>> /\ Head(ch[n]).kind = "blocknf"
      /\ ch' = Take2(n) /\ Goto(n, ResumeFree(n))
      /\ chain' = [chain EXCEPT ![n] = chain[Peer(n)]] \/ chain' = chain
      /\ UNCHANGED <<heard, offer, strikes, events, delays>>
  BY Zenon DEF blocknf, Arrives, SyncTypes, budget
<1>2. Channels(ch)'
  BY <1>1, Take2Type DEF Commands
<1>3. pc' \in [Node -> Place]
  BY <1>1 DEF SyncTypes, Goto, ResumeFree, Place
<1>4. chain' \in [Node -> Chains \ {<<>>}]
  BY <1>1 DEF SyncTypes, Peer, Node
<1> QED
  BY <1>1, <1>2, <1>3, <1>4 DEF SyncTypes

(* Silence, and frames nobody waited for. *)
LEMMA BrokenTypes ==
  ASSUME SyncTypes, NEW n \in Node, Broken(n) \/ NoHash(n) \/ NoBlocks(n)
  PROVE  SyncTypes'
<1>1. /\ UNCHANGED <<chain, events>>
      /\ delays' = delays \/ (delays < MaxDelays /\ delays' = delays + 1)
  BY Zenon DEF Broken, NoHash, NoBlocks, Quiet
<1>2. delays' \in 0..MaxDelays
  BY <1>1, SyncAssumption DEF SyncTypes
<1>3. CASE Broken(n)
  <2>1. Close /\ UNCHANGED strikes
    BY <1>3, Zenon DEF Broken
  <2> QED
    BY <1>1, <1>2, <2>1, CloseTypes DEF SyncTypes
<1>4. CASE NoHash(n)
  <2>1. Stream(<<Msg("blocknf"), Hash(<<>>)>>) /\ Channels(ch)
    BY NoOfferType, HashStream DEF SyncTypes
  <2>2. CASE Unexpected(n) /\ NotFound(n, Reply(n, <<Msg("blocknf"), Hash(<<>>)>>))
    <3>1. Channels(Reply(n, <<Msg("blocknf"), Hash(<<>>)>>))
      BY <2>1, <2>2, ReplyType DEF Unexpected
    <3> QED
      BY <1>1, <1>2, <2>2, <3>1, NotFoundTypes DEF SyncTypes
  <2>3. CASE Close /\ UNCHANGED strikes
    BY <1>1, <1>2, <2>3, CloseTypes DEF SyncTypes
  <2>4. CASE NotFound(n, Say(n, <<Msg("blocknf"), Hash(<<>>)>>))
    <3>1. Channels(Say(n, <<Msg("blocknf"), Hash(<<>>)>>))
      BY <2>1, SayType
    <3> QED
      BY <1>1, <1>2, <2>4, <3>1, NotFoundTypes DEF SyncTypes
  <2> QED
    BY <1>4, <2>2, <2>3, <2>4, Zenon DEF NoHash
<1>5. CASE NoBlocks(n)
  <2>1. CASE /\ ch' = IF ch[n] = <<>> THEN ch ELSE Take(n)
             /\ Goto(n, Resume(n)) /\ UNCHANGED <<heard, offer, slot, strikes>>
    <3>1. Channels(ch)'
      BY <2>1, TakeType DEF SyncTypes
    <3>2. pc' \in [Node -> Place]
      BY <2>1 DEF SyncTypes, Goto, Resume, Place
    <3> QED
      BY <1>1, <1>2, <2>1, <3>1, <3>2 DEF SyncTypes
  <2>2. CASE Rejected(n)
    BY <1>1, <1>2, <2>2, WarnTypes, CloseTypes DEF SyncTypes, Rejected
  <2> QED
    BY <1>5, <2>1, <2>2, Zenon DEF NoBlocks
<1> QED
  BY <1>3, <1>4, <1>5

LEMMA EnvironmentTypes ==
  ASSUME SyncTypes, Environment
  PROVE  SyncTypes'
<1>1. UNCHANGED <<pc, ch, heard, offer, strikes, delays>>
  BY Zenon DEF Environment
<1>2. PICK n \in Node : Others(n)
  BY DEF Environment
<1>3. chain[n] \in Seq(Block) /\ Len(chain[n]) \in 1..MaxHeight /\ MaxHeight \in Nat
  BY Heights, SyncAssumption
<1>4. ASSUME NEW d \in Chains \ {<<>>}, chain' = [chain EXCEPT ![n] = d]
      PROVE  chain' \in [Node -> Chains \ {<<>>}]
  BY <1>4 DEF SyncTypes
<1>5. CASE events < MaxEvents /\ events' = events + 1 /\ UNCHANGED chain
  BY <1>1, <1>5, SyncAssumption DEF SyncTypes
<1>6. ASSUME Len(chain[n]) < MaxHeight, NEW b \in Block, UNCHANGED events,
             chain' = [chain EXCEPT ![n] = Append(@, b)]
      PROVE  SyncTypes'
  <2> DEFINE d == Append(chain[n], b)
  <2>1. d \in Seq(Block) /\ d # <<>> /\ Len(d) = Len(chain[n]) + 1
    BY <1>3, AppendProperties
  <2> HIDE DEF d
  <2>2. d \in Chains \ {<<>>}
    BY <1>3, <1>6, <2>1, ChainsAre
  <2>3. chain' \in [Node -> Chains \ {<<>>}]
    BY <1>4, <1>6, <2>2 DEF d
  <2> QED
    BY <1>1, <1>6, <2>3 DEF SyncTypes
<1>7. CASE Len(chain[n]) > 1 /\ chain' = [chain EXCEPT ![n] = Front(@)] /\ UNCHANGED events
  <2> DEFINE d == Front(chain[n])
  <2>1. d \in Seq(Block) /\ Len(d) = Len(chain[n]) - 1
    BY <1>3, <1>7 DEF Front
  <2> HIDE DEF d
  <2>2. d \in Chains \ {<<>>}
    BY <1>3, <1>7, <2>1, ChainsAre
  <2>3. chain' \in [Node -> Chains \ {<<>>}]
    BY <1>4, <1>7, <2>2 DEF d
  <2> QED
    BY <1>1, <1>7, <2>3 DEF SyncTypes
<1> QED
  BY <1>2, <1>5, <1>6, <1>7, Zenon DEF Others

LEMMA NextTypes ==
  ASSUME SyncTypes, [Next]_vars
  PROVE  SyncTypes'
<1>1. CASE Exchange
  <2>1. ASSUME NEW n \in Node, LoopEnds(n)
        PROVE  SyncTypes'
    BY <2>1, HandshakeTypes DEF Node
  <2> QED
    BY <1>1, <2>1, HandshakeTypes, ChatTypes, CompareTypes, LookupTypes, HandTypes, DigestTypes,
       ForkTypes, BrokenTypes, Zenon DEF Exchange
<1>2. CASE UNCHANGED vars
  BY <1>2 DEF vars, SyncTypes, Channels, Followed
<1> QED
  BY <1>1, <1>2, EnvironmentTypes DEF Next

-----------------------------------------------------------------------------
(* Whose turn it is, from where the sides are and what is under way. *)
Lead(s) == IF s = <<>> THEN "none" ELSE Head(s).kind

LEMMA BoxedLead ==
  ASSUME NEW po, NEW pi, NEW co, NEW ci, Boxed(po, pi, co, ci)
  PROVE  /\ pc["out"] = po /\ pc["in"] = pi
         /\ Lead(ch["out"]) = Lead(co) /\ Lead(ch["in"]) = Lead(ci)
  BY DEF Boxed

LEMMA Leads ==
  /\ Lead(None) = "none"
  /\ \A k : Lead(One(Msg(k))) = k
  /\ \A k, x : Lead(Two(Msg(k), x)) = k
  /\ \A k, x, y : Lead(Three(Msg(k), x, y)) = k
  /\ \A h : Lead(One(Height(h))) = "height"
  /\ \A h, x : Lead(Two(Height(h), x)) = "height"
  /\ \A c : Lead(One(Hash(c))) = "hash"
  /\ \A o : Lead(One(Blocks(o))) = "blocks"
  BY DEF Lead, Msg, Height, Hash, Blocks, None, One, Two, Three

LEMMA LeadArrives ==
  ASSUME SyncTypes, NEW n \in Node
  PROVE  /\ ch[n] = <<>> <=> Lead(ch[n]) = "none"
         /\ ch[n] # <<>> => Head(ch[n]).kind = Lead(ch[n])
         /\ \A k : Arrives(n, k) => Lead(ch[n]) = k
<1>1. ASSUME NEW f \in Frame PROVE f.kind # "none"
  <2>1. ASSUME NEW k \in Kind, f = Msg(k) PROVE f.kind # "none"
    BY <2>1 DEF Msg, Kind
  <2> QED
    BY <2>1 DEF Frame, Height, Hash, Blocks
<1> QED
  BY <1>1, Arrived DEF Lead, Arrives

(* What each side gets to see, where it waits. *)
Serves(n, p, k) ==
    CASE p = "ok" -> k \in {"none", "ok"}
      [] p = "version" -> k \in {"none", "ourversion"}
      [] p = "height" -> k \in {"none", "height"}
      [] p = "hash" -> k \in {"none", "hash"}
      [] p = "blocks" -> k \in {"none", "blocks"}
      [] p = "pool" -> k \in {"none", "pool"}
      [] p = "confirm" -> k \in {"none", "blockscf", "blocksrj"}
      [] p = "top" /\ n = "out" ->
           k \in {"none", "sync", "peers", "nonewblk", "blocknf", "blocksfnd"}
      [] p = "top" /\ n = "in" ->
           k \in {"none", "version", "getversion", "hello", "sendsync", "blockheight", "blocksfnd",
                  "blocknf", "nonewblk", "mempool"}
      [] OTHER -> TRUE

LEMMA Served ==
  ASSUME Turn
  PROVE  Serves("out", pc["out"], Lead(ch["out"])) /\ Serves("in", pc["in"], Lead(ch["in"]))
<1>1. Opening => Serves("out", pc["out"], Lead(ch["out"]))
  BY BoxedLead, Leads DEF Opening, Serves
<1>2. Between => Serves("out", pc["out"], Lead(ch["out"]))
  BY BoxedLead, Leads DEF Between, Serves
<1>3. Comparing => Serves("out", pc["out"], Lead(ch["out"]))
  BY BoxedLead, Leads DEF Comparing, Serves
<1>4. Handing => Serves("out", pc["out"], Lead(ch["out"]))
  BY BoxedLead, Leads DEF Handing, Serves
<1>5. Opening => Serves("in", pc["in"], Lead(ch["in"]))
  BY BoxedLead, Leads DEF Opening, Serves
<1>6. Between => Serves("in", pc["in"], Lead(ch["in"]))
  BY BoxedLead, Leads DEF Between, Serves
<1>7. Comparing => Serves("in", pc["in"], Lead(ch["in"]))
  BY BoxedLead, Leads DEF Comparing, Serves
<1>8. Handing => Serves("in", pc["in"], Lead(ch["in"]))
  BY BoxedLead, Leads DEF Handing, Serves
<1> QED
  BY <1>1, <1>2, <1>3, <1>4, <1>5, <1>6, <1>7, <1>8 DEF Turn

LEMMA NothingUnexpected ==
  ASSUME SyncTypes, Turn, NEW n \in Node
  PROVE  /\ ~Unexpected(n)
         /\ pc[n] = "confirm" /\ ch[n] # <<>> => Head(ch[n]).kind \in Accepted
<1>1. Serves(n, pc[n], Lead(ch[n]))
  BY Served DEF Node
<1>2. Receiving(n) /\ pc[n] # "confirm" /\ Serves(n, pc[n], Lead(ch[n]))
        => Lead(ch[n]) \in Expected(n) \cup {"none"}
  BY DEF Node, Receiving, Serves, Expected
<1>3. pc[n] = "confirm" /\ Serves(n, pc[n], Lead(ch[n])) => Lead(ch[n]) \in Accepted \cup {"none"}
  BY DEF Serves, Accepted
<1> QED
  BY <1>1, <1>2, <1>3, LeadArrives DEF Unexpected

LEMMA NobodySilent ==
  ASSUME SyncTypes, Turn, Silent
  PROVE  pc["out"] = "closed" /\ pc["in"] = "closed"
<1>1. Lead(ch["out"]) = "none" /\ Lead(ch["in"]) = "none"
  BY LeadArrives DEF Silent, Node
<1>2. /\ pc["out"] \notin {"compare", "again", "says", "sayssync", "sendsync"}
      /\ pc["in"] \notin {"compare", "again", "says", "sayssync", "sendsync"}
  BY DEF Silent, Receiving, Idle, Node
<1>3. Opening => pc["out"] = "closed" /\ pc["in"] = "closed"
  BY <1>1, BoxedLead, Leads DEF Opening
<1>4. ~Between
  BY <1>1, <1>2, BoxedLead, Leads DEF Between
<1>5. ~Comparing
  BY <1>1, <1>2, BoxedLead, Leads DEF Comparing
<1>6. ~Handing
  BY <1>1, <1>2, BoxedLead, Leads DEF Handing
<1> QED
  BY <1>3, <1>4, <1>5, <1>6 DEF Turn

LEMMA NotQuiet ==
  ASSUME SyncTypes, Turn, NEW n \in Node, pc[n] # "closed", delays = 0, delays' = 0
  PROVE  ~Quiet(n)
<1>1. ~Silent
  BY NobodySilent DEF Node
<1>2. delays' # delays + 1
  OBVIOUS
<1> QED
  BY <1>1, <1>2, Zenon DEF Quiet

LEMMA Whose ==
  ASSUME Turn
  PROVE  /\ pc["out"] = "closed" =>
                Boxed("closed", "closed", None, None)
         /\ pc["in"] = "top" /\ Lead(ch["in"]) = "version" =>
                Boxed("ok", "top", None, Two(Msg("version"), Msg("ourversion")))
         /\ pc["out"] = "ok" /\ Lead(ch["out"]) = "ok" =>
                Boxed("ok", "top", One(Msg("ok")), None)
         /\ pc["in"] = "top" /\ Lead(ch["in"]) = "getversion" =>
                Boxed("version", "top", None, One(Msg("getversion")))
         /\ pc["out"] = "version" /\ Lead(ch["out"]) = "ourversion" =>
                Boxed("version", "top", One(Msg("ourversion")), None)
         /\ pc["in"] = "top" /\ Lead(ch["in"]) = "hello" =>
                Boxed("top", "top", None, One(Msg("hello")))
         /\ pc["out"] = "top" /\ Lead(ch["out"]) = "peers" =>
                \/ Boxed("top", "sayssync", Two(Msg("peers"), Msg("peerlist")), None)
                \/ Boxed("top", "top", Three(Msg("peers"), Msg("peerlist"), Msg("sync")), None)
         /\ pc["in"] = "sayssync" =>
                \/ Boxed("top", "sayssync", Two(Msg("peers"), Msg("peerlist")), None)
                \/ Boxed("top", "sayssync", None, None)
         /\ pc["in"] = "says" =>
                \/ Boxed("top", "says", None, None)
                \/ Boxed("confirm", "says", One(Msg("blocksrj")), None)
         /\ pc["out"] = "sendsync" =>
                \/ Boxed("sendsync", "top", None, None)
                \/ Boxed("sendsync", "confirm", None, One(Msg("blocksrj")))
         /\ pc["in"] = "top" /\ Lead(ch["in"]) = "sendsync" =>
                Boxed("top", "top", None, One(Msg("sendsync")))
         /\ pc["in"] = "top" /\ Lead(ch["in"]) = "nonewblk" =>
                Boxed("top", "top", None, One(Msg("nonewblk")))
         /\ pc["out"] = "top" /\ Lead(ch["out"]) = "nonewblk" =>
                Boxed("top", "top", One(Msg("nonewblk")), None)
         /\ pc["in"] = "top" /\ Lead(ch["in"]) = "mempool" =>
                Boxed("pool", "top", None, Two(Msg("mempool"), Msg("pool")))
         /\ pc["out"] = "pool" /\ Lead(ch["out"]) = "pool" =>
                Boxed("pool", "top", One(Msg("pool")), None)
         /\ pc["in"] = "top" /\ Lead(ch["in"]) = "blocknf" =>
                \E c \in Chains : Boxed("top", "top", None, Two(Msg("blocknf"), Hash(c)))
         /\ pc["out"] = "top" /\ Lead(ch["out"]) = "blocknf" =>
                \E c \in Chains : Boxed("top", "top", Two(Msg("blocknf"), Hash(c)), None)
         /\ pc["out"] = "top" /\ Lead(ch["out"]) = "sync" =>
                Boxed("top", "top", One(Msg("sync")), None)
         /\ pc["in"] = "top" /\ Lead(ch["in"]) = "blockheight" =>
                Boxed("height", "top", None, Two(Msg("blockheight"), Height(hdd_block("out"))))
         /\ pc["out"] = "hash" /\ Lead(ch["out"]) = "hash" =>
                \E c \in Chains : Boxed("hash", "top", One(Hash(c)), None)
         /\ pc["in"] = "hash" /\ Lead(ch["in"]) = "hash" =>
                \E c \in Chains : Boxed("top", "hash", None, One(Hash(c)))
         /\ pc["in"] = "top" /\ Lead(ch["in"]) = "blocksfnd" =>
                Boxed("confirm", "top", None, One(Msg("blocksfnd")))
         /\ pc["out"] = "top" /\ Lead(ch["out"]) = "blocksfnd" =>
                Boxed("top", "confirm", One(Msg("blocksfnd")), None)
         /\ pc["out"] = "confirm" /\ Lead(ch["out"]) = "blockscf" =>
                Boxed("confirm", "blocks", One(Msg("blockscf")), None)
         /\ pc["in"] = "confirm" /\ Lead(ch["in"]) = "blockscf" =>
                Boxed("blocks", "confirm", None, One(Msg("blockscf")))
         /\ pc["out"] = "confirm" /\ Lead(ch["out"]) = "blocksrj" =>
                \/ Boxed("confirm", "says", One(Msg("blocksrj")), None)
                \/ Boxed("confirm", "top", Two(Msg("blocksrj"), Msg("sync")), None)
         /\ pc["in"] = "confirm" /\ Lead(ch["in"]) = "blocksrj" =>
                \/ Boxed("sendsync", "confirm", None, One(Msg("blocksrj")))
                \/ Boxed("top", "confirm", None, Two(Msg("blocksrj"), Msg("sendsync")))
         /\ pc["in"] = "blocks" /\ Lead(ch["in"]) = "blocks" =>
                \E o \in Offers : Boxed("top", "blocks", None, One(Blocks(o)))
         /\ pc["out"] = "blocks" /\ Lead(ch["out"]) = "blocks" =>
                \E o \in Offers : Boxed("blocks", "top", One(Blocks(o)), None)
<1> USE BoxedLead, Leads DEF Turn, Opening, Between, Comparing, Handing
<1>1. pc["out"] = "closed" =>
          Boxed("closed", "closed", None, None)
  OBVIOUS
<1>2. pc["in"] = "top" /\ Lead(ch["in"]) = "version" =>
          Boxed("ok", "top", None, Two(Msg("version"), Msg("ourversion")))
  OBVIOUS
<1>3. pc["out"] = "ok" /\ Lead(ch["out"]) = "ok" =>
          Boxed("ok", "top", One(Msg("ok")), None)
  OBVIOUS
<1>4. pc["in"] = "top" /\ Lead(ch["in"]) = "getversion" =>
          Boxed("version", "top", None, One(Msg("getversion")))
  OBVIOUS
<1>5. pc["out"] = "version" /\ Lead(ch["out"]) = "ourversion" =>
          Boxed("version", "top", One(Msg("ourversion")), None)
  OBVIOUS
<1>6. pc["in"] = "top" /\ Lead(ch["in"]) = "hello" =>
          Boxed("top", "top", None, One(Msg("hello")))
  OBVIOUS
<1>7. pc["out"] = "top" /\ Lead(ch["out"]) = "peers" =>
          \/ Boxed("top", "sayssync", Two(Msg("peers"), Msg("peerlist")), None)
          \/ Boxed("top", "top", Three(Msg("peers"), Msg("peerlist"), Msg("sync")), None)
  OBVIOUS
<1>8. pc["in"] = "sayssync" =>
          \/ Boxed("top", "sayssync", Two(Msg("peers"), Msg("peerlist")), None)
          \/ Boxed("top", "sayssync", None, None)
  OBVIOUS
<1>29. pc["in"] = "says" =>
          \/ Boxed("top", "says", None, None)
          \/ Boxed("confirm", "says", One(Msg("blocksrj")), None)
  OBVIOUS
<1>9. pc["out"] = "sendsync" =>
          \/ Boxed("sendsync", "top", None, None)
          \/ Boxed("sendsync", "confirm", None, One(Msg("blocksrj")))
  OBVIOUS
<1>10. pc["in"] = "top" /\ Lead(ch["in"]) = "sendsync" =>
          Boxed("top", "top", None, One(Msg("sendsync")))
  OBVIOUS
<1>11. pc["in"] = "top" /\ Lead(ch["in"]) = "nonewblk" =>
          Boxed("top", "top", None, One(Msg("nonewblk")))
  OBVIOUS
<1>12. pc["out"] = "top" /\ Lead(ch["out"]) = "nonewblk" =>
          Boxed("top", "top", One(Msg("nonewblk")), None)
  OBVIOUS
<1>13. pc["in"] = "top" /\ Lead(ch["in"]) = "mempool" =>
          Boxed("pool", "top", None, Two(Msg("mempool"), Msg("pool")))
  OBVIOUS
<1>14. pc["out"] = "pool" /\ Lead(ch["out"]) = "pool" =>
          Boxed("pool", "top", One(Msg("pool")), None)
  OBVIOUS
<1>15. pc["in"] = "top" /\ Lead(ch["in"]) = "blocknf" =>
          \E c \in Chains : Boxed("top", "top", None, Two(Msg("blocknf"), Hash(c)))
  OBVIOUS
<1>16. pc["out"] = "top" /\ Lead(ch["out"]) = "blocknf" =>
          \E c \in Chains : Boxed("top", "top", Two(Msg("blocknf"), Hash(c)), None)
  OBVIOUS
<1>17. pc["out"] = "top" /\ Lead(ch["out"]) = "sync" =>
          Boxed("top", "top", One(Msg("sync")), None)
  OBVIOUS
<1>18. pc["in"] = "top" /\ Lead(ch["in"]) = "blockheight" =>
          Boxed("height", "top", None, Two(Msg("blockheight"), Height(hdd_block("out"))))
  OBVIOUS
<1>19. pc["out"] = "hash" /\ Lead(ch["out"]) = "hash" =>
          \E c \in Chains : Boxed("hash", "top", One(Hash(c)), None)
  OBVIOUS
<1>20. pc["in"] = "hash" /\ Lead(ch["in"]) = "hash" =>
          \E c \in Chains : Boxed("top", "hash", None, One(Hash(c)))
  OBVIOUS
<1>21. pc["in"] = "top" /\ Lead(ch["in"]) = "blocksfnd" =>
          Boxed("confirm", "top", None, One(Msg("blocksfnd")))
  OBVIOUS
<1>22. pc["out"] = "top" /\ Lead(ch["out"]) = "blocksfnd" =>
          Boxed("top", "confirm", One(Msg("blocksfnd")), None)
  OBVIOUS
<1>23. pc["out"] = "confirm" /\ Lead(ch["out"]) = "blockscf" =>
          Boxed("confirm", "blocks", One(Msg("blockscf")), None)
  OBVIOUS
<1>24. pc["in"] = "confirm" /\ Lead(ch["in"]) = "blockscf" =>
          Boxed("blocks", "confirm", None, One(Msg("blockscf")))
  OBVIOUS
<1>25. pc["out"] = "confirm" /\ Lead(ch["out"]) = "blocksrj" =>
          \/ Boxed("confirm", "says", One(Msg("blocksrj")), None)
          \/ Boxed("confirm", "top", Two(Msg("blocksrj"), Msg("sync")), None)
  OBVIOUS
<1>26. pc["in"] = "confirm" /\ Lead(ch["in"]) = "blocksrj" =>
          \/ Boxed("sendsync", "confirm", None, One(Msg("blocksrj")))
          \/ Boxed("top", "confirm", None, Two(Msg("blocksrj"), Msg("sendsync")))
  OBVIOUS
<1>27. pc["in"] = "blocks" /\ Lead(ch["in"]) = "blocks" =>
          \E o \in Offers : Boxed("top", "blocks", None, One(Blocks(o)))
  OBVIOUS
<1>28. pc["out"] = "blocks" /\ Lead(ch["out"]) = "blocks" =>
          \E o \in Offers : Boxed("blocks", "top", One(Blocks(o)), None)
  OBVIOUS
<1> QED
  BY <1>1, <1>2, <1>3, <1>4, <1>5, <1>6, <1>7, <1>8, <1>9, <1>10, <1>11, <1>12, <1>13,
     <1>14, <1>15, <1>16, <1>17, <1>18, <1>19, <1>20, <1>21, <1>22, <1>23, <1>24, <1>25,
     <1>26, <1>27, <1>28, <1>29, Zenon

(* How a step moves the frames. *)
Rest(s) == Tail(s)
Plus(s, r) == s \o r

After(po, pi, co, ci) ==
    /\ pc'["out"] = po /\ pc'["in"] = pi
    /\ ch'["out"] = co /\ ch'["in"] = ci

LEMMA Moved ==
  ASSUME SyncTypes, NEW po, NEW pi, NEW co, NEW ci, Boxed(po, pi, co, ci), NEW p
  PROVE  /\ Goto("out", p) /\ ch' = Take("out") => After(p, pi, Rest(co), ci)
         /\ Goto("out", p) /\ ch' = Take2("out") => After(p, pi, Rest(Rest(co)), ci)
         /\ Goto("in", p) /\ ch' = Take("in") => After(po, p, co, Rest(ci))
         /\ Goto("in", p) /\ ch' = Take2("in") => After(po, p, co, Rest(Rest(ci)))
         /\ Goto("in", p) /\ UNCHANGED ch => After(po, p, co, ci)
         /\ Goto("out", p) /\ UNCHANGED ch => After(p, pi, co, ci)
         /\ UNCHANGED pc /\ ch' = Take2("out") => After(po, pi, Rest(Rest(co)), ci)
<1>1. /\ pc \in [Node -> Place] /\ DOMAIN ch = Node
      /\ pc["out"] = po /\ pc["in"] = pi /\ ch["out"] = co /\ ch["in"] = ci
  BY DEF SyncTypes, Channels, Boxed
<1> USE DEF Node, Peer, After, Goto
<1>2. /\ ch' = Take("out") => ch'["out"] = Rest(co) /\ ch'["in"] = ci
      /\ ch' = Take2("out") => ch'["out"] = Rest(Rest(co)) /\ ch'["in"] = ci
      /\ ch' = Take("in") => ch'["out"] = co /\ ch'["in"] = Rest(ci)
      /\ ch' = Take2("in") => ch'["out"] = co /\ ch'["in"] = Rest(Rest(ci))
  BY <1>1 DEF Take, Take2, Rest
<1>3. /\ Goto("out", p) => pc'["out"] = p /\ pc'["in"] = pi
      /\ Goto("in", p) => pc'["out"] = po /\ pc'["in"] = p
      /\ UNCHANGED pc => pc'["out"] = po /\ pc'["in"] = pi
  BY <1>1
<1>4. UNCHANGED ch => ch'["out"] = co /\ ch'["in"] = ci
  BY <1>1
<1> HIDE DEF Goto
<1> QED
  BY <1>2, <1>3, <1>4, Zenon

LEMMA Answered ==
  ASSUME SyncTypes, NEW po, NEW pi, NEW co, NEW ci, Boxed(po, pi, co, ci), NEW p, NEW ms
  PROVE  /\ Goto("out", p) /\ ch' = Reply("out", ms) => After(p, pi, Rest(co), Plus(ci, ms))
         /\ Goto("out", p) /\ ch' = Say("out", ms) => After(p, pi, co, Plus(ci, ms))
         /\ Goto("in", p) /\ ch' = Reply("in", ms) => After(po, p, Plus(co, ms), Rest(ci))
         /\ Goto("in", p) /\ ch' = Reply2("in", ms) => After(po, p, Plus(co, ms), Rest(Rest(ci)))
         /\ Goto("in", p) /\ ch' = Say("in", ms) => After(po, p, Plus(co, ms), ci)
         /\ UNCHANGED pc /\ ch' = Reply("in", ms) => After(po, pi, Plus(co, ms), Rest(ci))
         /\ UNCHANGED pc /\ ch' = Reply2("in", ms) => After(po, pi, Plus(co, ms), Rest(Rest(ci)))
<1>1. /\ pc \in [Node -> Place] /\ DOMAIN ch = Node
      /\ pc["out"] = po /\ pc["in"] = pi /\ ch["out"] = co /\ ch["in"] = ci
  BY DEF SyncTypes, Channels, Boxed
<1> USE DEF Node, Peer, After, Goto
<1>2. /\ ch' = Reply("out", ms) => ch'["out"] = Rest(co) /\ ch'["in"] = Plus(ci, ms)
      /\ ch' = Say("out", ms) => ch'["out"] = co /\ ch'["in"] = Plus(ci, ms)
      /\ ch' = Reply("in", ms) => ch'["out"] = Plus(co, ms) /\ ch'["in"] = Rest(ci)
      /\ ch' = Reply2("in", ms) => ch'["out"] = Plus(co, ms) /\ ch'["in"] = Rest(Rest(ci))
      /\ ch' = Say("in", ms) => ch'["out"] = Plus(co, ms) /\ ch'["in"] = ci
  BY <1>1 DEF Reply, Reply2, Say, Rest, Plus
<1>3. /\ Goto("out", p) => pc'["out"] = p /\ pc'["in"] = pi
      /\ Goto("in", p) => pc'["out"] = po /\ pc'["in"] = p
      /\ UNCHANGED pc => pc'["out"] = po /\ pc'["in"] = pi
  BY <1>1
<1> HIDE DEF Goto
<1> QED
  BY <1>2, <1>3, Zenon

LEMMA Frames ==
  /\ \A a : Rest(One(a)) = None
  /\ \A a, b : Rest(Two(a, b)) = One(b)
  /\ \A a, b, c : Rest(Three(a, b, c)) = Two(b, c)
  /\ \A a : Plus(None, One(a)) = One(a)
  /\ \A a, b : Plus(None, Two(a, b)) = Two(a, b)
  /\ \A a, b : Plus(One(a), One(b)) = Two(a, b)
  /\ \A a, b, c : Plus(Two(a, b), One(c)) = Three(a, b, c)
<1>1. ASSUME NEW a, NEW b, NEW c
      PROVE  /\ Rest(One(a)) = None /\ Rest(Two(a, b)) = One(b) /\ Rest(Three(a, b, c)) = Two(b, c)
             /\ Plus(None, One(a)) = One(a) /\ Plus(None, Two(a, b)) = Two(a, b)
             /\ Plus(One(a), One(b)) = Two(a, b) /\ Plus(Two(a, b), One(c)) = Three(a, b, c)
  <2>1. Tail(<<a>>) = <<>> /\ Tail(<<a, b>>) = <<b>> /\ Tail(<<a, b, c>>) = <<b, c>>
    BY Shift
  <2>2. /\ <<>> \o <<a>> = <<a>> /\ <<>> \o <<a, b>> = <<a, b>>
        /\ <<a>> \o <<b>> = <<a, b>> /\ <<a, b>> \o <<c>> = <<a, b, c>>
    BY Joined
  <2> QED
    BY <2>1, <2>2, Zenon DEF None, One, Two, Three, Rest, Plus
<1>2. \A a : Rest(One(a)) = None /\ Plus(None, One(a)) = One(a)
  BY <1>1, Zenon
<1>3. \A a, b : /\ Rest(Two(a, b)) = One(b) /\ Plus(None, Two(a, b)) = Two(a, b)
                /\ Plus(One(a), One(b)) = Two(a, b)
  BY <1>1, Zenon
<1>4. \A a, b, c : Rest(Three(a, b, c)) = Two(b, c) /\ Plus(Two(a, b), One(c)) = Three(a, b, c)
  BY <1>1, SMT
<1> QED
  BY <1>2, <1>3, <1>4

-----------------------------------------------------------------------------
(* Steps hand the turn over. *)
LEMMA CloseTurn ==
  ASSUME Close
  PROVE  Turn'
<1>1. After("closed", "closed", None, None)
  BY DEF Close, Closed, Idle, Node, After, None
<1> QED
  BY <1>1, Zenon DEF After, Boxed, Opening, Turn

LEMMA OpeningTurn ==
  ASSUME SyncTypes, Turn, compatible, Dial \/ Version \/ Handshake
  PROVE  Turn'
<1> USE DEF Node
<1>1. CASE Dial
  <2>1. /\ pc' = [out |-> "ok", in |-> "top"]
        /\ ch' = [out |-> None, in |-> Two(Msg("version"), Msg("ourversion"))]
    BY <1>1, Zenon DEF Dial, None, Two
  <2>2. After("ok", "top", None, Two(Msg("version"), Msg("ourversion")))
    BY <2>1 DEF After
  <2> QED
    BY <2>2, Zenon DEF After, Boxed, Opening, Turn
<1>2. CASE Version
  <2>1. /\ pc["in"] = "top" /\ Arrives("in", "version")
        /\ ch' = Reply2("in", One(Msg("ok"))) /\ UNCHANGED pc
    BY <1>2, Zenon DEF Version, AtTop, One
  <2>2. Boxed("ok", "top", None, Two(Msg("version"), Msg("ourversion")))
    BY <2>1, LeadArrives, Whose
  <2>3. After("ok", "top", One(Msg("ok")), None)
    BY <2>1, <2>2, Answered, Frames
  <2> QED
    BY <2>3, Zenon DEF After, Boxed, Opening, Turn
<1>3. CASE /\ pc["out"] = "ok" /\ Arrives("out", "ok")
           /\ ch' = Reply("out", <<Msg("getversion")>>) /\ Goto("out", "version")
  <2>1. ch' = Reply("out", One(Msg("getversion")))
    BY <1>3, Zenon DEF One
  <2>2. Boxed("ok", "top", One(Msg("ok")), None)
    BY <1>3, LeadArrives, Whose
  <2>3. After("version", "top", None, One(Msg("getversion")))
    BY <1>3, <2>1, <2>2, Answered, Frames
  <2> QED
    BY <2>3, Zenon DEF After, Boxed, Opening, Turn
<1>4. CASE /\ AtTop("in") /\ Arrives("in", "getversion")
           /\ ch' = Reply("in", <<Msg("ourversion")>>) /\ UNCHANGED pc
  <2>1. ch' = Reply("in", One(Msg("ourversion"))) /\ pc["in"] = "top"
    BY <1>4, Zenon DEF One, AtTop
  <2>2. Boxed("version", "top", None, One(Msg("getversion")))
    BY <1>4, <2>1, LeadArrives, Whose
  <2>3. After("version", "top", One(Msg("ourversion")), None)
    BY <1>4, <2>1, <2>2, Answered, Frames
  <2> QED
    BY <2>3, Zenon DEF After, Boxed, Opening, Turn
<1>5. CASE /\ pc["out"] = "version" /\ Arrives("out", "ourversion")
           /\ ch' = Reply("out", <<Msg("hello")>>) /\ Goto("out", "top")
  <2>1. ch' = Reply("out", One(Msg("hello")))
    BY <1>5, Zenon DEF One
  <2>2. Boxed("version", "top", One(Msg("ourversion")), None)
    BY <1>5, LeadArrives, Whose
  <2>3. After("top", "top", None, One(Msg("hello")))
    BY <1>5, <2>1, <2>2, Answered, Frames
  <2> QED
    BY <2>3, Zenon DEF After, Boxed, Opening, Turn
<1>6. CASE /\ AtTop("in") /\ Arrives("in", "hello")
           /\ ch' = Reply("in", <<Msg("peers"), Msg("peerlist")>>) /\ Goto("in", "sayssync")
  <2>1. ch' = Reply("in", Two(Msg("peers"), Msg("peerlist"))) /\ pc["in"] = "top"
    BY <1>6, Zenon DEF Two, AtTop
  <2>2. Boxed("top", "top", None, One(Msg("hello")))
    BY <1>6, <2>1, LeadArrives, Whose
  <2>3. After("top", "sayssync", Two(Msg("peers"), Msg("peerlist")), None)
    BY <1>6, <2>1, <2>2, Answered, Frames
  <2> QED
    BY <2>3, Zenon DEF After, Boxed, Opening, Turn
<1>7. CASE AtTop("out") /\ Arrives("out", "peers") /\ ch' = Take2("out") /\ UNCHANGED pc
  <2>1. pc["out"] = "top"
    BY <1>7 DEF AtTop
  <2>2. \/ Boxed("top", "sayssync", Two(Msg("peers"), Msg("peerlist")), None)
        \/ Boxed("top", "top", Three(Msg("peers"), Msg("peerlist"), Msg("sync")), None)
    BY <1>7, <2>1, LeadArrives, Whose
  <2>3. After("top", "sayssync", None, None) \/ After("top", "top", One(Msg("sync")), None)
    BY <1>7, <2>2, Moved, Frames
  <2> QED
    BY <2>3, Zenon DEF After, Boxed, Between, Turn
<1> QED
  BY <1>1, <1>2, <1>3, <1>4, <1>5, <1>6, <1>7, Zenon DEF Handshake

LEMMA BetweenTurn ==
  ASSUME SyncTypes, Turn, SaysSync \/ sendsync \/ HandlerSync \/ Mempools
  PROVE  Turn'
<1> USE DEF Node
<1>1. CASE SaysSync
  <2>1. /\ pc["in"] \in {"says", "sayssync"}
        /\ ch' = Say("in", One(Msg("sync"))) /\ Goto("in", "top")
    BY <1>1, Zenon DEF SaysSync, One
  <2>2. \/ Boxed("top", "sayssync", Two(Msg("peers"), Msg("peerlist")), None)
        \/ Boxed("top", "sayssync", None, None)
        \/ Boxed("top", "says", None, None)
        \/ Boxed("confirm", "says", One(Msg("blocksrj")), None)
    BY <2>1, Whose
  <2>3. \/ After("top", "top", Three(Msg("peers"), Msg("peerlist"), Msg("sync")), None)
        \/ After("top", "top", One(Msg("sync")), None)
        \/ After("confirm", "top", Two(Msg("blocksrj"), Msg("sync")), None)
    BY <2>1, <2>2, Answered, Frames
  <2> QED
    BY <2>3, Zenon DEF After, Boxed, Opening, Between, Handing, Turn
<1>2. CASE sendsync
  <2>1. pc["out"] = "sendsync" /\ ch' = Say("out", One(Msg("sendsync"))) /\ Goto("out", "top")
    BY <1>2, Zenon DEF sendsync, One
  <2>2. \/ Boxed("sendsync", "top", None, None)
        \/ Boxed("sendsync", "confirm", None, One(Msg("blocksrj")))
    BY <2>1, Whose
  <2>3. \/ After("top", "top", None, One(Msg("sendsync")))
        \/ After("top", "confirm", None, Two(Msg("blocksrj"), Msg("sendsync")))
    BY <2>1, <2>2, Answered, Frames
  <2> QED
    BY <2>3, Zenon DEF After, Boxed, Between, Handing, Turn
<1>3. CASE HandlerSync
  <2>1. /\ pc["in"] = "top" /\ ch' = Take("in")
        /\ Goto("in", "sayssync") \/ Goto("in", "says")
        /\ Arrives("in", "sendsync") \/ Arrives("in", "nonewblk")
    BY <1>3, Zenon DEF HandlerSync, AtTop
  <2>2. \/ Boxed("top", "top", None, One(Msg("sendsync")))
        \/ Boxed("top", "top", None, One(Msg("nonewblk")))
    BY <2>1, LeadArrives, Whose
  <2>3. After("top", "sayssync", None, None) \/ After("top", "says", None, None)
    BY <2>1, <2>2, Moved, Frames
  <2> QED
    BY <2>3, Zenon DEF After, Boxed, Between, Turn
<1>4. CASE AtTop("out") /\ Arrives("out", "nonewblk")
             /\ \/ ch' = Reply("out", <<Msg("mempool"), Msg("pool")>>) /\ Goto("out", "pool")
                \/ ch' = Take("out") /\ Goto("out", "sendsync")
  <2>1. /\ pc["out"] = "top"
        /\ \/ ch' = Reply("out", Two(Msg("mempool"), Msg("pool"))) /\ Goto("out", "pool")
           \/ ch' = Take("out") /\ Goto("out", "sendsync")
    BY <1>4, Zenon DEF AtTop, Two
  <2>2. Boxed("top", "top", One(Msg("nonewblk")), None)
    BY <1>4, <2>1, LeadArrives, Whose
  <2>3. \/ After("pool", "top", None, Two(Msg("mempool"), Msg("pool")))
        \/ After("sendsync", "top", None, None)
    BY <2>1, <2>2, Moved, Answered, Frames
  <2> QED
    BY <2>3, Zenon DEF After, Boxed, Between, Turn
<1>5. CASE /\ AtTop("in") /\ Arrives("in", "mempool")
           /\ ch' = Reply2("in", <<Msg("pool")>>) /\ UNCHANGED pc
  <2>1. pc["in"] = "top" /\ ch' = Reply2("in", One(Msg("pool")))
    BY <1>5, Zenon DEF AtTop, One
  <2>2. Boxed("pool", "top", None, Two(Msg("mempool"), Msg("pool")))
    BY <1>5, <2>1, LeadArrives, Whose
  <2>3. After("pool", "top", One(Msg("pool")), None)
    BY <1>5, <2>1, <2>2, Answered, Frames
  <2> QED
    BY <2>3, Zenon DEF After, Boxed, Between, Turn
<1>6. CASE pc["out"] = "pool" /\ Arrives("out", "pool") /\ ch' = Take("out") /\ Goto("out", "sendsync")
  <2>1. Boxed("pool", "top", One(Msg("pool")), None)
    BY <1>6, LeadArrives, Whose
  <2>2. After("sendsync", "top", None, None)
    BY <1>6, <2>1, Moved, Frames
  <2> QED
    BY <2>2, Zenon DEF After, Boxed, Between, Turn
<1> QED
  BY <1>1, <1>2, <1>3, <1>4, <1>5, <1>6, Zenon DEF Mempools

(* The handler compares after it has answered, the worker once it has the answer. *)
LEMMA ComparingTurn ==
  ASSUME SyncTypes, Turn, Sync \/ HandlerHeight \/ HandlerCompare \/ HandlerAgain \/ WorkerCompare \/ WorkerAgain
  PROVE  Turn'
<1> USE DEF Node
<1>1. /\ UNCHANGED chain
      /\ hdd_block("out")' = hdd_block("out") /\ hdd_block("in")' = hdd_block("in")
      /\ Ahead' <=> Ahead
  <2>1. UNCHANGED chain
    BY Zenon DEF Sync, HandlerHeight, HandlerCompare, HandlerAgain, WorkerCompare, WorkerAgain
  <2> QED
    BY <2>1 DEF hdd_block, Ahead
<1>2. /\ chain["out"] \in Chains /\ chain["in"] \in Chains
      /\ hdd_block("out") \in Nat /\ hdd_block("in") \in Nat
  BY Heights
<1>3. CASE Sync
  <2>1. /\ pc["out"] = "top" /\ Arrives("out", "sync") /\ Goto("out", "height")
        /\ ch' = Reply("out", Two(Msg("blockheight"), Height(hdd_block("out"))))
    BY <1>3, Zenon DEF Sync, AtTop, Two
  <2>2. Boxed("top", "top", One(Msg("sync")), None)
    BY <2>1, LeadArrives, Whose
  <2>3. After("height", "top", None, Two(Msg("blockheight"), Height(hdd_block("out"))))
    BY <2>1, <2>2, Answered, Frames
  <2> QED
    BY <1>1, <2>3, Zenon DEF After, Boxed, Comparing, Turn
<1>4. CASE HandlerHeight
  <2>1. /\ pc["in"] = "top" /\ Arrives("in", "blockheight") /\ Goto("in", "compare")
        /\ ch' = Reply2("in", One(Height(hdd_block("in"))))
        /\ heard' = [heard EXCEPT !["in"] = ch["in"][2].height]
    BY <1>4, Zenon DEF HandlerHeight, AtTop, One
  <2>2. Boxed("height", "top", None, Two(Msg("blockheight"), Height(hdd_block("out"))))
    BY <2>1, LeadArrives, Whose
  <2>3. After("height", "compare", One(Height(hdd_block("in"))), None)
    BY <2>1, <2>2, Answered, Frames
  <2>4. ch["in"][2].height = hdd_block("out")
    BY <2>2 DEF Boxed, Two, Height
  <2>5. heard'["in"] = hdd_block("out")
    BY <2>1, <2>4 DEF SyncTypes
  <2> QED
    BY <1>1, <2>3, <2>5, Zenon DEF After, Boxed, Comparing, Turn
<1>5. CASE HandlerCompare
  <2>1. /\ pc["in"] = "compare" /\ UNCHANGED heard
        /\ \/ /\ heard["in"] > hdd_block("in")
              /\ ch' = Say("in", One(Hash(chain["in"]))) /\ Goto("in", "top")
           \/ heard["in"] <= hdd_block("in") /\ Goto("in", "again") /\ UNCHANGED ch
    BY <1>5, Zenon DEF HandlerCompare, One
  <2>2. /\ heard["in"] = hdd_block("out")
        /\ \/ Boxed("height", "compare", One(Height(hdd_block("in"))), None)
           \/ Ahead /\ Boxed("hash", "compare", None, None)
           \/ ~Ahead /\ \E c \in Chains : Boxed("top", "compare", None, One(Hash(c)))
           \/ ~Ahead /\ heard["out"] = hdd_block("in") /\ Boxed("again", "compare", None, None)
    BY <2>1, BoxedLead DEF Turn, Opening, Between, Comparing, Handing
  <2>3. heard'["in"] = hdd_block("out") /\ heard'["out"] = heard["out"]
    BY <2>1, <2>2
  <2>4. CASE Ahead
    <3>1. ch' = Say("in", One(Hash(chain["in"]))) /\ Goto("in", "top")
      BY <1>2, <2>1, <2>2, <2>4 DEF Ahead
    <3>2. \/ After("height", "top", Two(Height(hdd_block("in")), Hash(chain["in"])), None)
          \/ After("hash", "top", One(Hash(chain["in"])), None)
      BY <2>2, <2>4, <3>1, Answered, Frames
    <3> QED
      BY <1>1, <1>2, <2>3, <2>4, <3>2, Zenon DEF After, Boxed, Comparing, Turn
  <2>5. CASE ~Ahead
    <3>1. Goto("in", "again") /\ UNCHANGED ch
      BY <1>2, <2>1, <2>2, <2>5 DEF Ahead
    <3>2. \/ After("height", "again", One(Height(hdd_block("in"))), None)
          \/ \E c \in Chains : After("top", "again", None, One(Hash(c)))
          \/ heard["out"] = hdd_block("in") /\ After("again", "again", None, None)
      BY <2>2, <2>5, <3>1, Moved
    <3> QED
      BY <1>1, <2>3, <2>5, <3>2, Zenon DEF After, Boxed, Comparing, Turn
  <2> QED
    BY <2>4, <2>5
<1>7. CASE HandlerAgain
  <2>1. /\ pc["in"] = "again" /\ UNCHANGED <<ch, heard>>
        /\ Goto("in", IF heard["in"] <= hdd_block("in") THEN "hash" ELSE "top")
    BY <1>7, Zenon DEF HandlerAgain
  <2>2. /\ heard["in"] = hdd_block("out") /\ ~Ahead
        /\ \/ Boxed("height", "again", One(Height(hdd_block("in"))), None)
           \/ \E c \in Chains : Boxed("top", "again", None, One(Hash(c)))
           \/ heard["out"] = hdd_block("in") /\ Boxed("again", "again", None, None)
    BY <2>1, BoxedLead DEF Turn, Opening, Between, Comparing, Handing
  <2>3. Goto("in", "hash")
    BY <1>2, <2>1, <2>2 DEF Ahead
  <2>4. \/ After("height", "hash", One(Height(hdd_block("in"))), None)
        \/ \E c \in Chains : After("top", "hash", None, One(Hash(c)))
        \/ heard["out"] = hdd_block("in") /\ After("again", "hash", None, None)
    BY <2>1, <2>2, <2>3, Moved
  <2>5. heard'["in"] = hdd_block("out") /\ heard'["out"] = heard["out"]
    BY <2>1, <2>2
  <2> QED
    BY <1>1, <2>2, <2>4, <2>5, Zenon DEF After, Boxed, Comparing, Turn
<1>8. CASE WorkerAgain
  <2>1. /\ pc["out"] = "again" /\ UNCHANGED heard /\ Goto("out", "top")
        /\ heard["out"] >= hdd_block("out") => ch' = Say("out", One(Hash(chain["out"])))
    BY <1>8, Zenon DEF WorkerAgain, One
  <2>2. /\ heard["in"] = hdd_block("out") /\ heard["out"] = hdd_block("in") /\ ~Ahead
        /\ \/ Boxed("again", "compare", None, None)
           \/ Boxed("again", "again", None, None)
           \/ Boxed("again", "hash", None, None)
    BY <2>1, BoxedLead DEF Turn, Opening, Between, Comparing, Handing
  <2>3. ch' = Say("out", One(Hash(chain["out"])))
    BY <1>2, <2>1, <2>2 DEF Ahead
  <2>4. \/ After("top", "compare", None, One(Hash(chain["out"])))
        \/ After("top", "again", None, One(Hash(chain["out"])))
        \/ After("top", "hash", None, One(Hash(chain["out"])))
    BY <2>1, <2>2, <2>3, Answered, Frames
  <2>5. heard'["in"] = hdd_block("out")
    BY <2>1, <2>2
  <2> QED
    BY <1>1, <1>2, <2>2, <2>4, <2>5, Zenon DEF After, Boxed, Comparing, Turn
<1>6. CASE WorkerCompare
  <2>1. /\ pc["out"] = "height" /\ Lead(ch["out"]) = "height" /\ ch' = Take("out")
        /\ Goto("out", IF Head(ch["out"]).height < hdd_block("out") THEN "hash" ELSE "again")
    BY <1>6, LeadArrives, Zenon DEF WorkerCompare, HeightAgain
  <2>2. /\ heard["in"] = hdd_block("out")
        /\ \/ Boxed("height", "compare", One(Height(hdd_block("in"))), None)
           \/ Ahead /\ \E c \in Chains : Boxed("height", "top", Two(Height(hdd_block("in")), Hash(c)), None)
           \/ ~Ahead /\ Boxed("height", "again", One(Height(hdd_block("in"))), None)
           \/ ~Ahead /\ Boxed("height", "hash", One(Height(hdd_block("in"))), None)
    BY <2>1, BoxedLead, Leads DEF Turn, Opening, Between, Comparing, Handing
  <2>3. Head(ch["out"]).height = hdd_block("in")
    BY <2>2 DEF Boxed, One, Two, Height
  <2>4. heard'["in"] = hdd_block("out") /\ heard'["out"] = hdd_block("in")
    <3>1. heard' = [heard EXCEPT !["out"] = Head(ch["out"]).height]
      BY <1>6, Zenon DEF WorkerCompare
    <3> QED
      BY <2>2, <2>3, <3>1 DEF SyncTypes
  <2>5. CASE Ahead
    <3>1. ch' = Take("out") /\ Goto("out", "hash")
      BY <1>2, <2>1, <2>3, <2>5 DEF Ahead
    <3>2. \/ After("hash", "compare", None, None)
          \/ \E c \in Chains : After("hash", "top", One(Hash(c)), None)
      BY <2>2, <2>5, <3>1, Moved, Frames
    <3> QED
      BY <1>1, <2>4, <2>5, <3>2, Zenon DEF After, Boxed, Comparing, Turn
  <2>6. CASE ~Ahead
    <3>1. ch' = Take("out") /\ Goto("out", "again")
      BY <1>2, <2>1, <2>3, <2>6 DEF Ahead
    <3>2. \/ After("again", "compare", None, None)
          \/ After("again", "again", None, None)
          \/ After("again", "hash", None, None)
      BY <2>2, <2>6, <3>1, Moved, Frames
    <3> QED
      BY <1>1, <2>4, <2>6, <3>2, Zenon DEF After, Boxed, Comparing, Turn
  <2> QED
    BY <2>5, <2>6
<1> QED
  BY <1>3, <1>4, <1>5, <1>6, <1>7, <1>8

LEMMA LookupTurn ==
  ASSUME SyncTypes, Turn, NEW n \in Node, Lookup(n)
  PROVE  Turn'
<1> USE DEF Node
<1>1. pc[n] = "hash" /\ Lead(ch[n]) = "hash" /\ Head(ch[n]).kind = "hash" /\ ch[n] # <<>>
  BY LeadArrives DEF Lookup, Arrives
<1>2. PICK c \in Chains : Head(ch[n]).hash = c
  BY <1>1, Arrived, FrameContent
<1>3. \/ Close
      \/ ch' = Reply(n, Two(Msg("blocknf"), Hash(c))) /\ Goto(n, "top")
      \/ ch' = Reply(n, One(Msg("nonewblk"))) /\ Goto(n, "top")
      \/ ch' = Reply(n, One(Msg("blocksfnd"))) /\ Goto(n, "confirm")
  BY <1>2, Zenon DEF Lookup, NotFound, One, Two
<1>4. CASE Close
  BY <1>4, CloseTurn
<1>5. CASE ~Close /\ n = "out"
  <2>1. PICK d \in Chains : Boxed("hash", "top", One(Hash(d)), None)
    BY <1>1, <1>5, Whose
  <2>2. \/ After("top", "top", None, Two(Msg("blocknf"), Hash(c)))
        \/ After("top", "top", None, One(Msg("nonewblk")))
        \/ After("confirm", "top", None, One(Msg("blocksfnd")))
    BY <1>3, <1>5, <2>1, Answered, Frames
  <2> QED
    BY <2>2, Zenon DEF After, Boxed, Between, Handing, Turn
<1>6. CASE ~Close /\ n = "in"
  <2>1. PICK d \in Chains : Boxed("top", "hash", None, One(Hash(d)))
    BY <1>1, <1>6, Whose
  <2>2. \/ After("top", "top", Two(Msg("blocknf"), Hash(c)), None)
        \/ After("top", "top", One(Msg("nonewblk")), None)
        \/ After("top", "confirm", One(Msg("blocksfnd")), None)
    BY <1>3, <1>6, <2>1, Answered, Frames
  <2> QED
    BY <2>2, Zenon DEF After, Boxed, Between, Handing, Turn
<1> QED
  BY <1>4, <1>5, <1>6

LEMMA ConfirmTurn ==
  ASSUME SyncTypes, Turn, NEW n \in Node, Confirm(n)
  PROVE  Turn' /\ (round => round')
<1> USE DEF Node
<1>1. /\ pc[n] = "confirm" /\ ch[n] # <<>> /\ Goto(n, "top")
      /\ ch' = IF Head(ch[n]).kind = "blockscf" THEN Reply(n, <<Blocks(offer[n])>>) ELSE Take(n)
      /\ round' = (round /\ Head(ch[n]).kind \in Accepted)
  BY Zenon DEF Confirm
<1>2. Head(ch[n]).kind \in Accepted /\ Head(ch[n]).kind = Lead(ch[n])
  BY <1>1, NothingUnexpected, LeadArrives
<1>3. round => round'
  BY <1>1, <1>2, Zenon
<1>4. offer[n] \in Offers
  BY DEF SyncTypes
<1>5. CASE Lead(ch[n]) = "blockscf"
  <2>1. ch' = Reply(n, One(Blocks(offer[n])))
    BY <1>1, <1>2, <1>5, Zenon DEF One
  <2>2. ASSUME n = "out" PROVE Turn'
    <3>1. Boxed("confirm", "blocks", One(Msg("blockscf")), None)
      BY <1>1, <1>5, <2>2, Whose
    <3>2. After("top", "blocks", None, One(Blocks(offer[n])))
      BY <1>1, <2>1, <2>2, <3>1, Answered, Frames
    <3> QED
      BY <1>4, <3>2, Zenon DEF After, Boxed, Handing, Turn
  <2>3. ASSUME n = "in" PROVE Turn'
    <3>1. Boxed("blocks", "confirm", None, One(Msg("blockscf")))
      BY <1>1, <1>5, <2>3, Whose
    <3>2. After("blocks", "top", One(Blocks(offer[n])), None)
      BY <1>1, <2>1, <2>3, <3>1, Answered, Frames
    <3> QED
      BY <1>4, <3>2, Zenon DEF After, Boxed, Handing, Turn
  <2> QED
    BY <1>3, <2>2, <2>3
<1>6. CASE Lead(ch[n]) = "blocksrj"
  <2>1. ch' = Take(n)
    BY <1>1, <1>2, <1>6
  <2>2. ASSUME n = "out" PROVE Turn'
    <3>1. \/ Boxed("confirm", "says", One(Msg("blocksrj")), None)
          \/ Boxed("confirm", "top", Two(Msg("blocksrj"), Msg("sync")), None)
      BY <1>1, <1>6, <2>2, Whose
    <3>2. After("top", "says", None, None) \/ After("top", "top", One(Msg("sync")), None)
      BY <1>1, <2>1, <2>2, <3>1, Moved, Frames
    <3> QED
      BY <3>2, Zenon DEF After, Boxed, Between, Turn
  <2>3. ASSUME n = "in" PROVE Turn'
    <3>1. \/ Boxed("sendsync", "confirm", None, One(Msg("blocksrj")))
          \/ Boxed("top", "confirm", None, Two(Msg("blocksrj"), Msg("sendsync")))
      BY <1>1, <1>6, <2>3, Whose
    <3>2. After("sendsync", "top", None, None) \/ After("top", "top", None, One(Msg("sendsync")))
      BY <1>1, <2>1, <2>3, <3>1, Moved, Frames
    <3> QED
      BY <3>2, Zenon DEF After, Boxed, Between, Turn
  <2> QED
    BY <1>3, <2>2, <2>3
<1> QED
  BY <1>2, <1>5, <1>6 DEF Accepted

(* The blocks are asked for, or refused; they are digested, or they cost the connection. *)
LEMMA BlocksTurn ==
  ASSUME SyncTypes, Turn, NEW n \in Node, ~busy[n], BlocksFound(n) \/ digest_block(n) \/ blocknf(n)
  PROVE  Turn'
<1> USE DEF Node
<1>1. CASE BlocksFound(n)
  <2>1. /\ pc[n] = "top" /\ Arrives(n, "blocksfnd")
        /\ \/ ch' = Reply(n, One(Msg("blockscf"))) /\ Goto(n, "blocks")
           \/ ch' = Reply(n, One(Msg("blocksrj"))) /\ Goto(n, Resume(n))
    BY <1>1, Zenon DEF BlocksFound, AtTop, One
  <2>2. Lead(ch[n]) = "blocksfnd"
    BY <2>1, LeadArrives
  <2>3. CASE n = "out"
    <3>1. Boxed("top", "confirm", One(Msg("blocksfnd")), None)
      BY <2>1, <2>2, <2>3, Whose
    <3>2. Resume(n) = "sendsync"
      BY <2>3 DEF Resume
    <3>3. \/ After("blocks", "confirm", None, One(Msg("blockscf")))
          \/ After("sendsync", "confirm", None, One(Msg("blocksrj")))
      BY <2>1, <2>3, <3>1, <3>2, Answered, Frames
    <3> QED
      BY <3>3, Zenon DEF After, Boxed, Handing, Turn
  <2>4. CASE n = "in"
    <3>1. Boxed("confirm", "top", None, One(Msg("blocksfnd")))
      BY <2>1, <2>2, <2>4, Whose
    <3>2. Resume(n) = "says"
      BY <2>4 DEF Resume
    <3>3. \/ After("confirm", "blocks", One(Msg("blockscf")), None)
          \/ After("confirm", "says", One(Msg("blocksrj")), None)
      BY <2>1, <2>4, <3>1, <3>2, Answered, Frames
    <3> QED
      BY <3>3, Zenon DEF After, Boxed, Handing, Turn
  <2> QED
    BY <2>3, <2>4
<1>2. CASE digest_block(n)
  <2>1. /\ pc[n] = "blocks" /\ Arrives(n, "blocks")
        /\ (ch' = Take(n) /\ Goto(n, Resume(n))) \/ Close
    BY <1>2, Zenon DEF digest_block, Rejected
  <2>2. Lead(ch[n]) = "blocks"
    BY <2>1, LeadArrives
  <2>3. CASE Close
    BY <2>3, CloseTurn
  <2>4. CASE ~Close /\ n = "out"
    <3>1. PICK o \in Offers : Boxed("blocks", "top", One(Blocks(o)), None)
      BY <2>1, <2>2, <2>4, Whose
    <3>2. After("sendsync", "top", None, None)
      BY <2>1, <2>4, <3>1, Moved, Frames DEF Resume
    <3> QED
      BY <3>2, Zenon DEF After, Boxed, Between, Turn
  <2>5. CASE ~Close /\ n = "in"
    <3>1. PICK o \in Offers : Boxed("top", "blocks", None, One(Blocks(o)))
      BY <2>1, <2>2, <2>5, Whose
    <3>2. After("top", "says", None, None)
      BY <2>1, <2>5, <3>1, Moved, Frames DEF Resume
    <3> QED
      BY <3>2, Zenon DEF After, Boxed, Between, Turn
  <2> QED
    BY <2>3, <2>4, <2>5
<1>3. CASE blocknf(n)
  <2>1. pc[n] = "top" /\ Arrives(n, "blocknf") /\ ch' = Take2(n) /\ Goto(n, ResumeFree(n))
    BY <1>3, Zenon DEF blocknf, AtTop
  <2>2. Lead(ch[n]) = "blocknf"
    BY <2>1, LeadArrives
  <2>3. CASE n = "out"
    <3>1. PICK c \in Chains : Boxed("top", "top", Two(Msg("blocknf"), Hash(c)), None)
      BY <2>1, <2>2, <2>3, Whose
    <3>2. After("sendsync", "top", None, None)
      BY <2>1, <2>3, <3>1, Moved, Frames DEF ResumeFree
    <3> QED
      BY <3>2, Zenon DEF After, Boxed, Between, Turn
  <2>4. CASE n = "in"
    <3>1. PICK c \in Chains : Boxed("top", "top", None, Two(Msg("blocknf"), Hash(c)))
      BY <2>1, <2>2, <2>4, Whose
    <3>2. After("top", "sayssync", None, None)
      BY <2>1, <2>4, <3>1, Moved, Frames DEF ResumeFree
    <3> QED
      BY <3>2, Zenon DEF After, Boxed, Between, Turn
  <2> QED
    BY <2>3, <2>4
<1> QED
  BY <1>1, <1>2, <1>3

(* No step that answers silence or an unexpected frame is possible. *)
LEMMA NothingBreaks ==
  ASSUME SyncTypes, Turn, delays = 0, delays' = 0
  PROVE  /\ ~SyncFails /\ ~NoPool
         /\ \A n \in Node : ~Broken(n) /\ ~NoHash(n) /\ ~NoConfirmation(n) /\ ~NoBlocks(n)
<1>1. ASSUME NEW n \in Node, pc[n] # "closed"
      PROVE  ~Unexpected(n) /\ ~Quiet(n)
  BY <1>1, NothingUnexpected, NotQuiet
<1>2. ~SyncFails /\ ~NoPool
  BY <1>1 DEF SyncFails, NoPool, Node
<1>3. ASSUME NEW n \in Node
      PROVE  ~Broken(n) /\ ~NoHash(n) /\ ~NoConfirmation(n) /\ ~NoBlocks(n)
  <2>1. Broken(n) \/ NoHash(n) \/ NoConfirmation(n) \/ NoBlocks(n) => pc[n] # "closed"
    BY DEF Broken, NoHash, NoConfirmation, NoBlocks
  <2>2. Broken(n) \/ NoHash(n) \/ NoConfirmation(n) \/ NoBlocks(n) => Unexpected(n) \/ Quiet(n)
    BY Zenon DEF Broken, NoHash, NoConfirmation, NoBlocks
  <2> QED
    BY <1>1, <2>1, <2>2
<1> QED
  BY <1>2, <1>3

(* What a step of the two threads leaves alone. *)
Calm ==
    /\ UNCHANGED <<busy, compatible, events>>
    /\ delays' = delays \/ delays' = delays + 1

LEMMA ExchangeCalm ==
  ASSUME Exchange
  PROVE  Calm
<1>1. Dial \/ Version \/ Chat \/ SaysSync \/ sendsync => Calm
  BY Zenon DEF Dial, Version, Chat, SaysSync, sendsync, Calm, fixed, budget
<1>2. Sync \/ HandlerHeight \/ HandlerCompare \/ HandlerAgain \/ WorkerCompare \/ WorkerAgain => Calm
  BY Zenon DEF Sync, HandlerHeight, HandlerCompare, HandlerAgain, WorkerCompare, WorkerAgain, Calm, fixed, budget
<1>3. ASSUME NEW n \in Node
      PROVE  Lookup(n) \/ Confirm(n) \/ BlocksFound(n) \/ digest_block(n) \/ blocknf(n) => Calm
  BY Zenon DEF Lookup, Confirm, BlocksFound, digest_block, blocknf, Calm, fixed, budget
<1>4. ASSUME NEW n \in Node
      PROVE  Broken(n) \/ NoHash(n) \/ NoConfirmation(n) \/ NoBlocks(n) \/ LoopEnds(n) => Calm
  BY Zenon DEF Broken, NoHash, NoConfirmation, NoBlocks, LoopEnds, Quiet, Calm, fixed, budget
<1>5. SyncFails \/ NoPool => Calm
  BY Zenon DEF SyncFails, NoPool, Quiet, Calm, fixed
<1> QED
  BY <1>1, <1>2, <1>3, <1>4, <1>5, Zenon DEF Exchange

(* In step, and without a late answer, the turn goes round. *)
LEMMA ExchangeTurn ==
  ASSUME SyncTypes, Turn, compatible, round, ~busy["out"], ~busy["in"], delays = 0, delays' = 0, Exchange
  PROVE  Turn' /\ round'
<1>1. CASE Dial \/ Version \/ Chat \/ SaysSync \/ sendsync
  <2>1. round'
    BY <1>1, Zenon DEF Dial, Version, Chat, SaysSync, sendsync
  <2> QED
    BY <1>1, <2>1, OpeningTurn, BetweenTurn, Zenon DEF Chat
<1>2. CASE Sync \/ HandlerHeight \/ HandlerCompare \/ HandlerAgain \/ WorkerCompare \/ WorkerAgain
  <2>1. round'
    BY <1>2, Zenon DEF Sync, HandlerHeight, HandlerCompare, HandlerAgain, WorkerCompare, WorkerAgain
  <2> QED
    BY <1>2, <2>1, ComparingTurn
<1>3. ASSUME NEW n \in Node, Lookup(n)
      PROVE  Turn' /\ round'
  <2>1. round'
    BY <1>3, Zenon DEF Lookup
  <2> QED
    BY <1>3, <2>1, LookupTurn
<1>4. ASSUME NEW n \in Node, Confirm(n)
      PROVE  Turn' /\ round'
  BY <1>4, ConfirmTurn
<1>5. ASSUME NEW n \in Node, BlocksFound(n) \/ digest_block(n) \/ blocknf(n)
      PROVE  Turn' /\ round'
  <2>1. round'
    BY <1>5, Zenon DEF BlocksFound, digest_block, blocknf
  <2>2. ~busy[n]
    BY DEF Node
  <2> QED
    BY <1>5, <2>1, <2>2, BlocksTurn
<1>6. ASSUME NEW n \in Node, LoopEnds(n)
      PROVE  Turn' /\ round'
  <2>1. round' /\ Close
    BY <1>6, Zenon DEF LoopEnds
  <2> QED
    BY <2>1, CloseTurn
<1> QED
  BY <1>1, <1>2, <1>3, <1>4, <1>5, <1>6, NothingBreaks, Zenon DEF Exchange

LEMMA InitTurn == Init => TurnInv
<1> SUFFICES ASSUME Init PROVE TurnInv
  OBVIOUS
<1>1. Boxed("closed", "closed", None, None)
  BY DEF Init, Boxed, Closed, Idle, Node, None
<1>2. round /\ ~busy["out"] /\ ~busy["in"]
  BY DEF Init, Node
<1> QED
  BY <1>1, <1>2, Zenon DEF TurnInv, Turn, Opening

LEMMA NextTurn ==
  ASSUME SyncTypes, TurnInv, [Next]_vars
  PROVE  TurnInv'
<1> SUFFICES ASSUME Undisturbed'
             PROVE  (round /\ ~busy["out"] /\ ~busy["in"] /\ Turn)'
  BY DEF TurnInv
<1>1. CASE UNCHANGED vars
  <2>1. Undisturbed
    BY <1>1 DEF vars, fixed, Undisturbed
  <2>2. round /\ ~busy["out"] /\ ~busy["in"] /\ Turn
    BY <2>1 DEF TurnInv
  <2>3. UNCHANGED <<round, busy, pc, ch, heard, chain>>
    BY <1>1, Zenon DEF vars
  <2> QED
    BY <2>2, <2>3, Zenon DEF Turn, Opening, Between, Comparing, Handing, Boxed, hdd_block, Ahead
<1>2. CASE Exchange
  <2>1. Calm
    BY <1>2, ExchangeCalm
  <2>2. compatible /\ events = 0 /\ delays = 0 /\ delays' = 0 /\ UNCHANGED busy
    <3>1. compatible' /\ events' = 0 /\ delays' = 0
      BY DEF Undisturbed
    <3>2. delays \in Nat
      BY SyncAssumption DEF SyncTypes
    <3>3. compatible /\ events = 0 /\ UNCHANGED busy
      BY <2>1, <3>1, Zenon DEF Calm
    <3>4. delays = 0
      BY <2>1, <3>1, <3>2 DEF Calm
    <3> QED
      BY <3>1, <3>3, <3>4, Zenon
  <2>3. round /\ ~busy["out"] /\ ~busy["in"] /\ Turn
    BY <2>2 DEF TurnInv, Undisturbed
  <2>4. Turn' /\ round'
    BY <1>2, <2>2, <2>3, ExchangeTurn
  <2> QED
    BY <2>2, <2>3, <2>4, Zenon
<1>3. CASE Environment
  <2>1. PICK n \in Node : Others(n)
    BY <1>3 DEF Environment
  <2>2. UNCHANGED <<compatible, delays>>
    BY <1>3, Zenon DEF Environment, fixed
  <2>3. events' = 0 /\ compatible' /\ delays' = 0
    BY DEF Undisturbed
  <2>4. events' = events + 1 \/ events' = events
    BY <2>1, Zenon DEF Others
  <2>5. events = 0 /\ events' = events
    BY <2>3, <2>4, SyncAssumption DEF SyncTypes
  <2>6. ~busy["out"] /\ ~busy["in"]
    BY <2>2, <2>3, <2>5 DEF TurnInv, Undisturbed
  <2>7. ~busy[n]
    BY <2>6 DEF Node
  <2>8. events' # events + 1
    BY <2>5
  <2> QED
    BY <2>1, <2>7, <2>8, Zenon DEF Others
<1> QED
  BY <1>1, <1>2, <1>3 DEF Next

-----------------------------------------------------------------------------
(* A place in node.syncing is given back however a round ends. *)
LEMMA InitSlot == Init => SlotReturned
  BY DEF Init, SlotReturned

LEMMA NextSlot ==
  ASSUME SyncTypes, SlotReturned, [Next]_vars
  PROVE  SlotReturned'
<1> USE DEF Node
<1>1. ASSUME slot' = FALSE PROVE SlotReturned'
  BY <1>1 DEF SlotReturned
<1>2. ASSUME Close PROVE SlotReturned'
  BY <1>1, <1>2, Zenon DEF Close
<1>3. ASSUME UNCHANGED slot, pc["out"] \notin {"height", "again", "hash", "confirm"} PROVE SlotReturned'
  BY <1>3 DEF SlotReturned
<1>4. ASSUME UNCHANGED slot, UNCHANGED pc PROVE SlotReturned'
  BY <1>4, Zenon DEF SlotReturned
<1>5. ASSUME slot' => slot, NEW p, Goto("in", p) PROVE SlotReturned'
  BY <1>5 DEF SlotReturned, Goto, SyncTypes
<1>6. ASSUME NEW p \in {"height", "again", "hash", "confirm"}, Goto("out", p) PROVE SlotReturned'
  BY <1>6 DEF SlotReturned, Goto, SyncTypes
<1>7. ASSUME NEW n \in Node, EndSlot(n), NEW p, Goto(n, p) PROVE SlotReturned'
  <2>1. CASE n = "out"
    <3>1. slot' = FALSE
      BY <1>7, <2>1, Zenon DEF EndSlot
    <3> QED
      BY <1>1, <3>1
  <2>2. CASE n = "in"
    <3>1. slot' => slot
      BY <1>7, Zenon DEF EndSlot
    <3> QED
      BY <1>5, <1>7, <2>2, <3>1
  <2> QED
    BY <2>1, <2>2
<1>8. ASSUME NEW n \in Node, UNCHANGED slot, pc[n] \notin {"height", "again", "hash", "confirm"}, NEW p, Goto(n, p)
      PROVE  SlotReturned'
  <2>1. CASE n = "out"
    BY <1>3, <1>8, <2>1
  <2>2. CASE n = "in"
    BY <1>5, <1>8, <2>2
  <2> QED
    BY <2>1, <2>2
<1>9. ASSUME NEW n \in Node, NEW s, NotFound(n, s) PROVE SlotReturned'
  BY <1>2, <1>7, <1>9, Zenon DEF NotFound
<1>10. CASE Dial
  <2>1. pc = Closed /\ UNCHANGED slot
    BY <1>10, Zenon DEF Dial
  <2> QED
    BY <1>3, <2>1 DEF Closed, Idle
<1>11. CASE Version
  BY <1>2, <1>4, <1>11, Zenon DEF Version
<1>12. CASE Chat
  <2>1. UNCHANGED slot
    BY <1>12, Zenon DEF Chat
  <2>2. \/ UNCHANGED pc
        \/ Goto("in", "sayssync") \/ Goto("in", "says")
        \/ pc["out"] \in {"ok", "version", "top", "pool"}
    BY <1>12 DEF Chat, Handshake, HandlerSync, Mempools, AtTop
  <2> QED
    BY <1>3, <1>4, <1>5, <2>1, <2>2
<1>13. CASE SaysSync \/ sendsync
  <2>1. UNCHANGED slot /\ (Goto("in", "top") \/ pc["out"] = "sendsync")
    BY <1>13, Zenon DEF SaysSync, sendsync
  <2> QED
    BY <1>3, <1>5, <2>1
<1>14. CASE Sync \/ HandlerHeight \/ HandlerCompare \/ HandlerAgain \/ WorkerCompare \/ WorkerAgain
  <2>1. \/ Goto("out", "height")
        \/ /\ UNCHANGED slot
           /\ Goto("in", "compare") \/ Goto("in", "top") \/ Goto("in", "again") \/ Goto("in", "hash")
        \/ Goto("out", "hash") \/ Goto("out", "again")
        \/ slot' = FALSE
    BY <1>14, Zenon DEF Sync, HandlerHeight, HandlerCompare, HandlerAgain, WorkerCompare, WorkerAgain
  <2> QED
    BY <1>1, <1>5, <1>6, <2>1
<1>15. ASSUME NEW n \in Node, Lookup(n) PROVE SlotReturned'
  <2>1. CASE EndSlot(n) /\ Goto(n, "top")
    BY <1>7, <2>1
  <2>2. CASE UNCHANGED slot /\ Goto(n, "confirm")
    <3>1. CASE n = "out"
      BY <1>6, <2>2, <3>1
    <3>2. CASE n = "in"
      BY <1>5, <2>2, <3>2
    <3> QED
      BY <3>1, <3>2
  <2> QED
    BY <1>9, <1>15, <2>1, <2>2, Zenon DEF Lookup
<1>16. ASSUME NEW n \in Node, Confirm(n) \/ NoConfirmation(n) PROVE SlotReturned'
  BY <1>7, <1>16, Zenon DEF Confirm, NoConfirmation
<1>17. ASSUME NEW n \in Node, BlocksFound(n) \/ blocknf(n) PROVE SlotReturned'
  <2>1. pc[n] = "top" /\ UNCHANGED slot /\ \E p : Goto(n, p)
    BY <1>17, Zenon DEF BlocksFound, blocknf, AtTop
  <2> QED
    BY <1>8, <2>1
<1>18. ASSUME NEW n \in Node, digest_block(n) \/ NoBlocks(n) PROVE SlotReturned'
  <2>1. pc[n] = "blocks" /\ ((UNCHANGED slot /\ Goto(n, Resume(n))) \/ Close)
    BY <1>18, Zenon DEF digest_block, NoBlocks, Rejected
  <2> QED
    BY <1>2, <1>8, <2>1
<1>19. ASSUME NEW n \in Node, Broken(n) \/ NoHash(n) \/ LoopEnds(n) PROVE SlotReturned'
  BY <1>2, <1>9, <1>19, Zenon DEF Broken, NoHash, LoopEnds
<1>20. CASE SyncFails \/ NoPool
  <2>1. slot' = FALSE \/ (pc["out"] = "pool" /\ UNCHANGED slot)
    BY <1>20, Zenon DEF SyncFails, NoPool
  <2> QED
    BY <1>1, <1>3, <2>1
<1>21. CASE Environment \/ UNCHANGED vars
  BY <1>4, <1>21, Zenon DEF Environment, vars
<1> QED
  BY <1>10, <1>11, <1>12, <1>13, <1>14, <1>15, <1>16, <1>17, <1>18, <1>19, <1>20, <1>21, Zenon
     DEF Next, Exchange

-----------------------------------------------------------------------------
(* Lost steps: with late answers and digests by other threads the loops    *)
(* may take each other's frames for something else, but every way of       *)
(* losing step ends in one of a few shapes, and the channels stay short.   *)
(* Frames that no loop takes at its top are told apart no further.         *)
Class(k) == IF k \in {"hash", "blocks", "blockscf", "blocksrj", "pool"} THEN "data" ELSE k
Seen(s, j) == IF j <= Len(s) THEN Class(s[j].kind) ELSE "none"
Short(s) == Len(s) <= 3

(* Where the threads are, and what is under way to the worker (o1 to o3)   *)
(* and to the handler (i1 to i3).                                          *)
Shape(po, pi, o1, o2, o3, i1, i2, i3) ==
    LET at(p, q) == po = p /\ pi = q
        out3(a, b, c) == o1 = a /\ o2 = b /\ o3 = c
        out2(a, b) == out3(a, b, "none")
        out1(a) == out3(a, "none", "none")
        out0 == out3("none", "none", "none")
        in3(a, b, c) == i1 = a /\ i2 = b /\ i3 = c
        in2(a, b) == in3(a, b, "none")
        in1(a) == in3(a, "none", "none")
        in0 == in3("none", "none", "none")
    IN
       (* The handshake. *)
       \/ at("closed", "closed") /\ out0 /\ in0
       \/ /\ at("ok", "top")
          /\ \/ out0 /\ in2("version", "ourversion")
             \/ out1("ok") /\ in0
       \/ /\ at("version", "top")
          /\ \/ out0 /\ in1("getversion")
             \/ out1("ourversion") /\ in0
       (* Both at the top of their loops. *)
       \/ /\ at("top", "top")
          /\ \/ out0 /\ in0
             \/ out0 /\ in1("blocksfnd")
             \/ out0 /\ in1("data")
             \/ out0 /\ in1("hello")
             \/ out0 /\ in1("nonewblk")
             \/ out0 /\ in1("sendsync")
             \/ out0 /\ in2("blockheight", "height")
             \/ out0 /\ in2("blocknf", "data")
             \/ out0 /\ in2("data", "sendsync")
             \/ out0 /\ in3("data", "blockheight", "height")
             \/ out0 /\ in3("mempool", "data", "sendsync")
             \/ out1("blocksfnd") /\ in0
             \/ out1("data") /\ in0
             \/ out1("height") /\ in0
             \/ out1("nonewblk") /\ in0
             \/ out1("sync") /\ in0
             \/ out1("data") /\ in1("data")
             \/ out1("data") /\ in1("sendsync")
             \/ out1("sync") /\ in1("data")
             \/ out1("data") /\ in2("blocknf", "data")
             \/ out2("blocknf", "data") /\ in0
             \/ out2("data", "sync") /\ in0
             \/ out2("height", "data") /\ in0
             \/ out2("blocknf", "data") /\ in1("data")
             \/ out3("peers", "peerlist", "sync") /\ in0
       (* Asking for a round. *)
       \/ /\ at("top", "says")
          /\ \/ out0 /\ in0
             \/ out0 /\ in1("data")
             \/ out1("data") /\ in0
       \/ /\ at("top", "sayssync")
          /\ \/ out0 /\ in0
             \/ out1("data") /\ in0
             \/ out2("peers", "peerlist") /\ in0
       \/ /\ at("sendsync", "top")
          /\ \/ out0 /\ in0
             \/ out0 /\ in1("data")
             \/ out0 /\ in2("mempool", "data")
             \/ out1("data") /\ in0
       \/ /\ at("confirm", "says")
          /\ \/ out0 /\ in0
             \/ out1("data") /\ in0
       \/ /\ at("sendsync", "confirm")
          /\ \/ out0 /\ in0
             \/ out0 /\ in1("data")
       (* Comparing. *)
       \/ /\ at("height", "top")
          /\ \/ out0 /\ in2("blockheight", "height")
             \/ out0 /\ in3("data", "blockheight", "height")
             \/ out1("height") /\ in0
             \/ out2("height", "data") /\ in0
       \/ at("height", "compare") /\ out1("height") /\ in0
       \/ at("height", "again") /\ out1("height") /\ in0
       \/ at("height", "hash") /\ out1("height") /\ in0
       \/ /\ at("again", "top")
          /\ \/ out0 /\ in0
             \/ out1("data") /\ in0
       \/ at("again", "compare") /\ out0 /\ in0
       \/ at("again", "again") /\ out0 /\ in0
       \/ at("again", "hash") /\ out0 /\ in0
       \/ /\ at("hash", "top")
          /\ \/ out0 /\ in0
             \/ out1("data") /\ in0
       \/ at("hash", "compare") /\ out0 /\ in0
       \/ at("hash", "again") /\ out0 /\ in0
       \/ at("hash", "hash") /\ out0 /\ in0
       \/ /\ at("top", "compare")
          /\ \/ out0 /\ in0
             \/ out0 /\ in1("data")
             \/ out0 /\ in2("blocknf", "data")
             \/ out1("height") /\ in0
       \/ /\ at("top", "again")
          /\ \/ out0 /\ in0
             \/ out0 /\ in1("data")
             \/ out0 /\ in2("blocknf", "data")
             \/ out1("height") /\ in0
       \/ /\ at("top", "hash")
          /\ \/ out0 /\ in0
             \/ out0 /\ in1("data")
             \/ out0 /\ in2("blocknf", "data")
             \/ out1("height") /\ in0
       (* Blocks and mempools. *)
       \/ /\ at("confirm", "top")
          /\ \/ out0 /\ in1("blocksfnd")
             \/ out1("sync") /\ in0
             \/ out2("data", "sync") /\ in0
       \/ /\ at("top", "confirm")
          /\ \/ out0 /\ in1("sendsync")
             \/ out0 /\ in2("data", "sendsync")
             \/ out1("blocksfnd") /\ in0
       \/ at("confirm", "blocks") /\ out1("data") /\ in0
       \/ at("blocks", "confirm") /\ out0 /\ in1("data")
       \/ /\ at("top", "blocks")
          /\ \/ out0 /\ in0
             \/ out0 /\ in1("data")
             \/ out1("data") /\ in0
       \/ /\ at("blocks", "top")
          /\ \/ out0 /\ in0
             \/ out0 /\ in1("data")
             \/ out1("data") /\ in0
       \/ /\ at("pool", "top")
          /\ \/ out0 /\ in2("mempool", "data")
             \/ out1("data") /\ in0

ShapeInv ==
    /\ Short(ch["out"]) /\ Short(ch["in"])
    /\ Shape(pc["out"], pc["in"], Seen(ch["out"], 1), Seen(ch["out"], 2), Seen(ch["out"], 3),
             Seen(ch["in"], 1), Seen(ch["in"], 2), Seen(ch["in"], 3))

(* A frame, or a command with its argument, behind what is under way. *)
Push1(x1, x2, x3, a, y1, y2, y3) ==
    \/ x1 = "none" /\ y1 = a /\ y2 = "none" /\ y3 = "none"
    \/ x1 # "none" /\ x2 = "none" /\ y1 = x1 /\ y2 = a /\ y3 = "none"
    \/ x2 # "none" /\ y1 = x1 /\ y2 = x2 /\ y3 = a
Push2(x1, x2, x3, a, b, y1, y2, y3) ==
    \/ x1 = "none" /\ y1 = a /\ y2 = b /\ y3 = "none"
    \/ x1 # "none" /\ y1 = x1 /\ y2 = a /\ y3 = b


(* How a side at p, with k the first frame under way to it ("none" when     *)
(* nothing is), may use the channels, what it says, and where it goes: it   *)
(* takes a frame, or a command with its argument, or nothing;               *)
Takes(n, p, k, q) ==
    \/ p = "top" /\ k = "blocksfnd" /\ q = Resume(n)
    \/ p = "blocks" /\ k # "none" /\ q = Resume(n)
    \/ p = "confirm" /\ k # "none" /\ q = "top"
    \/ n = "out" /\ p = "top" /\ k = "nonewblk" /\ q = "sendsync"
    \/ n = "out" /\ p = "pool" /\ k # "none" /\ q = "sendsync"
    \/ n = "out" /\ p = "height" /\ k = "height" /\ q \in {"hash", "again"}
    \/ n = "out" /\ p = "height" /\ k \notin {"none", "height"} /\ q = "top"
    \/ n = "in" /\ p = "top" /\ k = "sendsync" /\ q = "sayssync"
    \/ n = "in" /\ p = "top" /\ k = "nonewblk" /\ q = "says"
TakesBoth(n, p, k, q) ==
    \/ p = "top" /\ k = "blocknf" /\ q = ResumeFree(n)
    \/ n = "out" /\ p = "top" /\ k = "peers" /\ q = "top"
Passes(n, p, k, q) ==
    \/ p = "blocks" /\ k = "none" /\ q = Resume(n)
    \/ p = "confirm" /\ k = "none" /\ q = "top"
    \/ n = "out" /\ p = "pool" /\ k = "none" /\ q = "sendsync"
    \/ n = "out" /\ p = "height" /\ k = "none" /\ q = "top"
    \/ n = "out" /\ p = "again" /\ q = "top"
    \/ n = "in" /\ p = "compare" /\ q = "again"
    \/ n = "in" /\ p = "again" /\ q \in {"hash", "top"}

(* answers a frame with one or two, or a command and its argument with one; *)
Replies(n, p, k, a, q) ==
    \/ p = "hash" /\ k = "data" /\ a = "nonewblk" /\ q = "top"
    \/ p = "hash" /\ k = "data" /\ a = "blocksfnd" /\ q = "confirm"
    \/ p = "confirm" /\ k = "data" /\ a = "data" /\ q = "top"
    \/ p = "top" /\ k = "blocksfnd" /\ a = "data" /\ q \in {"blocks", Resume(n)}
    \/ n = "out" /\ p = "ok" /\ k = "ok" /\ a = "getversion" /\ q = "version"
    \/ n = "out" /\ p = "version" /\ k = "ourversion" /\ a = "hello" /\ q = "top"
    \/ n = "in" /\ p = "top" /\ k = "getversion" /\ a = "ourversion" /\ q = "top"
RepliesBoth(n, p, k, a, b, q) ==
    \/ p = "hash" /\ k # "none" /\ a = "blocknf" /\ b = "data" /\ q = "top"
    \/ n = "out" /\ p = "top" /\ k = "sync" /\ a = "blockheight" /\ b = "height" /\ q = "height"
    \/ n = "out" /\ p = "top" /\ k = "nonewblk" /\ a = "mempool" /\ b = "data" /\ q = "pool"
    \/ n = "in" /\ p = "top" /\ k = "hello" /\ a = "peers" /\ b = "peerlist" /\ q = "sayssync"
Answers(n, p, k, a, q) ==
    \/ n = "in" /\ p = "top" /\ k = "version" /\ a = "ok" /\ q = "top"
    \/ n = "in" /\ p = "top" /\ k = "blockheight" /\ a = "height" /\ q = "compare"
    \/ n = "in" /\ p = "top" /\ k = "mempool" /\ a = "data" /\ q = "top"

(* or speaks first. *)
Says(n, p, a, q) ==
    \/ n = "out" /\ p = "sendsync" /\ a = "sendsync" /\ q = "top"
    \/ n = "out" /\ p = "again" /\ a = "data" /\ q = "top"
    \/ n = "in" /\ p \in {"says", "sayssync"} /\ a = "sync" /\ q = "top"
    \/ n = "in" /\ p = "compare" /\ a = "data" /\ q = "top"
SaysBoth(n, p, k, a, b, q) ==
    n = "out" /\ p = "hash" /\ k = "none" /\ a = "blocknf" /\ b = "data" /\ q = "top"

(* What a step of the worker makes of a shape. *)
LEMMA OutTakes ==
  ASSUME NEW p, NEW pi, NEW o1, NEW o2, NEW o3, NEW i1, NEW i2, NEW i3, NEW q,
         Shape(p, pi, o1, o2, o3, i1, i2, i3), Takes("out", p, o1, q)
  PROVE  Shape(q, pi, o2, o3, "none", i1, i2, i3)
  BY DEF Shape, Takes, Resume

LEMMA OutTakesBoth ==
  ASSUME NEW p, NEW pi, NEW o1, NEW o2, NEW o3, NEW i1, NEW i2, NEW i3, NEW q,
         Shape(p, pi, o1, o2, o3, i1, i2, i3), TakesBoth("out", p, o1, q)
  PROVE  /\ o2 # "none"
         /\ Shape(q, pi, o3, "none", "none", i1, i2, i3)
  BY DEF Shape, TakesBoth, ResumeFree

LEMMA OutPasses ==
  ASSUME NEW p, NEW pi, NEW o1, NEW o2, NEW o3, NEW i1, NEW i2, NEW i3, NEW q,
         Shape(p, pi, o1, o2, o3, i1, i2, i3), Passes("out", p, o1, q)
  PROVE  Shape(q, pi, o1, o2, o3, i1, i2, i3)
  BY DEF Shape, Passes, Resume

LEMMA OutReplies ==
  ASSUME NEW p, NEW pi, NEW o1, NEW o2, NEW o3, NEW i1, NEW i2, NEW i3, NEW a, NEW q,
         Shape(p, pi, o1, o2, o3, i1, i2, i3), Replies("out", p, o1, a, q)
  PROVE  /\ i3 = "none"
         /\ \A y1, y2, y3 : Push1(i1, i2, i3, a, y1, y2, y3)
                => Shape(q, pi, o2, o3, "none", y1, y2, y3)
  BY DEF Shape, Replies, Resume, Push1

LEMMA OutRepliesBoth ==
  ASSUME NEW p, NEW pi, NEW o1, NEW o2, NEW o3, NEW i1, NEW i2, NEW i3, NEW a, NEW b, NEW q,
         Shape(p, pi, o1, o2, o3, i1, i2, i3), RepliesBoth("out", p, o1, a, b, q)
  PROVE  /\ i2 = "none"
         /\ \A y1, y2, y3 : Push2(i1, i2, i3, a, b, y1, y2, y3)
                => Shape(q, pi, o2, o3, "none", y1, y2, y3)
  BY DEF Shape, RepliesBoth, Push2

LEMMA OutSays ==
  ASSUME NEW p, NEW pi, NEW o1, NEW o2, NEW o3, NEW i1, NEW i2, NEW i3, NEW a, NEW q,
         Shape(p, pi, o1, o2, o3, i1, i2, i3), Says("out", p, a, q)
  PROVE  /\ i3 = "none"
         /\ \A y1, y2, y3 : Push1(i1, i2, i3, a, y1, y2, y3)
                => Shape(q, pi, o1, o2, o3, y1, y2, y3)
  BY DEF Shape, Says, Push1

LEMMA OutSaysBoth ==
  ASSUME NEW p, NEW pi, NEW o1, NEW o2, NEW o3, NEW i1, NEW i2, NEW i3, NEW a, NEW b, NEW q,
         Shape(p, pi, o1, o2, o3, i1, i2, i3), SaysBoth("out", p, o1, a, b, q)
  PROVE  /\ i2 = "none"
         /\ \A y1, y2, y3 : Push2(i1, i2, i3, a, b, y1, y2, y3)
                => Shape(q, pi, o1, o2, o3, y1, y2, y3)
  BY DEF Shape, SaysBoth, Push2
(* What a step of the handler makes of a shape. *)
LEMMA InTakes ==
  ASSUME NEW p, NEW po, NEW o1, NEW o2, NEW o3, NEW i1, NEW i2, NEW i3, NEW q,
         Shape(po, p, o1, o2, o3, i1, i2, i3), Takes("in", p, i1, q)
  PROVE  Shape(po, q, o1, o2, o3, i2, i3, "none")
  BY DEF Shape, Takes, Resume

LEMMA InTakesBoth ==
  ASSUME NEW p, NEW po, NEW o1, NEW o2, NEW o3, NEW i1, NEW i2, NEW i3, NEW q,
         Shape(po, p, o1, o2, o3, i1, i2, i3), TakesBoth("in", p, i1, q)
  PROVE  /\ i2 # "none"
         /\ Shape(po, q, o1, o2, o3, i3, "none", "none")
  BY DEF Shape, TakesBoth, ResumeFree

LEMMA InPasses ==
  ASSUME NEW p, NEW po, NEW o1, NEW o2, NEW o3, NEW i1, NEW i2, NEW i3, NEW q,
         Shape(po, p, o1, o2, o3, i1, i2, i3), Passes("in", p, i1, q)
  PROVE  Shape(po, q, o1, o2, o3, i1, i2, i3)
  BY DEF Shape, Passes, Resume

LEMMA InReplies ==
  ASSUME NEW p, NEW po, NEW o1, NEW o2, NEW o3, NEW i1, NEW i2, NEW i3, NEW a, NEW q,
         Shape(po, p, o1, o2, o3, i1, i2, i3), Replies("in", p, i1, a, q)
  PROVE  /\ o3 = "none"
         /\ \A y1, y2, y3 : Push1(o1, o2, o3, a, y1, y2, y3)
                => Shape(po, q, y1, y2, y3, i2, i3, "none")
  BY DEF Shape, Replies, Resume, Push1

LEMMA InRepliesBoth ==
  ASSUME NEW p, NEW po, NEW o1, NEW o2, NEW o3, NEW i1, NEW i2, NEW i3, NEW a, NEW b, NEW q,
         Shape(po, p, o1, o2, o3, i1, i2, i3), RepliesBoth("in", p, i1, a, b, q)
  PROVE  /\ o2 = "none"
         /\ \A y1, y2, y3 : Push2(o1, o2, o3, a, b, y1, y2, y3)
                => Shape(po, q, y1, y2, y3, i2, i3, "none")
  BY DEF Shape, RepliesBoth, Push2

LEMMA InAnswers ==
  ASSUME NEW p, NEW po, NEW o1, NEW o2, NEW o3, NEW i1, NEW i2, NEW i3, NEW a, NEW q,
         Shape(po, p, o1, o2, o3, i1, i2, i3), Answers("in", p, i1, a, q)
  PROVE  /\ i2 # "none"
         /\ o3 = "none"
         /\ \A y1, y2, y3 : Push1(o1, o2, o3, a, y1, y2, y3)
                => Shape(po, q, y1, y2, y3, i3, "none", "none")
  BY DEF Shape, Answers, Push1

LEMMA InSays ==
  ASSUME NEW p, NEW po, NEW o1, NEW o2, NEW o3, NEW i1, NEW i2, NEW i3, NEW a, NEW q,
         Shape(po, p, o1, o2, o3, i1, i2, i3), Says("in", p, a, q)
  PROVE  /\ o3 = "none"
         /\ \A y1, y2, y3 : Push1(o1, o2, o3, a, y1, y2, y3)
                => Shape(po, q, y1, y2, y3, i1, i2, i3)
  BY DEF Shape, Says, Push1
LEMMA SeenFacts ==
  ASSUME NEW s \in Seq(Frame)
  PROVE  /\ (Seen(s, 1) = "none" <=> s = <<>>)
         /\ Seen(s, 2) # "none" => Len(s) >= 2
         /\ s # <<>> => Seen(s, 1) = Class(Head(s).kind)
         /\ \A j \in 1..3 : (Seen(s, j) = "none" <=> Len(s) < j)
<1>1. \A f \in Frame : Class(f.kind) # "none"
  <2> SUFFICES ASSUME NEW f \in Frame PROVE f.kind # "none"
    BY DEF Class
  <2>1. f.kind \in Kind \cup {"height", "hash", "blocks"}
    BY DEF Frame, Msg, Height, Hash, Blocks
  <2> QED
    BY <2>1 DEF Kind
<1>2. \A j \in 1..3 : (Seen(s, j) = "none" <=> Len(s) < j)
  <2> SUFFICES ASSUME NEW j \in 1..3 PROVE Seen(s, j) = "none" <=> Len(s) < j
    OBVIOUS
  <2>1. CASE Len(s) < j
    BY <2>1 DEF Seen
  <2>2. CASE j <= Len(s)
    <3>1. s[j] \in Frame
      BY <2>2
    <3> QED
      BY <1>1, <2>2, <3>1 DEF Seen
  <2> QED
    BY <2>1, <2>2
<1> QED
  BY <1>2 DEF Seen

LEMMA SeenRest ==
  ASSUME NEW s \in Seq(Frame), Short(s), s # <<>>
  PROVE  /\ Rest(s) \in Seq(Frame) /\ Short(Rest(s))
         /\ Seen(Rest(s), 1) = Seen(s, 2) /\ Seen(Rest(s), 2) = Seen(s, 3)
         /\ Seen(Rest(s), 3) = "none"
  BY DEF Rest, Short, Seen

LEMMA SeenRest2 ==
  ASSUME NEW s \in Seq(Frame), Short(s), Seen(s, 2) # "none"
  PROVE  /\ Short(Rest(Rest(s)))
         /\ Seen(Rest(Rest(s)), 1) = Seen(s, 3)
         /\ Seen(Rest(Rest(s)), 2) = "none" /\ Seen(Rest(Rest(s)), 3) = "none"
<1>1. Len(s) >= 2
  BY SeenFacts
<1>2. Rest(s) \in Seq(Frame) /\ Rest(s) # <<>>
  BY <1>1 DEF Rest
<1> QED
  BY <1>1, <1>2, SeenRest

LEMMA SeenPlus1 ==
  ASSUME NEW s \in Seq(Frame), Short(s), Seen(s, 3) = "none", NEW a \in Frame
  PROVE  /\ Short(Plus(s, One(a)))
         /\ Push1(Seen(s, 1), Seen(s, 2), Seen(s, 3), Class(a.kind),
                  Seen(Plus(s, One(a)), 1), Seen(Plus(s, One(a)), 2), Seen(Plus(s, One(a)), 3))
<1> DEFINE t == Plus(s, One(a))
<1>1. /\ Seen(s, 1) = "none" <=> Len(s) < 1
      /\ Seen(s, 2) = "none" <=> Len(s) < 2
      /\ Seen(s, 3) = "none" <=> Len(s) < 3
  BY SeenFacts
<1>2. Len(s) = 0 \/ Len(s) = 1 \/ Len(s) = 2
  <2> DEFINE m == Len(s)
  <2>1. m \in Nat /\ m < 3
    BY <1>1
  <2> HIDE DEF m
  <2>2. m = 0 \/ m = 1 \/ m = 2
    BY <2>1
  <2> QED
    BY <2>2 DEF m
<1>3. Len(t) = Len(s) + 1 /\ t[Len(s) + 1] = a /\ \A j \in 1..Len(s) : t[j] = s[j]
  BY DEF Plus, One
<1> HIDE DEF t
<1>4. Short(t)
  BY <1>2, <1>3 DEF Short
<1>5. Push1(Seen(s, 1), Seen(s, 2), Seen(s, 3), Class(a.kind), Seen(t, 1), Seen(t, 2), Seen(t, 3))
  <2>1. CASE Len(s) = 0
    <3>1. Seen(t, 1) = Class(a.kind) /\ Seen(t, 2) = "none" /\ Seen(t, 3) = "none"
      BY <1>3, <2>1 DEF Seen
    <3> QED
      BY <1>1, <2>1, <3>1 DEF Push1
  <2>2. CASE Len(s) = 1
    <3>1. Seen(t, 1) = Seen(s, 1) /\ Seen(t, 2) = Class(a.kind) /\ Seen(t, 3) = "none"
      BY <1>3, <2>2 DEF Seen
    <3> QED
      BY <1>1, <2>2, <3>1 DEF Push1
  <2>3. CASE Len(s) = 2
    <3>1. Seen(t, 1) = Seen(s, 1) /\ Seen(t, 2) = Seen(s, 2) /\ Seen(t, 3) = Class(a.kind)
      BY <1>3, <2>3 DEF Seen
    <3> QED
      BY <1>1, <2>3, <3>1 DEF Push1
  <2> QED
    BY <1>2, <2>1, <2>2, <2>3
<1> QED
  BY <1>4, <1>5 DEF t

LEMMA SeenPlus2 ==
  ASSUME NEW s \in Seq(Frame), Short(s), Seen(s, 2) = "none", NEW a \in Frame, NEW b \in Frame
  PROVE  /\ Short(Plus(s, Two(a, b)))
         /\ Push2(Seen(s, 1), Seen(s, 2), Seen(s, 3), Class(a.kind), Class(b.kind),
                  Seen(Plus(s, Two(a, b)), 1), Seen(Plus(s, Two(a, b)), 2),
                  Seen(Plus(s, Two(a, b)), 3))
<1> DEFINE t == Plus(s, Two(a, b))
<1>1. /\ Seen(s, 1) = "none" <=> Len(s) < 1
      /\ Seen(s, 2) = "none" <=> Len(s) < 2
  BY SeenFacts
<1>2. Len(s) = 0 \/ Len(s) = 1
  <2> DEFINE m == Len(s)
  <2>1. m \in Nat /\ m < 2
    BY <1>1
  <2> HIDE DEF m
  <2>2. m = 0 \/ m = 1
    BY <2>1
  <2> QED
    BY <2>2 DEF m
<1>3. /\ Len(t) = Len(s) + 2 /\ t[Len(s) + 1] = a /\ t[Len(s) + 2] = b
      /\ \A j \in 1..Len(s) : t[j] = s[j]
  BY DEF Plus, Two
<1> HIDE DEF t
<1>4. Short(t)
  BY <1>2, <1>3 DEF Short
<1>5. Push2(Seen(s, 1), Seen(s, 2), Seen(s, 3), Class(a.kind), Class(b.kind),
            Seen(t, 1), Seen(t, 2), Seen(t, 3))
  <2>1. CASE Len(s) = 0
    <3>1. Seen(t, 1) = Class(a.kind) /\ Seen(t, 2) = Class(b.kind) /\ Seen(t, 3) = "none"
      BY <1>3, <2>1 DEF Seen
    <3> QED
      BY <1>1, <2>1, <3>1 DEF Push2
  <2>2. CASE Len(s) = 1
    <3>1. Seen(t, 1) = Seen(s, 1) /\ Seen(t, 2) = Class(a.kind) /\ Seen(t, 3) = Class(b.kind)
      BY <1>3, <2>2 DEF Seen
    <3> QED
      BY <1>1, <2>2, <3>1 DEF Push2
  <2> QED
    BY <1>2, <2>1, <2>2
<1> QED
  BY <1>4, <1>5 DEF t

(* What is under way to each side. *)
ToOut(j) == Seen(ch["out"], j)
ToIn(j) == Seen(ch["in"], j)

LEMMA ChannelsAre ==
  ASSUME SyncTypes
  PROVE  /\ ch["out"] \in Seq(Frame) /\ ch["in"] \in Seq(Frame)
         /\ Boxed(pc["out"], pc["in"], ch["out"], ch["in"])
  BY DEF SyncTypes, Channels, Node, Boxed

LEMMA ShapeIs ==
  ASSUME ShapeInv
  PROVE  /\ Short(ch["out"]) /\ Short(ch["in"])
         /\ Shape(pc["out"], pc["in"], ToOut(1), ToOut(2), ToOut(3), ToIn(1), ToIn(2), ToIn(3))
  BY DEF ShapeInv, ToOut, ToIn

LEMMA Reshaped ==
  ASSUME NEW po, NEW pi, NEW s, NEW r, After(po, pi, s, r), Short(s), Short(r),
         Shape(po, pi, Seen(s, 1), Seen(s, 2), Seen(s, 3), Seen(r, 1), Seen(r, 2), Seen(r, 3))
  PROVE  ShapeInv'
  BY DEF After, ShapeInv

(* The worker's ways of using the channels. *)
LEMMA OutDrops ==
  ASSUME SyncTypes, ShapeInv, ch["out"] # <<>>, NEW p, Goto("out", p), ch' = Take("out"),
         Shape(p, pc["in"], ToOut(2), ToOut(3), "none", ToIn(1), ToIn(2), ToIn(3))
  PROVE  ShapeInv'
<1>1. After(p, pc["in"], Rest(ch["out"]), ch["in"])
  BY ChannelsAre, Moved
<1> QED
  BY <1>1, ChannelsAre, ShapeIs, SeenRest, Reshaped DEF ToOut, ToIn

LEMMA OutDrops2 ==
  ASSUME SyncTypes, ShapeInv, ToOut(2) # "none", NEW p, Goto("out", p), ch' = Take2("out"),
         Shape(p, pc["in"], ToOut(3), "none", "none", ToIn(1), ToIn(2), ToIn(3))
  PROVE  ShapeInv'
<1>1. After(p, pc["in"], Rest(Rest(ch["out"])), ch["in"])
  BY ChannelsAre, Moved
<1> QED
  BY <1>1, ChannelsAre, ShapeIs, SeenRest2, Reshaped DEF ToOut, ToIn

LEMMA OutGoes ==
  ASSUME SyncTypes, ShapeInv, NEW p, Goto("out", p), UNCHANGED ch,
         Shape(p, pc["in"], ToOut(1), ToOut(2), ToOut(3), ToIn(1), ToIn(2), ToIn(3))
  PROVE  ShapeInv'
<1>1. After(p, pc["in"], ch["out"], ch["in"])
  BY DEF After, Goto, SyncTypes, Node
<1> QED
  BY <1>1, ShapeIs, Reshaped DEF ToOut, ToIn

LEMMA OutReplies1 ==
  ASSUME SyncTypes, ShapeInv, ch["out"] # <<>>, NEW p, NEW a \in Frame,
         Goto("out", p), ch' = Reply("out", <<a>>), ToIn(3) = "none",
         \A y1, y2, y3 : Push1(ToIn(1), ToIn(2), ToIn(3), Class(a.kind), y1, y2, y3)
             => Shape(p, pc["in"], ToOut(2), ToOut(3), "none", y1, y2, y3)
  PROVE  ShapeInv'
<1>1. After(p, pc["in"], Rest(ch["out"]), Plus(ch["in"], One(a)))
  BY ChannelsAre, Answered, Zenon DEF One
<1> DEFINE r == Plus(ch["in"], One(a))
<1>2. Short(r) /\ Push1(ToIn(1), ToIn(2), ToIn(3), Class(a.kind), Seen(r, 1), Seen(r, 2), Seen(r, 3))
  BY ChannelsAre, ShapeIs, SeenPlus1 DEF ToIn
<1> HIDE DEF r
<1>3. Shape(p, pc["in"], ToOut(2), ToOut(3), "none", Seen(r, 1), Seen(r, 2), Seen(r, 3))
  BY <1>2
<1>4. After(p, pc["in"], Rest(ch["out"]), r)
  BY <1>1 DEF r
<1> QED
  BY <1>2, <1>3, <1>4, ChannelsAre, ShapeIs, SeenRest, Reshaped DEF ToOut

LEMMA OutReplies2 ==
  ASSUME SyncTypes, ShapeInv, ch["out"] # <<>>, NEW p, NEW a \in Frame, NEW b \in Frame,
         Goto("out", p), ch' = Reply("out", <<a, b>>), ToIn(2) = "none",
         \A y1, y2, y3 : Push2(ToIn(1), ToIn(2), ToIn(3), Class(a.kind), Class(b.kind), y1, y2, y3)
             => Shape(p, pc["in"], ToOut(2), ToOut(3), "none", y1, y2, y3)
  PROVE  ShapeInv'
<1>1. After(p, pc["in"], Rest(ch["out"]), Plus(ch["in"], Two(a, b)))
  BY ChannelsAre, Answered, Zenon DEF Two
<1> DEFINE r == Plus(ch["in"], Two(a, b))
<1>2. /\ Short(r)
      /\ Push2(ToIn(1), ToIn(2), ToIn(3), Class(a.kind), Class(b.kind),
               Seen(r, 1), Seen(r, 2), Seen(r, 3))
  BY ChannelsAre, ShapeIs, SeenPlus2 DEF ToIn
<1> HIDE DEF r
<1>3. Shape(p, pc["in"], ToOut(2), ToOut(3), "none", Seen(r, 1), Seen(r, 2), Seen(r, 3))
  BY <1>2
<1>4. After(p, pc["in"], Rest(ch["out"]), r)
  BY <1>1 DEF r
<1> QED
  BY <1>2, <1>3, <1>4, ChannelsAre, ShapeIs, SeenRest, Reshaped DEF ToOut

LEMMA OutSays1 ==
  ASSUME SyncTypes, ShapeInv, NEW p, NEW a \in Frame,
         Goto("out", p), ch' = Say("out", <<a>>), ToIn(3) = "none",
         \A y1, y2, y3 : Push1(ToIn(1), ToIn(2), ToIn(3), Class(a.kind), y1, y2, y3)
             => Shape(p, pc["in"], ToOut(1), ToOut(2), ToOut(3), y1, y2, y3)
  PROVE  ShapeInv'
<1>1. After(p, pc["in"], ch["out"], Plus(ch["in"], One(a)))
  BY ChannelsAre, Answered, Zenon DEF One
<1> DEFINE r == Plus(ch["in"], One(a))
<1>2. Short(r) /\ Push1(ToIn(1), ToIn(2), ToIn(3), Class(a.kind), Seen(r, 1), Seen(r, 2), Seen(r, 3))
  BY ChannelsAre, ShapeIs, SeenPlus1 DEF ToIn
<1> HIDE DEF r
<1>3. Shape(p, pc["in"], ToOut(1), ToOut(2), ToOut(3), Seen(r, 1), Seen(r, 2), Seen(r, 3))
  BY <1>2
<1>4. After(p, pc["in"], ch["out"], r)
  BY <1>1 DEF r
<1> QED
  BY <1>2, <1>3, <1>4, ShapeIs, Reshaped DEF ToOut

LEMMA OutSays2 ==
  ASSUME SyncTypes, ShapeInv, NEW p, NEW a \in Frame, NEW b \in Frame,
         Goto("out", p), ch' = Say("out", <<a, b>>), ToIn(2) = "none",
         \A y1, y2, y3 : Push2(ToIn(1), ToIn(2), ToIn(3), Class(a.kind), Class(b.kind), y1, y2, y3)
             => Shape(p, pc["in"], ToOut(1), ToOut(2), ToOut(3), y1, y2, y3)
  PROVE  ShapeInv'
<1>1. After(p, pc["in"], ch["out"], Plus(ch["in"], Two(a, b)))
  BY ChannelsAre, Answered, Zenon DEF Two
<1> DEFINE r == Plus(ch["in"], Two(a, b))
<1>2. /\ Short(r)
      /\ Push2(ToIn(1), ToIn(2), ToIn(3), Class(a.kind), Class(b.kind),
               Seen(r, 1), Seen(r, 2), Seen(r, 3))
  BY ChannelsAre, ShapeIs, SeenPlus2 DEF ToIn
<1> HIDE DEF r
<1>3. Shape(p, pc["in"], ToOut(1), ToOut(2), ToOut(3), Seen(r, 1), Seen(r, 2), Seen(r, 3))
  BY <1>2
<1>4. After(p, pc["in"], ch["out"], r)
  BY <1>1 DEF r
<1> QED
  BY <1>2, <1>3, <1>4, ShapeIs, Reshaped DEF ToOut

(* The handler's. *)
LEMMA InDrops ==
  ASSUME SyncTypes, ShapeInv, ch["in"] # <<>>, NEW p, Goto("in", p), ch' = Take("in"),
         Shape(pc["out"], p, ToOut(1), ToOut(2), ToOut(3), ToIn(2), ToIn(3), "none")
  PROVE  ShapeInv'
<1>1. After(pc["out"], p, ch["out"], Rest(ch["in"]))
  BY ChannelsAre, Moved
<1> QED
  BY <1>1, ChannelsAre, ShapeIs, SeenRest, Reshaped DEF ToOut, ToIn

LEMMA InDrops2 ==
  ASSUME SyncTypes, ShapeInv, ToIn(2) # "none", NEW p, Goto("in", p), ch' = Take2("in"),
         Shape(pc["out"], p, ToOut(1), ToOut(2), ToOut(3), ToIn(3), "none", "none")
  PROVE  ShapeInv'
<1>1. After(pc["out"], p, ch["out"], Rest(Rest(ch["in"])))
  BY ChannelsAre, Moved
<1> QED
  BY <1>1, ChannelsAre, ShapeIs, SeenRest2, Reshaped DEF ToOut, ToIn

LEMMA InGoes ==
  ASSUME SyncTypes, ShapeInv, NEW p, Goto("in", p), UNCHANGED ch,
         Shape(pc["out"], p, ToOut(1), ToOut(2), ToOut(3), ToIn(1), ToIn(2), ToIn(3))
  PROVE  ShapeInv'
<1>1. After(pc["out"], p, ch["out"], ch["in"])
  BY DEF After, Goto, SyncTypes, Node
<1> QED
  BY <1>1, ShapeIs, Reshaped DEF ToOut, ToIn

LEMMA InReplies1 ==
  ASSUME SyncTypes, ShapeInv, ch["in"] # <<>>, NEW p, NEW a \in Frame,
         Goto("in", p), ch' = Reply("in", <<a>>), ToOut(3) = "none",
         \A y1, y2, y3 : Push1(ToOut(1), ToOut(2), ToOut(3), Class(a.kind), y1, y2, y3)
             => Shape(pc["out"], p, y1, y2, y3, ToIn(2), ToIn(3), "none")
  PROVE  ShapeInv'
<1>1. After(pc["out"], p, Plus(ch["out"], One(a)), Rest(ch["in"]))
  BY ChannelsAre, Answered, Zenon DEF One
<1> DEFINE r == Plus(ch["out"], One(a))
<1>2. Short(r) /\ Push1(ToOut(1), ToOut(2), ToOut(3), Class(a.kind), Seen(r, 1), Seen(r, 2), Seen(r, 3))
  BY ChannelsAre, ShapeIs, SeenPlus1 DEF ToOut
<1> HIDE DEF r
<1>3. Shape(pc["out"], p, Seen(r, 1), Seen(r, 2), Seen(r, 3), ToIn(2), ToIn(3), "none")
  BY <1>2
<1>4. After(pc["out"], p, r, Rest(ch["in"]))
  BY <1>1 DEF r
<1> QED
  BY <1>2, <1>3, <1>4, ChannelsAre, ShapeIs, SeenRest, Reshaped DEF ToIn

LEMMA InReplies2 ==
  ASSUME SyncTypes, ShapeInv, ch["in"] # <<>>, NEW p, NEW a \in Frame, NEW b \in Frame,
         Goto("in", p), ch' = Reply("in", <<a, b>>), ToOut(2) = "none",
         \A y1, y2, y3 : Push2(ToOut(1), ToOut(2), ToOut(3), Class(a.kind), Class(b.kind), y1, y2, y3)
             => Shape(pc["out"], p, y1, y2, y3, ToIn(2), ToIn(3), "none")
  PROVE  ShapeInv'
<1>1. After(pc["out"], p, Plus(ch["out"], Two(a, b)), Rest(ch["in"]))
  BY ChannelsAre, Answered, Zenon DEF Two
<1> DEFINE r == Plus(ch["out"], Two(a, b))
<1>2. /\ Short(r)
      /\ Push2(ToOut(1), ToOut(2), ToOut(3), Class(a.kind), Class(b.kind),
               Seen(r, 1), Seen(r, 2), Seen(r, 3))
  BY ChannelsAre, ShapeIs, SeenPlus2 DEF ToOut
<1> HIDE DEF r
<1>3. Shape(pc["out"], p, Seen(r, 1), Seen(r, 2), Seen(r, 3), ToIn(2), ToIn(3), "none")
  BY <1>2
<1>4. After(pc["out"], p, r, Rest(ch["in"]))
  BY <1>1 DEF r
<1> QED
  BY <1>2, <1>3, <1>4, ChannelsAre, ShapeIs, SeenRest, Reshaped DEF ToIn

LEMMA InSays1 ==
  ASSUME SyncTypes, ShapeInv, NEW p, NEW a \in Frame,
         Goto("in", p), ch' = Say("in", <<a>>), ToOut(3) = "none",
         \A y1, y2, y3 : Push1(ToOut(1), ToOut(2), ToOut(3), Class(a.kind), y1, y2, y3)
             => Shape(pc["out"], p, y1, y2, y3, ToIn(1), ToIn(2), ToIn(3))
  PROVE  ShapeInv'
<1>1. After(pc["out"], p, Plus(ch["out"], One(a)), ch["in"])
  BY ChannelsAre, Answered, Zenon DEF One
<1> DEFINE r == Plus(ch["out"], One(a))
<1>2. Short(r) /\ Push1(ToOut(1), ToOut(2), ToOut(3), Class(a.kind), Seen(r, 1), Seen(r, 2), Seen(r, 3))
  BY ChannelsAre, ShapeIs, SeenPlus1 DEF ToOut
<1> HIDE DEF r
<1>3. Shape(pc["out"], p, Seen(r, 1), Seen(r, 2), Seen(r, 3), ToIn(1), ToIn(2), ToIn(3))
  BY <1>2
<1>4. After(pc["out"], p, r, ch["in"])
  BY <1>1 DEF r
<1> QED
  BY <1>2, <1>3, <1>4, ShapeIs, Reshaped DEF ToIn

LEMMA InResponds ==
  ASSUME SyncTypes, ShapeInv, ToIn(2) # "none", NEW p, NEW a \in Frame,
         Goto("in", p), ch' = Reply2("in", <<a>>), ToOut(3) = "none",
         \A y1, y2, y3 : Push1(ToOut(1), ToOut(2), ToOut(3), Class(a.kind), y1, y2, y3)
             => Shape(pc["out"], p, y1, y2, y3, ToIn(3), "none", "none")
  PROVE  ShapeInv'
<1>1. After(pc["out"], p, Plus(ch["out"], One(a)), Rest(Rest(ch["in"])))
  BY ChannelsAre, Answered, Zenon DEF One
<1> DEFINE r == Plus(ch["out"], One(a))
<1>2. Short(r) /\ Push1(ToOut(1), ToOut(2), ToOut(3), Class(a.kind), Seen(r, 1), Seen(r, 2), Seen(r, 3))
  BY ChannelsAre, ShapeIs, SeenPlus1 DEF ToOut
<1> HIDE DEF r
<1>3. Shape(pc["out"], p, Seen(r, 1), Seen(r, 2), Seen(r, 3), ToIn(3), "none", "none")
  BY <1>2
<1>4. After(pc["out"], p, r, Rest(Rest(ch["in"])))
  BY <1>1 DEF r
<1> QED
  BY <1>2, <1>3, <1>4, ChannelsAre, ShapeIs, SeenRest2, Reshaped DEF ToIn
(* The first frame under way to a side, and either side's ways of using   *)
(* the channels.                                                          *)
First(n) == Seen(ch[n], 1)

LEMMA Taken ==
  ASSUME SyncTypes, ShapeInv, NEW n \in Node, NEW p,
         ch[n] # <<>>, Goto(n, p), ch' = Take(n),
         Takes(n, pc[n], First(n), p)
  PROVE  ShapeInv'
<1>1. CASE n = "out"
  <2>1. Takes("out", pc["out"], ToOut(1), p)
    BY <1>1 DEF First, ToOut
  <2>2. Shape(p, pc["in"], ToOut(2), ToOut(3), "none", ToIn(1), ToIn(2), ToIn(3))
    BY <2>1, ShapeIs, OutTakes
  <2> QED
    BY <1>1, <2>2, OutDrops
<1>2. CASE n = "in"
  <2>1. Takes("in", pc["in"], ToIn(1), p)
    BY <1>2 DEF First, ToIn
  <2>2. Shape(pc["out"], p, ToOut(1), ToOut(2), ToOut(3), ToIn(2), ToIn(3), "none")
    BY <2>1, ShapeIs, InTakes
  <2> QED
    BY <1>2, <2>2, InDrops
<1> QED
  BY <1>1, <1>2 DEF Node

LEMMA TakenBoth ==
  ASSUME SyncTypes, ShapeInv, NEW n \in Node, NEW p,
         Goto(n, p), ch' = Take2(n),
         TakesBoth(n, pc[n], First(n), p)
  PROVE  ShapeInv'
<1>1. CASE n = "out"
  <2>1. TakesBoth("out", pc["out"], ToOut(1), p)
    BY <1>1 DEF First, ToOut
  <2>2. /\ ToOut(2) # "none"
        /\ Shape(p, pc["in"], ToOut(3), "none", "none", ToIn(1), ToIn(2), ToIn(3))
    BY <2>1, ShapeIs, OutTakesBoth
  <2> QED
    BY <1>1, <2>2, OutDrops2
<1>2. CASE n = "in"
  <2>1. TakesBoth("in", pc["in"], ToIn(1), p)
    BY <1>2 DEF First, ToIn
  <2>2. /\ ToIn(2) # "none"
        /\ Shape(pc["out"], p, ToOut(1), ToOut(2), ToOut(3), ToIn(3), "none", "none")
    BY <2>1, ShapeIs, InTakesBoth
  <2> QED
    BY <1>2, <2>2, InDrops2
<1> QED
  BY <1>1, <1>2 DEF Node

LEMMA Passed ==
  ASSUME SyncTypes, ShapeInv, NEW n \in Node, NEW p,
         Goto(n, p), UNCHANGED ch,
         Passes(n, pc[n], First(n), p)
  PROVE  ShapeInv'
<1>1. CASE n = "out"
  <2>1. Passes("out", pc["out"], ToOut(1), p)
    BY <1>1 DEF First, ToOut
  <2>2. Shape(p, pc["in"], ToOut(1), ToOut(2), ToOut(3), ToIn(1), ToIn(2), ToIn(3))
    BY <2>1, ShapeIs, OutPasses
  <2> QED
    BY <1>1, <2>2, OutGoes
<1>2. CASE n = "in"
  <2>1. Passes("in", pc["in"], ToIn(1), p)
    BY <1>2 DEF First, ToIn
  <2>2. Shape(pc["out"], p, ToOut(1), ToOut(2), ToOut(3), ToIn(1), ToIn(2), ToIn(3))
    BY <2>1, ShapeIs, InPasses
  <2> QED
    BY <1>2, <2>2, InGoes
<1> QED
  BY <1>1, <1>2 DEF Node

LEMMA Replied ==
  ASSUME SyncTypes, ShapeInv, NEW n \in Node, NEW p, NEW a \in Frame,
         ch[n] # <<>>, Goto(n, p), ch' = Reply(n, <<a>>),
         Replies(n, pc[n], First(n), Class(a.kind), p)
  PROVE  ShapeInv'
<1>1. CASE n = "out"
  <2>1. Replies("out", pc["out"], ToOut(1), Class(a.kind), p)
    BY <1>1 DEF First, ToOut
  <2>2. /\ ToIn(3) = "none"
        /\ \A y1, y2, y3 : Push1(ToIn(1), ToIn(2), ToIn(3), Class(a.kind), y1, y2, y3)
              => Shape(p, pc["in"], ToOut(2), ToOut(3), "none", y1, y2, y3)
    BY <2>1, ShapeIs, OutReplies
  <2> QED
    BY <1>1, <2>2, OutReplies1
<1>2. CASE n = "in"
  <2>1. Replies("in", pc["in"], ToIn(1), Class(a.kind), p)
    BY <1>2 DEF First, ToIn
  <2>2. /\ ToOut(3) = "none"
        /\ \A y1, y2, y3 : Push1(ToOut(1), ToOut(2), ToOut(3), Class(a.kind), y1, y2, y3)
              => Shape(pc["out"], p, y1, y2, y3, ToIn(2), ToIn(3), "none")
    BY <2>1, ShapeIs, InReplies
  <2> QED
    BY <1>2, <2>2, InReplies1
<1> QED
  BY <1>1, <1>2 DEF Node

LEMMA RepliedBoth ==
  ASSUME SyncTypes, ShapeInv, NEW n \in Node, NEW p, NEW a \in Frame, NEW b \in Frame,
         ch[n] # <<>>, Goto(n, p), ch' = Reply(n, <<a, b>>),
         RepliesBoth(n, pc[n], First(n), Class(a.kind), Class(b.kind), p)
  PROVE  ShapeInv'
<1>1. CASE n = "out"
  <2>1. RepliesBoth("out", pc["out"], ToOut(1), Class(a.kind), Class(b.kind), p)
    BY <1>1 DEF First, ToOut
  <2>2. /\ ToIn(2) = "none"
        /\ \A y1, y2, y3 : Push2(ToIn(1), ToIn(2), ToIn(3), Class(a.kind), Class(b.kind), y1, y2, y3)
              => Shape(p, pc["in"], ToOut(2), ToOut(3), "none", y1, y2, y3)
    BY <2>1, ShapeIs, OutRepliesBoth
  <2> QED
    BY <1>1, <2>2, OutReplies2
<1>2. CASE n = "in"
  <2>1. RepliesBoth("in", pc["in"], ToIn(1), Class(a.kind), Class(b.kind), p)
    BY <1>2 DEF First, ToIn
  <2>2. /\ ToOut(2) = "none"
        /\ \A y1, y2, y3 : Push2(ToOut(1), ToOut(2), ToOut(3), Class(a.kind), Class(b.kind), y1, y2, y3)
              => Shape(pc["out"], p, y1, y2, y3, ToIn(2), ToIn(3), "none")
    BY <2>1, ShapeIs, InRepliesBoth
  <2> QED
    BY <1>2, <2>2, InReplies2
<1> QED
  BY <1>1, <1>2 DEF Node

LEMMA HasAnswered ==
  ASSUME SyncTypes, ShapeInv, NEW n \in Node, NEW p, NEW a \in Frame,
         Goto(n, p), ch' = Reply2(n, <<a>>),
         Answers(n, pc[n], First(n), Class(a.kind), p)
  PROVE  ShapeInv'
<1>1. CASE n = "out"
  BY <1>1 DEF Answers
<1>2. CASE n = "in"
  <2>1. Answers("in", pc["in"], ToIn(1), Class(a.kind), p)
    BY <1>2 DEF First, ToIn
  <2>2. /\ ToIn(2) # "none"
        /\ ToOut(3) = "none"
        /\ \A y1, y2, y3 : Push1(ToOut(1), ToOut(2), ToOut(3), Class(a.kind), y1, y2, y3)
              => Shape(pc["out"], p, y1, y2, y3, ToIn(3), "none", "none")
    BY <2>1, ShapeIs, InAnswers
  <2> QED
    BY <1>2, <2>2, InResponds
<1> QED
  BY <1>1, <1>2 DEF Node

LEMMA Said ==
  ASSUME SyncTypes, ShapeInv, NEW n \in Node, NEW p, NEW a \in Frame,
         Goto(n, p), ch' = Say(n, <<a>>),
         Says(n, pc[n], Class(a.kind), p)
  PROVE  ShapeInv'
<1>1. CASE n = "out"
  <2>1. Says("out", pc["out"], Class(a.kind), p)
    BY <1>1
  <2>2. /\ ToIn(3) = "none"
        /\ \A y1, y2, y3 : Push1(ToIn(1), ToIn(2), ToIn(3), Class(a.kind), y1, y2, y3)
              => Shape(p, pc["in"], ToOut(1), ToOut(2), ToOut(3), y1, y2, y3)
    BY <2>1, ShapeIs, OutSays
  <2> QED
    BY <1>1, <2>2, OutSays1
<1>2. CASE n = "in"
  <2>1. Says("in", pc["in"], Class(a.kind), p)
    BY <1>2
  <2>2. /\ ToOut(3) = "none"
        /\ \A y1, y2, y3 : Push1(ToOut(1), ToOut(2), ToOut(3), Class(a.kind), y1, y2, y3)
              => Shape(pc["out"], p, y1, y2, y3, ToIn(1), ToIn(2), ToIn(3))
    BY <2>1, ShapeIs, InSays
  <2> QED
    BY <1>2, <2>2, InSays1
<1> QED
  BY <1>1, <1>2 DEF Node

LEMMA SaidBoth ==
  ASSUME SyncTypes, ShapeInv, NEW n \in Node, NEW p, NEW a \in Frame, NEW b \in Frame,
         Goto(n, p), ch' = Say(n, <<a, b>>),
         SaysBoth(n, pc[n], First(n), Class(a.kind), Class(b.kind), p)
  PROVE  ShapeInv'
<1>1. CASE n = "out"
  <2>1. SaysBoth("out", pc["out"], ToOut(1), Class(a.kind), Class(b.kind), p)
    BY <1>1 DEF First, ToOut
  <2>2. /\ ToIn(2) = "none"
        /\ \A y1, y2, y3 : Push2(ToIn(1), ToIn(2), ToIn(3), Class(a.kind), Class(b.kind), y1, y2, y3)
              => Shape(p, pc["in"], ToOut(1), ToOut(2), ToOut(3), y1, y2, y3)
    BY <2>1, ShapeIs, OutSaysBoth
  <2> QED
    BY <1>1, <2>2, OutSays2
<1>2. CASE n = "in"
  BY <1>2 DEF SaysBoth
<1> QED
  BY <1>1, <1>2 DEF Node

(* What arrives, and what the loops send. *)
LEMMA FirstIs ==
  ASSUME SyncTypes, NEW n \in Node
  PROVE  /\ First(n) = "none" <=> ch[n] = <<>>
         /\ ch[n] # <<>> => First(n) = Class(Head(ch[n]).kind)
         /\ \A k : Arrives(n, k) => ch[n] # <<>> /\ First(n) = Class(k)
<1>1. ch[n] \in Seq(Frame)
  BY DEF SyncTypes, Channels
<1> QED
  BY <1>1, SeenFacts DEF First, Arrives

LEMMA MsgClass ==
  ASSUME NEW k \in Kind
  PROVE  Msg(k) \in Frame /\ Class(Msg(k).kind) = Class(k)
  BY MsgFrame

LEMMA DataClass ==
  /\ \A c \in Chains : Hash(c) \in Frame /\ Class(Hash(c).kind) = "data"
  /\ \A o \in Offers : Blocks(o) \in Frame /\ Class(Blocks(o).kind) = "data"
  /\ \A h \in 0..MaxHeight : Height(h) \in Frame /\ Class(Height(h).kind) = "height"
  BY HashFrame, BlocksFrame, HeightFrame DEF Class

LEMMA Stays ==
  ASSUME SyncTypes, UNCHANGED pc, NEW n \in Node
  PROVE  Goto(n, pc[n])
  BY DEF SyncTypes, Goto

(* A closed connection, and a new one. *)
LEMMA CloseShape ==
  ASSUME Close
  PROVE  ShapeInv'
<1>1. After("closed", "closed", None, None)
  BY DEF Close, Closed, Idle, Node, After, None
<1>2. Short(None) /\ Seen(None, 1) = "none" /\ Seen(None, 2) = "none" /\ Seen(None, 3) = "none"
  BY DEF Short, Seen, None
<1>3. Shape("closed", "closed", "none", "none", "none", "none", "none", "none")
  BY DEF Shape
<1> QED
  BY <1>1, <1>2, <1>3, Reshaped

LEMMA DialShape ==
  ASSUME Dial
  PROVE  ShapeInv'
<1> DEFINE t == Two(Msg("version"), Msg("ourversion"))
<1>1. /\ pc' = [out |-> "ok", in |-> "top"]
      /\ ch' = [out |-> None, in |-> t]
  BY Zenon DEF Dial, None, Two
<1>2. Short(None) /\ Seen(None, 1) = "none" /\ Seen(None, 2) = "none" /\ Seen(None, 3) = "none"
  BY DEF Short, Seen, None
<1>3. Short(t) /\ Seen(t, 1) = "version" /\ Seen(t, 2) = "ourversion" /\ Seen(t, 3) = "none"
  BY DEF Short, Seen, Two, Msg, Class
<1> HIDE DEF t
<1>4. After("ok", "top", None, t)
  BY <1>1 DEF After
<1>5. Shape("ok", "top", "none", "none", "none", "version", "ourversion", "none")
  BY DEF Shape
<1> QED
  BY <1>2, <1>3, <1>4, <1>5, Reshaped

(* Steps keep the shape, action by action. *)
LEMMA VersionShape ==
  ASSUME SyncTypes, ShapeInv, Version
  PROVE  ShapeInv'
<1>1. CASE ch' = Reply2("in", <<Msg("ok")>>) /\ UNCHANGED pc
  <2>1. pc["in"] = "top" /\ First("in") = Class("version")
    BY FirstIs DEF Version, AtTop, Node
  <2>2. Msg("ok") \in Frame /\ Class(Msg("ok").kind) = Class("ok")
    BY MsgClass DEF Kind
  <2>3. Answers("in", pc["in"], First("in"), Class(Msg("ok").kind), "top")
    BY <2>1, <2>2 DEF Answers, Class
  <2>4. Goto("in", "top")
    BY <1>1, <2>1, Stays DEF Node
  <2> QED
    BY <1>1, <2>2, <2>3, <2>4, HasAnswered DEF Node
<1> QED
  BY <1>1, CloseShape, Zenon DEF Version

LEMMA HandshakeShape ==
  ASSUME SyncTypes, ShapeInv, Handshake
  PROVE  ShapeInv'
<1> USE DEF Node
<1>1. /\ Msg("getversion") \in Frame /\ Class(Msg("getversion").kind) = "getversion"
      /\ Msg("ourversion") \in Frame /\ Class(Msg("ourversion").kind) = "ourversion"
      /\ Msg("hello") \in Frame /\ Class(Msg("hello").kind) = "hello"
      /\ Msg("peers") \in Frame /\ Class(Msg("peers").kind) = "peers"
      /\ Msg("peerlist") \in Frame /\ Class(Msg("peerlist").kind) = "peerlist"
  BY MsgClass DEF Kind, Class
<1>2. CASE /\ pc["out"] = "ok" /\ Arrives("out", "ok")
           /\ ch' = Reply("out", <<Msg("getversion")>>) /\ Goto("out", "version")
  <2>1. ch["out"] # <<>> /\ First("out") = "ok"
    BY <1>2, FirstIs DEF Class
  <2>2. Replies("out", pc["out"], First("out"), Class(Msg("getversion").kind), "version")
    BY <1>1, <1>2, <2>1 DEF Replies
  <2> QED
    BY <1>1, <1>2, <2>1, <2>2, Replied
<1>3. CASE /\ AtTop("in") /\ Arrives("in", "getversion")
           /\ ch' = Reply("in", <<Msg("ourversion")>>) /\ UNCHANGED pc
  <2>1. ch["in"] # <<>> /\ First("in") = "getversion" /\ pc["in"] = "top"
    BY <1>3, FirstIs DEF Class, AtTop
  <2>2. Replies("in", pc["in"], First("in"), Class(Msg("ourversion").kind), "top")
    BY <1>1, <2>1 DEF Replies
  <2>3. Goto("in", "top")
    BY <1>3, <2>1, Stays
  <2> QED
    BY <1>1, <1>3, <2>1, <2>2, <2>3, Replied
<1>4. CASE /\ pc["out"] = "version" /\ Arrives("out", "ourversion")
           /\ ch' = Reply("out", <<Msg("hello")>>) /\ Goto("out", "top")
  <2>1. ch["out"] # <<>> /\ First("out") = "ourversion"
    BY <1>4, FirstIs DEF Class
  <2>2. Replies("out", pc["out"], First("out"), Class(Msg("hello").kind), "top")
    BY <1>1, <1>4, <2>1 DEF Replies
  <2> QED
    BY <1>1, <1>4, <2>1, <2>2, Replied
<1>5. CASE /\ AtTop("in") /\ Arrives("in", "hello")
           /\ ch' = Reply("in", <<Msg("peers"), Msg("peerlist")>>) /\ Goto("in", "sayssync")
  <2>1. ch["in"] # <<>> /\ First("in") = "hello" /\ pc["in"] = "top"
    BY <1>5, FirstIs DEF Class, AtTop
  <2>2. RepliesBoth("in", pc["in"], First("in"), Class(Msg("peers").kind),
                    Class(Msg("peerlist").kind), "sayssync")
    BY <1>1, <2>1 DEF RepliesBoth
  <2> QED
    BY <1>1, <1>5, <2>1, <2>2, RepliedBoth
<1>6. CASE AtTop("out") /\ Arrives("out", "peers") /\ ch' = Take2("out") /\ UNCHANGED pc
  <2>1. First("out") = "peers" /\ pc["out"] = "top"
    BY <1>6, FirstIs DEF Class, AtTop
  <2>2. TakesBoth("out", pc["out"], First("out"), "top") /\ Goto("out", "top")
    BY <1>6, <2>1, Stays DEF TakesBoth
  <2> QED
    BY <1>6, <2>2, TakenBoth
<1> QED
  BY <1>2, <1>3, <1>4, <1>5, <1>6, Zenon DEF Handshake

LEMMA ChatShape ==
  ASSUME SyncTypes, ShapeInv, HandlerSync \/ Mempools \/ SaysSync \/ sendsync
  PROVE  ShapeInv'
<1> USE DEF Node
<1>1. /\ Msg("sync") \in Frame /\ Class(Msg("sync").kind) = "sync"
      /\ Msg("sendsync") \in Frame /\ Class(Msg("sendsync").kind) = "sendsync"
      /\ Msg("mempool") \in Frame /\ Class(Msg("mempool").kind) = "mempool"
      /\ Msg("pool") \in Frame /\ Class(Msg("pool").kind) = "data"
  BY MsgClass DEF Kind, Class
<1>2. CASE HandlerSync
  <2>1. /\ ch["in"] # <<>> /\ pc["in"] = "top" /\ ch' = Take("in")
        /\ \/ First("in") = "sendsync" /\ Goto("in", "sayssync")
           \/ First("in") = "nonewblk" /\ Goto("in", "says")
    BY <1>2, FirstIs DEF Class, AtTop, HandlerSync
  <2>2. \E q : Takes("in", pc["in"], First("in"), q) /\ Goto("in", q)
    BY <2>1 DEF Takes
  <2> QED
    BY <2>1, <2>2, Taken
<1>3. CASE SaysSync
  <2>1. Says("in", pc["in"], Class(Msg("sync").kind), "top")
    BY <1>1, <1>3 DEF SaysSync, Says
  <2> QED
    BY <1>1, <1>3, <2>1, Said DEF SaysSync
<1>4. CASE sendsync
  <2>1. Says("out", pc["out"], Class(Msg("sendsync").kind), "top")
    BY <1>1, <1>4 DEF sendsync, Says
  <2> QED
    BY <1>1, <1>4, <2>1, Said DEF sendsync
<1>5. CASE AtTop("out") /\ Arrives("out", "nonewblk")
           /\ ch' = Reply("out", <<Msg("mempool"), Msg("pool")>>) /\ Goto("out", "pool")
  <2>1. ch["out"] # <<>> /\ First("out") = "nonewblk" /\ pc["out"] = "top"
    BY <1>5, FirstIs DEF Class, AtTop
  <2>2. RepliesBoth("out", pc["out"], First("out"), Class(Msg("mempool").kind),
                    Class(Msg("pool").kind), "pool")
    BY <1>1, <2>1 DEF RepliesBoth
  <2> QED
    BY <1>1, <1>5, <2>1, <2>2, RepliedBoth
<1>6. CASE AtTop("out") /\ Arrives("out", "nonewblk") /\ ch' = Take("out") /\ Goto("out", "sendsync")
  <2>1. ch["out"] # <<>> /\ First("out") = "nonewblk" /\ pc["out"] = "top"
    BY <1>6, FirstIs DEF Class, AtTop
  <2>2. Takes("out", pc["out"], First("out"), "sendsync")
    BY <2>1 DEF Takes
  <2> QED
    BY <1>6, <2>1, <2>2, Taken
<1>7. CASE AtTop("in") /\ Arrives("in", "mempool") /\ ch' = Reply2("in", <<Msg("pool")>>) /\ UNCHANGED pc
  <2>1. First("in") = "mempool" /\ pc["in"] = "top"
    BY <1>7, FirstIs DEF Class, AtTop
  <2>2. Answers("in", pc["in"], First("in"), Class(Msg("pool").kind), "top") /\ Goto("in", "top")
    BY <1>1, <1>7, <2>1, Stays DEF Answers
  <2> QED
    BY <1>1, <1>7, <2>2, HasAnswered
<1>8. CASE pc["out"] = "pool" /\ Arrives("out", "pool") /\ ch' = Take("out") /\ Goto("out", "sendsync")
  <2>1. ch["out"] # <<>> /\ First("out") = "data"
    BY <1>8, FirstIs DEF Class
  <2>2. Takes("out", pc["out"], First("out"), "sendsync")
    BY <1>8, <2>1 DEF Takes
  <2> QED
    BY <1>8, <2>1, <2>2, Taken
<1>9. CASE Mempools
  BY <1>5, <1>6, <1>7, <1>8, <1>9, Zenon DEF Mempools
<1> QED
  BY <1>2, <1>3, <1>4, <1>9

LEMMA CompareShape ==
  ASSUME SyncTypes, ShapeInv, Sync \/ HandlerHeight \/ HandlerCompare \/ HandlerAgain \/ WorkerCompare \/ WorkerAgain
  PROVE  ShapeInv'
<1> USE DEF Node
<1>1. /\ \A n \in Node : /\ Height(hdd_block(n)) \in Frame
                         /\ Class(Height(hdd_block(n)).kind) = "height"
                         /\ Hash(chain[n]) \in Frame /\ Class(Hash(chain[n]).kind) = "data"
      /\ Msg("blockheight") \in Frame /\ Class(Msg("blockheight").kind) = "blockheight"
  <2>1. \A n \in Node : hdd_block(n) \in 0..MaxHeight /\ chain[n] \in Chains
    BY Heights
  <2>2. Msg("blockheight") \in Frame /\ Class(Msg("blockheight").kind) = "blockheight"
    BY MsgClass DEF Kind, Class
  <2> QED
    BY <2>1, <2>2, DataClass, Zenon
<1>2. CASE Sync
  <2>1. /\ ch["out"] # <<>> /\ First("out") = "sync" /\ pc["out"] = "top"
        /\ ch' = Reply("out", <<Msg("blockheight"), Height(hdd_block("out"))>>)
        /\ Goto("out", "height")
    BY <1>2, FirstIs DEF Class, AtTop, Sync
  <2>2. RepliesBoth("out", pc["out"], First("out"), Class(Msg("blockheight").kind),
                    Class(Height(hdd_block("out")).kind), "height")
    BY <1>1, <2>1 DEF RepliesBoth
  <2> QED
    BY <1>1, <2>1, <2>2, RepliedBoth
<1>3. CASE HandlerHeight
  <2>1. /\ First("in") = "blockheight" /\ pc["in"] = "top"
        /\ ch' = Reply2("in", <<Height(hdd_block("in"))>>) /\ Goto("in", "compare")
    BY <1>3, FirstIs DEF Class, AtTop, HandlerHeight
  <2>2. Answers("in", pc["in"], First("in"), Class(Height(hdd_block("in")).kind), "compare")
    BY <1>1, <2>1 DEF Answers
  <2> QED
    BY <1>1, <2>1, <2>2, HasAnswered
<1>4. CASE pc["in"] = "compare" /\ ch' = Say("in", <<Hash(chain["in"])>>) /\ Goto("in", "top")
  <2>1. Says("in", pc["in"], Class(Hash(chain["in"]).kind), "top")
    BY <1>1, <1>4 DEF Says
  <2> QED
    BY <1>1, <1>4, <2>1, Said
<1>5. CASE pc["in"] = "compare" /\ UNCHANGED ch /\ Goto("in", "again")
  <2>1. Passes("in", pc["in"], First("in"), "again")
    BY <1>5 DEF Passes
  <2> QED
    BY <1>5, <2>1, Passed
<1>8. CASE HandlerAgain
  <2>1. pc["in"] = "again" /\ UNCHANGED ch /\ (Goto("in", "hash") \/ Goto("in", "top"))
    BY <1>8, Zenon DEF HandlerAgain
  <2>2. Passes("in", pc["in"], First("in"), "hash") /\ Passes("in", pc["in"], First("in"), "top")
    BY <2>1 DEF Passes
  <2> QED
    BY <2>1, <2>2, Passed
<1>9. CASE WorkerAgain
  <2>1. /\ pc["out"] = "again" /\ Goto("out", "top")
        /\ ch' = ch \/ ch' = Say("out", <<Hash(chain["out"])>>)
    BY <1>9, Zenon DEF WorkerAgain
  <2>2. /\ Passes("out", pc["out"], First("out"), "top")
        /\ Says("out", pc["out"], Class(Hash(chain["out"]).kind), "top")
    BY <1>1, <2>1 DEF Passes, Says
  <2> QED
    BY <1>1, <2>1, <2>2, Passed, Said
<1>6. CASE WorkerCompare
  <2>1. pc["out"] = "height" /\ ch["out"] # <<>> /\ First("out") = "height"
    BY <1>6, FirstIs DEF Class, WorkerCompare
  <2>2. ch' = Take("out") /\ (Goto("out", "hash") \/ Goto("out", "again"))
    BY <1>6, Zenon DEF WorkerCompare
  <2>3. /\ Takes("out", pc["out"], First("out"), "hash")
        /\ Takes("out", pc["out"], First("out"), "again")
    BY <2>1 DEF Takes
  <2> QED
    BY <2>1, <2>2, <2>3, Taken
<1>7. CASE HandlerCompare
  BY <1>4, <1>5, <1>7, Zenon DEF HandlerCompare
<1> QED
  BY <1>2, <1>3, <1>6, <1>7, <1>8, <1>9

LEMMA NotFoundShape ==
  ASSUME SyncTypes, NEW n, NEW s, NotFound(n, s),
         Goto(n, "top") /\ ch' = s => ShapeInv'
  PROVE  ShapeInv'
  BY CloseShape, Zenon DEF NotFound

LEMMA LookupShape ==
  ASSUME SyncTypes, ShapeInv, NEW n \in Node, Lookup(n)
  PROVE  ShapeInv'
<1> DEFINE c == Head(ch[n]).hash
<1>1. /\ Msg("blocknf") \in Frame /\ Class(Msg("blocknf").kind) = "blocknf"
      /\ Msg("nonewblk") \in Frame /\ Class(Msg("nonewblk").kind) = "nonewblk"
      /\ Msg("blocksfnd") \in Frame /\ Class(Msg("blocksfnd").kind) = "blocksfnd"
  BY MsgClass DEF Kind, Class
<1>2. pc[n] = "hash" /\ ch[n] # <<>> /\ First(n) = "data" /\ Head(ch[n]).kind = "hash"
  BY FirstIs DEF Class, Lookup, Arrives
<1>3. c \in Chains
  BY <1>2, Arrived, FrameContent
<1> HIDE DEF c
<1>4. Hash(c) \in Frame /\ Class(Hash(c).kind) = "data"
  BY <1>3, DataClass
<1>5. CASE NotFound(n, Reply(n, <<Msg("blocknf"), Hash(c)>>))
  <2>1. RepliesBoth(n, pc[n], First(n), Class(Msg("blocknf").kind), Class(Hash(c).kind), "top")
    BY <1>1, <1>2, <1>4 DEF RepliesBoth
  <2>2. Goto(n, "top") /\ ch' = Reply(n, <<Msg("blocknf"), Hash(c)>>) => ShapeInv'
    BY <1>1, <1>2, <1>4, <2>1, RepliedBoth
  <2> QED
    BY <1>5, <2>2, NotFoundShape
<1>6. CASE ch' = Reply(n, <<Msg("nonewblk")>>) /\ Goto(n, "top")
  <2>1. Replies(n, pc[n], First(n), Class(Msg("nonewblk").kind), "top")
    BY <1>1, <1>2 DEF Replies
  <2> QED
    BY <1>1, <1>2, <1>6, <2>1, Replied
<1>7. CASE ch' = Reply(n, <<Msg("blocksfnd")>>) /\ Goto(n, "confirm")
  <2>1. Replies(n, pc[n], First(n), Class(Msg("blocksfnd").kind), "confirm")
    BY <1>1, <1>2 DEF Replies
  <2> QED
    BY <1>1, <1>2, <1>7, <2>1, Replied
<1> QED
  BY <1>5, <1>6, <1>7, Zenon DEF Lookup, c

LEMMA ConfirmShape ==
  ASSUME SyncTypes, ShapeInv, NEW n \in Node, Confirm(n)
  PROVE  ShapeInv'
<1>1. /\ pc[n] = "confirm" /\ ch[n] # <<>> /\ Goto(n, "top")
      /\ First(n) # "none" /\ First(n) = Class(Head(ch[n]).kind)
  BY FirstIs DEF Confirm
<1>2. CASE Head(ch[n]).kind = "blockscf"
  <2>1. Blocks(offer[n]) \in Frame /\ Class(Blocks(offer[n]).kind) = "data"
    BY DataClass DEF SyncTypes
  <2>2. Replies(n, pc[n], First(n), Class(Blocks(offer[n]).kind), "top")
    BY <1>1, <1>2, <2>1 DEF Replies, Class
  <2>3. ch' = Reply(n, <<Blocks(offer[n])>>)
    BY <1>2, Zenon DEF Confirm
  <2> QED
    BY <1>1, <2>1, <2>2, <2>3, Replied
<1>3. CASE Head(ch[n]).kind # "blockscf"
  <2>1. ch' = Take(n)
    BY <1>3, Zenon DEF Confirm
  <2>2. Takes(n, pc[n], First(n), "top")
    BY <1>1 DEF Takes
  <2> QED
    BY <1>1, <2>1, <2>2, Taken
<1> QED
  BY <1>2, <1>3

LEMMA BlocksFoundShape ==
  ASSUME SyncTypes, ShapeInv, NEW n \in Node, BlocksFound(n)
  PROVE  ShapeInv'
<1>1. /\ Msg("blockscf") \in Frame /\ Class(Msg("blockscf").kind) = "data"
      /\ Msg("blocksrj") \in Frame /\ Class(Msg("blocksrj").kind) = "data"
  BY MsgClass DEF Kind, Class
<1>2. pc[n] = "top" /\ ch[n] # <<>> /\ First(n) = "blocksfnd"
  BY FirstIs DEF Class, BlocksFound, AtTop
<1>3. /\ Takes(n, pc[n], First(n), Resume(n))
      /\ Replies(n, pc[n], First(n), Class(Msg("blockscf").kind), "blocks")
      /\ Replies(n, pc[n], First(n), Class(Msg("blocksrj").kind), Resume(n))
  BY <1>1, <1>2 DEF Takes, Replies
<1>4. CASE ch' = Take(n) /\ Goto(n, Resume(n))
  BY <1>2, <1>3, <1>4, Taken
<1>5. CASE ch' = Reply(n, <<Msg("blockscf")>>) /\ Goto(n, "blocks")
  BY <1>1, <1>2, <1>3, <1>5, Replied
<1>6. CASE ch' = Reply(n, <<Msg("blocksrj")>>) /\ Goto(n, Resume(n))
  BY <1>1, <1>2, <1>3, <1>6, Replied
<1> QED
  BY <1>4, <1>5, <1>6, Zenon DEF BlocksFound

LEMMA DigestShape ==
  ASSUME SyncTypes, ShapeInv, NEW n \in Node, digest_block(n) \/ blocknf(n)
  PROVE  ShapeInv'
<1>1. CASE digest_block(n)
  <2>1. pc[n] = "blocks" /\ ch[n] # <<>> /\ First(n) # "none"
    BY <1>1, FirstIs DEF digest_block, Arrives
  <2>2. Takes(n, pc[n], First(n), Resume(n))
    BY <2>1 DEF Takes
  <2>3. CASE ch' = Take(n) /\ Goto(n, Resume(n))
    BY <2>1, <2>2, <2>3, Taken
  <2> QED
    BY <1>1, <2>3, CloseShape, Zenon DEF digest_block, Rejected
<1>2. CASE blocknf(n)
  <2>1. pc[n] = "top" /\ First(n) = "blocknf" /\ ch' = Take2(n) /\ Goto(n, ResumeFree(n))
    BY <1>2, FirstIs DEF Class, blocknf, AtTop
  <2>2. TakesBoth(n, pc[n], First(n), ResumeFree(n))
    BY <2>1 DEF TakesBoth
  <2> QED
    BY <2>1, <2>2, TakenBoth
<1> QED
  BY <1>1, <1>2

LEMMA NoHashShape ==
  ASSUME SyncTypes, ShapeInv, NEW n \in Node, NoHash(n)
  PROVE  ShapeInv'
<1>1. /\ Msg("blocknf") \in Frame /\ Class(Msg("blocknf").kind) = "blocknf"
      /\ Hash(<<>>) \in Frame /\ Class(Hash(<<>>).kind) = "data"
  BY MsgClass, DataClass, NoOfferType DEF Kind, Class
<1>2. CASE Unexpected(n) /\ NotFound(n, Reply(n, <<Msg("blocknf"), Hash(<<>>)>>))
  <2>1. pc[n] = "hash" /\ ch[n] # <<>> /\ First(n) # "none"
    BY <1>2, FirstIs DEF NoHash, Unexpected
  <2>2. RepliesBoth(n, pc[n], First(n), Class(Msg("blocknf").kind), Class(Hash(<<>>).kind), "top")
    BY <1>1, <2>1 DEF RepliesBoth
  <2>3. Goto(n, "top") /\ ch' = Reply(n, <<Msg("blocknf"), Hash(<<>>)>>) => ShapeInv'
    BY <1>1, <2>1, <2>2, RepliedBoth
  <2> QED
    BY <1>2, <2>3, NotFoundShape
<1>3. CASE /\ Quiet(n) /\ n = "out"
           /\ NotFound(n, Say(n, <<Msg("blocknf"), Hash(<<>>)>>))
  <2>1. pc[n] = "hash" /\ First(n) = "none"
    BY <1>3, FirstIs DEF NoHash, Quiet
  <2>2. SaysBoth(n, pc[n], First(n), Class(Msg("blocknf").kind), Class(Hash(<<>>).kind), "top")
    BY <1>1, <1>3, <2>1 DEF SaysBoth
  <2>3. Goto(n, "top") /\ ch' = Say(n, <<Msg("blocknf"), Hash(<<>>)>>) => ShapeInv'
    BY <1>1, <2>2, SaidBoth
  <2> QED
    BY <1>3, <2>3, NotFoundShape
<1> QED
  BY <1>2, <1>3, CloseShape, Zenon DEF NoHash

LEMMA NoAnswerShape ==
  ASSUME SyncTypes, ShapeInv, NEW n \in Node, NoConfirmation(n) \/ NoBlocks(n)
  PROVE  ShapeInv'
<1>1. CASE NoConfirmation(n)
  <2>1. pc[n] = "confirm" /\ First(n) = "none" /\ UNCHANGED ch /\ Goto(n, "top")
    BY <1>1, FirstIs DEF NoConfirmation, Quiet
  <2>2. Passes(n, pc[n], First(n), "top")
    BY <2>1 DEF Passes
  <2> QED
    BY <2>1, <2>2, Passed
<1>2. CASE NoBlocks(n) /\ ch' = (IF ch[n] = <<>> THEN ch ELSE Take(n)) /\ Goto(n, Resume(n))
  <2>1. pc[n] = "blocks" /\ (First(n) = "none" <=> ch[n] = <<>>)
    BY <1>2, FirstIs DEF NoBlocks
  <2>2. CASE ch[n] = <<>>
    <3>1. Passes(n, pc[n], First(n), Resume(n)) /\ UNCHANGED ch
      BY <1>2, <2>1, <2>2 DEF Passes
    <3> QED
      BY <1>2, <3>1, Passed
  <2>3. CASE ch[n] # <<>>
    <3>1. Takes(n, pc[n], First(n), Resume(n)) /\ ch' = Take(n)
      BY <1>2, <2>1, <2>3 DEF Takes
    <3> QED
      BY <1>2, <2>3, <3>1, Taken
  <2> QED
    BY <2>2, <2>3
<1> QED
  BY <1>1, <1>2, CloseShape, Zenon DEF NoBlocks, Rejected

LEMMA NoHeightShape ==
  ASSUME SyncTypes, ShapeInv, SyncFails \/ NoPool
  PROVE  ShapeInv'
<1> USE DEF Node
<1>1. CASE SyncFails /\ Unexpected("out") /\ ch' = Take("out")
  <2>1. /\ pc["out"] = "height" /\ ch["out"] # <<>> /\ Goto("out", "top")
        /\ Head(ch["out"]).kind # "height"
    BY <1>1 DEF SyncFails, Unexpected, Expected
  <2>2. First("out") \notin {"none", "height"}
    BY <2>1, FirstIs DEF Class
  <2>3. Takes("out", pc["out"], First("out"), "top")
    BY <2>1, <2>2 DEF Takes
  <2> QED
    BY <1>1, <2>1, <2>3, Taken
<1>2. CASE SyncFails /\ Quiet("out") /\ UNCHANGED ch
  <2>1. pc["out"] = "height" /\ First("out") = "none" /\ Goto("out", "top")
    BY <1>2, FirstIs DEF SyncFails, Quiet
  <2>2. Passes("out", pc["out"], First("out"), "top")
    BY <2>1 DEF Passes
  <2> QED
    BY <1>2, <2>1, <2>2, Passed
<1>3. CASE NoPool /\ Unexpected("out") /\ ch' = Take("out")
  <2>1. pc["out"] = "pool" /\ ch["out"] # <<>> /\ Goto("out", "sendsync") /\ First("out") # "none"
    BY <1>3, FirstIs DEF NoPool, Unexpected
  <2>2. Takes("out", pc["out"], First("out"), "sendsync")
    BY <2>1 DEF Takes
  <2> QED
    BY <1>3, <2>1, <2>2, Taken
<1>4. CASE NoPool /\ Quiet("out") /\ UNCHANGED ch
  <2>1. pc["out"] = "pool" /\ First("out") = "none" /\ Goto("out", "sendsync")
    BY <1>4, FirstIs DEF NoPool, Quiet
  <2>2. Passes("out", pc["out"], First("out"), "sendsync")
    BY <2>1 DEF Passes
  <2> QED
    BY <1>4, <2>1, <2>2, Passed
<1> QED
  BY <1>1, <1>2, <1>3, <1>4, Zenon DEF SyncFails, NoPool

LEMMA InitShape == Init => ShapeInv
<1> SUFFICES ASSUME Init PROVE ShapeInv
  OBVIOUS
<1>1. Boxed("closed", "closed", None, None)
  BY DEF Init, Boxed, Closed, Idle, Node, None
<1>2. Short(None) /\ Seen(None, 1) = "none" /\ Seen(None, 2) = "none" /\ Seen(None, 3) = "none"
  BY DEF Short, Seen, None
<1>3. Shape("closed", "closed", "none", "none", "none", "none", "none", "none")
  BY DEF Shape
<1> QED
  BY <1>1, <1>2, <1>3 DEF Boxed, ShapeInv

LEMMA NextShape ==
  ASSUME SyncTypes, ShapeInv, [Next]_vars
  PROVE  ShapeInv'
<1>1. CASE UNCHANGED <<pc, ch>>
  BY <1>1, Zenon DEF ShapeInv
<1>2. CASE Environment \/ UNCHANGED vars
  BY <1>1, <1>2, Zenon DEF Environment, vars
<1>3. ASSUME NEW n \in Node, Broken(n) \/ LoopEnds(n)
      PROVE  ShapeInv'
  BY <1>3, CloseShape, Zenon DEF Broken, LoopEnds
<1>4. CASE Exchange
  BY <1>3, <1>4, DialShape, VersionShape, HandshakeShape, ChatShape, CompareShape, LookupShape,
     ConfirmShape, BlocksFoundShape, DigestShape, NoHashShape, NoAnswerShape, NoHeightShape,
     Zenon DEF Exchange, Chat
<1> QED
  BY <1>2, <1>4, Zenon DEF Next

-----------------------------------------------------------------------------
(* The flags of the two nodes. *)
Flags == busy \in [Node -> BOOLEAN] /\ slot \in BOOLEAN /\ round \in BOOLEAN

LEMMA InitFlags == Init => Flags
<1> SUFFICES ASSUME Init PROVE Flags
  OBVIOUS
<1>1. busy = [n \in Node |-> FALSE] /\ slot = FALSE /\ round = TRUE
  BY Zenon DEF Init
<1>2. slot \in BOOLEAN /\ round \in BOOLEAN
  BY <1>1, Zenon
<1>3. busy \in [Node -> BOOLEAN]
  BY <1>1
<1> QED
  BY <1>2, <1>3, Zenon DEF Flags

LEMMA SlotFlag ==
  ASSUME Flags, [Next]_vars
  PROVE  slot' \in BOOLEAN
<1>1. slot \in BOOLEAN
  BY DEF Flags
<1>2. ASSUME NEW n, EndSlot(n) PROVE slot' \in BOOLEAN
  BY <1>2, Zenon DEF EndSlot
<1>3. ASSUME Close PROVE slot' \in BOOLEAN
  BY <1>3, Zenon DEF Close
<1>4. ASSUME NEW n, NEW s, NotFound(n, s) PROVE slot' \in BOOLEAN
  BY <1>2, <1>3, <1>4, Zenon DEF NotFound
<1>5. ASSUME UNCHANGED slot PROVE slot' \in BOOLEAN
  BY <1>1, <1>5
<1>6. ASSUME slot' = TRUE \/ slot' = FALSE PROVE slot' \in BOOLEAN
  BY <1>6, Zenon
<1>7. CASE Dial \/ Version \/ Chat \/ SaysSync \/ sendsync
  BY <1>3, <1>5, <1>7, Zenon DEF Dial, Version, Chat, SaysSync, sendsync
<1>8. CASE Sync \/ HandlerHeight \/ HandlerCompare \/ HandlerAgain \/ WorkerCompare \/ WorkerAgain
  BY <1>5, <1>6, <1>8, Zenon DEF Sync, HandlerHeight, HandlerCompare, HandlerAgain, WorkerCompare, WorkerAgain
<1>9. ASSUME NEW n, Lookup(n) \/ Confirm(n) \/ NoHash(n) \/ NoConfirmation(n)
      PROVE  slot' \in BOOLEAN
  BY <1>2, <1>3, <1>4, <1>5, <1>9, Zenon DEF Lookup, Confirm, NoHash, NoConfirmation
<1>10. ASSUME NEW n, BlocksFound(n) \/ digest_block(n) \/ blocknf(n) \/ Broken(n) \/ NoBlocks(n)
                       \/ LoopEnds(n)
       PROVE  slot' \in BOOLEAN
  BY <1>3, <1>5, <1>10, Zenon DEF BlocksFound, digest_block, blocknf, Broken, NoBlocks, LoopEnds, Rejected
<1>11. CASE SyncFails \/ NoPool
  BY <1>5, <1>6, <1>11, Zenon DEF SyncFails, NoPool
<1>12. CASE Environment \/ UNCHANGED vars
  BY <1>5, <1>12, Zenon DEF Environment, vars
<1> QED
  BY <1>7, <1>8, <1>9, <1>10, <1>11, <1>12, Zenon DEF Next, Exchange

LEMMA RoundFlag ==
  ASSUME Flags, [Next]_vars
  PROVE  round' \in BOOLEAN
<1>1. round \in BOOLEAN
  BY DEF Flags
<1>2. ASSUME UNCHANGED round PROVE round' \in BOOLEAN
  BY <1>1, <1>2
<1>3. ASSUME round' = TRUE \/ round' = FALSE PROVE round' \in BOOLEAN
  BY <1>3, Zenon
<1>4. ASSUME NEW n, Quiet(n) PROVE round' \in BOOLEAN
  BY <1>3, <1>4, Zenon DEF Quiet
<1>5. ASSUME NEW n, Confirm(n) PROVE round' \in BOOLEAN
  BY <1>5, Zenon DEF Confirm
<1>6. CASE Dial \/ Version \/ Chat \/ SaysSync \/ sendsync
  BY <1>2, <1>3, <1>6, Zenon DEF Dial, Version, Chat, SaysSync, sendsync
<1>7. CASE Sync \/ HandlerHeight \/ HandlerCompare \/ HandlerAgain \/ WorkerCompare \/ WorkerAgain
  BY <1>2, <1>7, Zenon DEF Sync, HandlerHeight, HandlerCompare, HandlerAgain, WorkerCompare, WorkerAgain
<1>8. ASSUME NEW n, Lookup(n) \/ BlocksFound(n) \/ digest_block(n) \/ blocknf(n) \/ LoopEnds(n)
      PROVE  round' \in BOOLEAN
  BY <1>2, <1>8, Zenon DEF Lookup, BlocksFound, digest_block, blocknf, LoopEnds
<1>9. ASSUME NEW n, Broken(n) \/ NoHash(n) \/ NoConfirmation(n) \/ NoBlocks(n)
      PROVE  round' \in BOOLEAN
  BY <1>3, <1>4, <1>9, Zenon DEF Broken, NoHash, NoConfirmation, NoBlocks
<1>10. CASE SyncFails \/ NoPool
  BY <1>3, <1>4, <1>10, Zenon DEF SyncFails, NoPool
<1>11. CASE Environment \/ UNCHANGED vars
  BY <1>2, <1>11, Zenon DEF Environment, vars
<1> QED
  BY <1>5, <1>6, <1>7, <1>8, <1>9, <1>10, <1>11, Zenon DEF Next, Exchange

LEMMA BusyFlag ==
  ASSUME Flags, [Next]_vars
  PROVE  busy' \in [Node -> BOOLEAN]
<1>1. busy \in [Node -> BOOLEAN]
  BY DEF Flags
<1>2. ASSUME UNCHANGED busy PROVE busy' \in [Node -> BOOLEAN]
  BY <1>1, <1>2
<1>3. CASE Dial \/ Version \/ Chat \/ SaysSync \/ sendsync
  BY <1>2, <1>3, Zenon DEF Dial, Version, Chat, SaysSync, sendsync
<1>4. CASE Sync \/ HandlerHeight \/ HandlerCompare \/ HandlerAgain \/ WorkerCompare \/ WorkerAgain
  BY <1>2, <1>4, Zenon DEF Sync, HandlerHeight, HandlerCompare, HandlerAgain, WorkerCompare, WorkerAgain
<1>5. ASSUME NEW n, \/ Lookup(n) \/ Confirm(n) \/ BlocksFound(n) \/ digest_block(n) \/ blocknf(n)
                    \/ Broken(n) \/ NoHash(n) \/ NoConfirmation(n) \/ NoBlocks(n) \/ LoopEnds(n)
      PROVE  busy' \in [Node -> BOOLEAN]
  BY <1>2, <1>5, Zenon DEF Lookup, Confirm, BlocksFound, digest_block, blocknf, Broken, NoHash,
     NoConfirmation, NoBlocks, LoopEnds
<1>6. CASE SyncFails \/ NoPool
  BY <1>2, <1>6, Zenon DEF SyncFails, NoPool
<1>7. ASSUME NEW n \in Node, Others(n)
      PROVE  busy' \in [Node -> BOOLEAN]
  <2>1. \E b \in BOOLEAN : busy' = [busy EXCEPT ![n] = b]
    BY <1>7 DEF Others
  <2> QED
    BY <1>1, <2>1
<1>8. CASE Environment
  BY <1>7, <1>8, Zenon DEF Environment
<1>9. CASE UNCHANGED vars
  BY <1>2, <1>9, Zenon DEF vars
<1> QED
  BY <1>3, <1>4, <1>5, <1>6, <1>8, <1>9, Zenon DEF Next, Exchange

LEMMA NextFlags ==
  ASSUME Flags, [Next]_vars
  PROVE  Flags'
  BY SlotFlag, RoundFlag, BusyFlag DEF Flags

-----------------------------------------------------------------------------
(* The two threads keep their types: no frame is cut off from its argument, *)
(* no height beyond MaxHeight is heard, and no ledger grows past it, through *)
(* lost steps, silence, time-outs and redials (worker.py, node.py).          *)
THEOREM SyncInvariant == Spec => []SyncTypes
<1>1. SyncTypes /\ [Next]_vars => SyncTypes'
  BY NextTypes
<1> QED
  BY InitTypes, <1>1, PTL DEF Spec

(* Without races the loops never lose step (InStep): the handler's          *)
(* comparison (node.py:288, 296) and the worker's (worker.py:175, 226) hand *)
(* the turn over exactly once, from the handshake to the end of every round.*)
THEOREM NeverLosesStep == Spec => []InStep
<1>1. SyncTypes /\ TurnInv /\ [Next]_vars => TurnInv'
  BY NextTurn
<1>2. TurnInv => InStep
  BY DEF TurnInv, Undisturbed, InStep
<1> QED
  BY InitTurn, <1>1, <1>2, SyncInvariant, PTL DEF Spec

(* The place a round takes in node.syncing is given back, however the round *)
(* ends (the `finally` of worker.py).                                       *)
THEOREM SlotAlwaysReturned == Spec => []SlotReturned
<1>1. SyncTypes /\ SlotReturned /\ [Next]_vars => SlotReturned'
  BY NextSlot
<1> QED
  BY InitSlot, <1>1, SyncInvariant, PTL DEF Spec

(* The types of TypeOK from the ones of the proof. *)
LEMMA TypesKept ==
  ASSUME SyncTypes, ShapeInv, Flags
  PROVE  TypeOK
<1>1. \A n \in Node : chain[n] \in BoundedSeq(Block, MaxHeight) /\ chain[n] # <<>>
  BY DEF SyncTypes, Chains
<1>2. \A n \in Node : Receiving(n) \/ pc[n] \in {Idle, "compare", "again", "says", "sayssync", "sendsync"}
  BY DEF SyncTypes, Receiving, Idle, Place
<1>3. \A n \in Node : Len(ch[n]) <= 3
  BY DEF ShapeInv, Short, Node
<1> QED
  BY <1>1, <1>2, <1>3 DEF SyncTypes, Flags, TypeOK

(* The two loops and their channel stay consistent (Consistent): however    *)
(* late an answer is and whatever the other threads of the two nodes digest *)
(* meanwhile, the loops lose step in one of a few ways only (ShapeInv), so  *)
(* no channel ever holds more than three frames, no thread waits anywhere   *)
(* but at a receive, db_lock or a comparison, and a place in node.syncing   *)
(* is given back (worker.py, node.py).                                      *)
THEOREM AlwaysConsistent == Spec => []Consistent
<1>1. SyncTypes /\ ShapeInv /\ [Next]_vars => ShapeInv'
  BY NextShape
<1>2. Flags /\ [Next]_vars => Flags'
  BY NextFlags
<1>3. SyncTypes /\ ShapeInv /\ Flags /\ SlotReturned => Consistent
  BY TypesKept DEF Consistent
<1> QED
  BY InitShape, InitFlags, <1>1, <1>2, <1>3, SyncInvariant, SlotAlwaysReturned, PTL DEF Spec
=============================================================================
