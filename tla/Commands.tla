------------------------------- MODULE Commands -------------------------------
(***************************************************************************)
(* The command protocol between commands.py and the node: a command name,  *)
(* its arguments, then one reply, each a frame of its own.  Nothing in a   *)
(* frame says what it is: both ends count.  The client counts in one file, *)
(* the server in the handler loop of node.py, in apihandler*.py and in     *)
(* regnet.py, and a command the server refuses is one whose arguments it   *)
(* does not read.  What a query computes is left out; what it reads from   *)
(* the connection, what it answers and what it changes is kept.            *)
(***************************************************************************)
EXTENDS Naturals, Sequences, FiniteSets

CONSTANTS
    Host,       \* addresses a connection may come from
    Local,      \* 127.0.0.1
    Allowed,    \* config.allowed ("any" is Host)
    Whitelist,
    Value,      \* what a user may give as an argument
    Number,     \* the arguments that are numbers
    Plugin,     \* words a plugin registered for
    UnknownApi  \* names that begin with api_ and are no method of ApiHandler

ASSUME CommandsAssumption ==
    /\ Local \in Host /\ Allowed \subseteq Host /\ Whitelist \subseteq Host

-----------------------------------------------------------------------------
Silence == "*"   \* what receive returns after its timeout

(* Tables of commands put together: no name is in two of them. *)
Merge(tables) ==
    [c \in UNION {DOMAIN t : t \in tables} |-> (CHOOSE t \in tables : c \in DOMAIN t)[c]]

(* What the server reads: the number of arguments of each command. *)
BlockQueries == [blocklast |-> 0, blocklastjson |-> 0, blockget |-> 1, blockgetjson |-> 1]
Insert == [mpinsert |-> 1]
BalanceQueries == [balanceget |-> 1, balancegetjson |-> 1,
                   balancegethyper |-> 1, balancegethyperjson |-> 1]
PoolQueries == [mpget |-> 0, mpgetjson |-> 0]
Clear == [mpclear |-> 0]
KeyQueries == [keygen |-> 0, keygenjson |-> 0]
ListQueries == [addlist |-> 1, listlim |-> 1, listlimjson |-> 1]
LimitQueriesOne == [c \in {"addlistlim", "addlistlimjson", "addlistlimmir",
                           "addlistlimmirjson"} |-> 1]   \* with the slip: the limit is left unread
LimitQueries == [addlistlim |-> 2, addlistlimjson |-> 2,
                 addlistlimmir |-> 2, addlistlimmirjson |-> 2]
AliasQueries == [aliasget |-> 1, aliasesget |-> 1, tokensget |-> 1,
                 addfromalias |-> 1, pubkeyget |-> 1, aliascheck |-> 1]
RemoteSign == [txsend |-> 1]
SmallQueries == [addvalidate |-> 1, annget |-> 0, annverget |-> 0, peersget |-> 0]
StatusQueries == [statusget |-> 0, statusjson |-> 0]
DiffQueries == [diffget |-> 0, diffgetjson |-> 0, portget |-> 0,
                difflast |-> 0, difflastjson |-> 0]
Control == [stop |-> 0, block_height_from_hash |-> 1, addpeers |-> 1]
Unguarded == [getversion |-> 0]

ApiControl == [api_mempool |-> 0, api_getconfig |-> 0, api_clearmempool |-> 0,
               api_ping |-> 0, api_getpeerinfo |-> 0]
ApiBlock == [api_getblockfromhash |-> 1, api_getblockfromhashextra |-> 1]
ApiHeight == [api_getblockfromheight |-> 1, api_getblockrange |-> 2]
ApiSince == [api_getblocksince |-> 1, api_getblockswhereoflike |-> 2]
ApiDisabled == [api_getblocksafterwhere |-> 2]
ApiTransaction == [api_gettransaction |-> 2, api_gettransactionbysignature |-> 2,
                   api_gettransaction_for_recipients |-> 3]
ApiAddress == [api_getaddressinfo |-> 1, api_getaddressrange |-> 3, api_getaddresssince |-> 3]
ApiBalance == [api_getbalance |-> 2, api_getreceived |-> 2,
               api_listreceived |-> 3, api_listbalance |-> 3]
Regtest == [regtest_generate |-> 1, regtest_mine |-> 1, regtest_powcheck |-> 0,
            regtest_rollback |-> 1]

Api == Merge({ApiControl, ApiBlock, ApiHeight, ApiSince, ApiDisabled,
              ApiTransaction, ApiAddress, ApiBalance})
Core == Merge({BlockQueries, Insert, BalanceQueries, PoolQueries, Clear, KeyQueries,
               ListQueries, LimitQueries, AliasQueries, RemoteSign, SmallQueries,
               StatusQueries, DiffQueries, Control, Unguarded})
Mined == [block |-> 1]
Arity == Merge({Core, Api, Mined, Regtest})
Command == DOMAIN Arity

(* The arguments a command needs as numbers before it reads its next one. *)
Checks == [api_getaddresssince |-> {1, 2}, api_getblockswhereoflike |-> {1},
           api_listreceived |-> {2}, api_listbalance |-> {2}]

(* Words of the peer-to-peer protocol, which the same loop serves, and how *)
(* many frames each of them, or a plugin, may read after its name.         *)
PeerWords == {"version", "mempool", "hello", "sendsync", "blocksfnd", "blockheight",
              "nonewblk", "blocknf", "blocknfhb"}
PeerReads(c) ==
    CASE c \in {"hello", "sendsync", "nonewblk"} -> {0}
      [] c \in {"version", "mempool", "blocknf", "blocknfhb"} -> {1}
      [] c = "blockheight" -> 1..3
      [] OTHER -> {0, 1}

(* The core branches are tried before the plugins. *)
ASSUME WordsAssumption ==
    /\ Silence \notin Number
    /\ (Plugin \cup UnknownApi) \cap (Command \cup PeerWords \cup {"regtest_mpfill"}) = {}
    /\ Plugin \cap UnknownApi = {}

(* api_ methods that answer whatever happens to their query. *)
ApiAlways == {"api_mempool", "api_getconfig", "api_clearmempool", "api_ping",
              "api_getpeerinfo", "api_getblockfromhash", "api_getblockfromhashextra",
              "api_getblockfromheight", "api_getaddressinfo"}
(* Core commands that have no argument and no query to fail on. *)
CoreAlways == {"getversion", "mpget", "mpgetjson", "mpclear", "keygen", "keygenjson",
               "peersget", "statusget", "statusjson", "diffget", "portget", "stop",
               "addlistlimmir", "addlistlimmirjson"}

-----------------------------------------------------------------------------
(* What commands.py sends after the name of the command, and that it then  *)
(* waits for one frame.                                                    *)
ClientSimple == [api_getconfig |-> {0}, diffget |-> {0}, diffgetjson |-> {0}]
ClientBalance == [balanceget |-> {1}, balancegetjson |-> {1}, balancegethyper |-> {1},
                  balancegethyperjson |-> {1}]
ClientPool == [mpinsert |-> {1}, mpget |-> {0}, mpgetjson |-> {0}]
ClientLast == [difflast |-> {0}, difflastjson |-> {0}, blocklast |-> {0}, blocklastjson |-> {0}]
(* `if arg1`: without one, nothing is sent. *)
ClientSince == [api_getblocksince |-> {0, 1}]
ClientKeys == [keygen |-> {0}, keygenjson |-> {0}]
ClientBlocks == [blockget |-> {1}, blockgetjson |-> {1}]
ClientLists == [addlist |-> {1}, addlistlim |-> {2}, addlistlimjson |-> {2},
                addlistlimmir |-> {2}, addlistlimmirjson |-> {2}, listlim |-> {1},
                api_getblockfromhash |-> {1}, listlimjson |-> {1}]
ClientSign == [txsend |-> {1}]
ClientAliases == [aliasget |-> {1}, tokensget |-> {1}, addfromalias |-> {1},
                  addvalidate |-> {1}, aliasesget |-> {1}]
ClientStatus == [peersget |-> {0}, statusget |-> {0}, statusjson |-> {0}, portget |-> {0}]
ClientAddress == [api_getaddresssince |-> {3}]
ClientVersion == [getversion |-> {0}]
ClientRegtest == [regtest_generate |-> {1}, regtest_mpfill |-> {1}]
ClientStop == [stop |-> {0}]

Sends == Merge({ClientSimple, ClientBalance, ClientPool, ClientLast, ClientSince,
                ClientKeys, ClientBlocks, ClientLists, ClientSign, ClientAliases,
                ClientStatus, ClientAddress, ClientVersion, ClientRegtest, ClientStop})
(* Commands of the node that commands.py does not have, sent by other      *)
(* tools (a miner, a pool, a json-rpc server) the way the node reads them. *)
Tools == [c \in (Command \ DOMAIN Sends) |-> {Arity[c]}]
Words == [c \in PeerWords \cup Plugin \cup UnknownApi |-> PeerReads(c)]
Asked == Merge({Sends, Tools, Words})
NoReply == {"stop", "mpclear", "block"}

-----------------------------------------------------------------------------
VARIABLES
    host,     \* peer_ip of the connection
    net,      \* node.is_mainnet, is_testnet or is_regnet
    client,   \* [pc, cmd, args, left, reply]
    up, down, \* frames on their way
    server,   \* the handler thread: [pc, cmd, got], and late: an argument came too late
    few,      \* len(connection_pool) < 5
    changed   \* history: the parts of the node's state this connection changed

vars == <<host, net, client, up, down, server, few, changed>>

None == "none"
Answer(c, args) == [cmd |-> c, args |-> args]
NoAnswer == Answer(None, <<>>)
NotOk == Answer("notok", <<>>)

regnet == net = "regnet"
is_whitelisted(h) == h \in Whitelist \/ h = Local
AllowedEarly(h, c) == c = "portget" \/ h \in Allowed   \* with the slip: no early return for "stop"
is_allowed(h, c) ==
    \/ c = "block" /\ is_whitelisted(h)
    \/ c = "portget"
    \/ c \in {"stop", "addpeers"} /\ h = Local
    \/ c \notin {"portget", "stop", "addpeers"} /\ h \in Allowed

(* annget and annverget ask for the rights of no command at all. *)
Permitted(c) ==
    IF c \in {"annget", "annverget"} THEN is_allowed(host, "") ELSE is_allowed(host, c)

Changes(c) ==
    CASE c \in {"mpinsert", "txsend"} -> {"mempool"}
      [] c \in {"mpclear", "api_clearmempool"} -> {"cleared"}
      [] c = "addpeers" -> {"peers"}
      [] c = "stop" -> {"stopping"}
      [] c \in {"block", "regtest_generate", "regtest_mine", "regtest_rollback"} -> {"chain"}
      [] OTHER -> {}

(* What a peer may bring with a word of the protocol: transactions, its    *)
(* version, its height, and blocks once it told a height or disputed one.  *)
Brings(c) ==
    CASE c = "mempool" -> {"gossip"}
      [] c = "version" -> {"versions"}
      [] c = "blockheight" -> {"consensus"}
      [] c = "blocksfnd" -> IF "consensus" \in changed THEN {"synced"} ELSE {}
      [] c \in {"blocknf", "blocknfhb"} -> {"synced"}
      [] OTHER -> {}

Init ==
    /\ host \in Host /\ net \in {"mainnet", "testnet", "regnet"}
    /\ client = [pc |-> "idle", cmd |-> None, args |-> <<>>, left |-> <<>>, reply |-> NoAnswer]
    /\ up = <<>> /\ down = <<>>
    /\ server = [pc |-> "loop", cmd |-> None, got |-> <<>>, late |-> FALSE]
    /\ few \in BOOLEAN
    /\ changed = {}

-----------------------------------------------------------------------------
(* The client. *)
Ask(c, args) ==
    /\ client.pc = "idle"
    /\ client' = [client EXCEPT !.pc = "sending", !.cmd = c, !.args = args, !.left = args]
    /\ up' = Append(up, c)
    /\ UNCHANGED <<host, net, down, server, few, changed>>

SendArg ==
    /\ client.pc = "sending" /\ client.left # <<>>
    /\ up' = Append(up, Head(client.left))
    /\ client' = [client EXCEPT !.left = Tail(@)]
    /\ UNCHANGED <<host, net, down, server, few, changed>>

(* "stop" prints and closes, every other command waits. *)
Wait ==
    /\ client.pc = "sending" /\ client.left = <<>>
    /\ client' = [client EXCEPT !.pc = IF client.cmd \in NoReply THEN "done" ELSE "waiting"]
    /\ UNCHANGED <<host, net, up, down, server, few, changed>>

TakeReply ==
    /\ client.pc = "waiting" /\ down # <<>>
    /\ client' = [client EXCEPT !.pc = "done", !.reply = Head(down)]
    /\ down' = Tail(down)
    /\ UNCHANGED <<host, net, up, server, few, changed>>

(* receive gives "*" after its timeout, and raises once the server closed. *)
ClientGivesUp ==
    /\ client.pc = "waiting" /\ down = <<>>
    /\ client' = [client EXCEPT !.pc = "done"]
    /\ UNCHANGED <<host, net, up, down, server, few, changed>>

-----------------------------------------------------------------------------
(* The handler thread. *)
Close == server' = [server EXCEPT !.pc = "closed"]
Loop == server' = [server EXCEPT !.pc = "loop", !.cmd = None, !.got = <<>>]
Reading(c) == server' = [server EXCEPT !.pc = "args", !.cmd = c, !.got = <<>>]
Reply(r) == down' = Append(down, r)

(* An argument is taken, or is no number where one is needed: the command  *)
(* raises, the loop logs it and takes the next frame for a command.        *)
Unusable(c, n, v) == c \in DOMAIN Checks /\ n \in Checks[c] /\ v \notin Number
Add(v, late) == server' = [server EXCEPT !.got = Append(@, v), !.late = late]
Take(v, late) ==
    IF Unusable(server.cmd, Len(server.got) + 1, v)
    THEN server' = [server EXCEPT !.pc = "loop", !.cmd = None, !.got = <<>>, !.late = late]
    ELSE Add(v, late)

(* What becomes of the name of a command: it is closed on (no such         *)
(* command, or one whose test is part of the elif), passed over without    *)
(* reading its arguments, or run.  A refused block is read all the same,   *)
(* and a word of the peers or of a plugin is served to anyone.             *)
Talks(c) == c \in PeerWords \cup Plugin
Falls(c) ==
    \/ c \notin Command /\ ~Talks(c) /\ c \notin UnknownApi /\ c # "regtest_mpfill"
    \/ c \in DOMAIN PoolQueries /\ ~Permitted(c)
    \/ c = "mpclear" /\ host # Local
Refused(c) ==
    /\ ~Falls(c) /\ ~Permitted(c)
    /\ c \in (DOMAIN Core \cup DOMAIN Api) \ (DOMAIN Unguarded \cup DOMAIN Clear)
IsRegtest(c) == c \in DOMAIN Regtest \cup {"regtest_mpfill"}
Runs(c) == c \in Command /\ ~IsRegtest(c) /\ ~Falls(c) /\ ~Refused(c)

Dispatch(c) ==
    \/ /\ IsRegtest(c)
       /\ IF ~regnet THEN Close /\ Reply(NotOk)
          ELSE IF c \in Command THEN Reading(c) /\ UNCHANGED down
          ELSE Loop /\ UNCHANGED down       \* no branch of regnet.command matches
    \/ ~IsRegtest(c) /\ Falls(c) /\ Close /\ UNCHANGED down
    \/ ~IsRegtest(c) /\ Refused(c) /\ Loop /\ UNCHANGED down
    \/ c \in UnknownApi /\ Loop /\ UNCHANGED down    \* no method of that name
    \/ Talks(c) /\ server' = [server EXCEPT !.pc = "peer", !.cmd = c] /\ UNCHANGED down
    \/ Runs(c) /\ Reading(c) /\ UNCHANGED down

ReceiveCommand ==
    /\ server.pc = "loop" /\ up # <<>>
    /\ up' = Tail(up)
    /\ Dispatch(Head(up))
    /\ UNCHANGED <<host, net, client, few, changed>>

IdleForever == FALSE   \* with the slip: poll without a timeout
(* "*" for a command is "Broken pipe", and so is a client that is gone. *)
IdleTimeout ==
    /\ server.pc = "loop" /\ up = <<>> /\ client.pc # "idle"
    /\ Close
    /\ UNCHANGED <<host, net, client, up, down, few, changed>>

Complete == Len(server.got) = Arity[server.cmd]
ReceiveArg ==
    /\ server.pc = "args" /\ ~Complete /\ up # <<>>
    /\ Take(Head(up), server.late)
    /\ up' = Tail(up)
    /\ UNCHANGED <<host, net, client, down, few, changed>>

(* A "*" in the place of an argument is an argument. *)
ArgTimeout ==
    /\ server.pc = "args" /\ ~Complete /\ up = <<>>
    /\ \/ client.pc # "done" /\ Take(Silence, TRUE)
       \/ client.pc = "done" /\ Close
    /\ UNCHANGED <<host, net, client, up, down, few, changed>>

Ready == server.pc = "args" /\ Complete
Queried == DOMAIN Core \cup DOMAIN Api \cup DOMAIN Regtest

(* The command does its work and answers. *)
Serve ==
    /\ Ready /\ server.cmd \in Queried
    /\ server.cmd # "api_getblocksafterwhere"
    /\ changed' = changed \cup Changes(server.cmd)
    /\ IF server.cmd \in NoReply THEN UNCHANGED down ELSE Reply(Answer(server.cmd, server.got))
    /\ Loop
    /\ UNCHANGED <<host, net, client, up, few>>

(* It cannot use its arguments, or its query fails: the connection ends.   *)
Raise ==
    /\ Ready /\ server.cmd \in DOMAIN Core \ CoreAlways
    /\ Close
    /\ UNCHANGED <<host, net, client, up, down, few, changed>>

(* An api_ or regtest_ command whose query raises is logged and not answered.     *)
Swallow ==
    /\ Ready /\ server.cmd \in (DOMAIN Api \ ApiAlways) \cup DOMAIN Regtest
    /\ Loop
    /\ UNCHANGED <<host, net, client, up, down, few, changed>>

(* A block from a miner.  A node that is not synced drops the block but    *)
(* keeps the connection, every other refusal ends it.                      *)
Isolated == few /\ ~is_whitelisted(host)
MinedBlock ==
    /\ Ready /\ server.cmd = "block"
    /\ \E locked, synced \in BOOLEAN :   \* db_lock held; last_block near consensus_max
       \/ ~Permitted("block") /\ Loop /\ UNCHANGED changed
       \/ /\ Permitted("block")   \* malformed, or digest_block raised
          /\ Close /\ UNCHANGED changed
       \/ /\ Permitted("block") /\ net = "mainnet" /\ (Isolated \/ locked)
          /\ Close /\ UNCHANGED changed
       \/ /\ Permitted("block") /\ net = "mainnet" /\ ~Isolated /\ ~locked /\ ~synced
          /\ Loop /\ UNCHANGED changed
       \/ /\ Permitted("block") /\ (net # "mainnet" \/ (~Isolated /\ ~locked /\ synced))
          /\ Loop /\ changed' = changed \cup Changes("block")
    /\ UNCHANGED <<host, net, client, up, down, few>>

(* A word of the peers: the next frame of its dialogue.                    *)
PeerReceive ==
    /\ server.pc = "peer" /\ \E n \in PeerReads(server.cmd) : Len(server.got) < n
    /\ \/ up # <<>> /\ up' = Tail(up) /\ Add(Head(up), server.late)
       \/ up = <<>> /\ client.pc # "done" /\ UNCHANGED up /\ Add(Silence, TRUE)
       \/ up = <<>> /\ client.pc = "done" /\ UNCHANGED up /\ Close
    /\ UNCHANGED <<host, net, client, down, few, changed>>

(* It is done with: whatever came is used or not, and the peer is kept or  *)
(* sent away.  One frame stands for all that it is told.                   *)
PeerServe ==
    /\ server.pc = "peer" /\ Len(server.got) \in PeerReads(server.cmd)
    /\ \/ UNCHANGED changed
       \/ server.got # <<>> /\ server.got[1] # Silence /\ changed' = changed \cup Brings(server.cmd)
    /\ UNCHANGED down \/ Reply(Answer(server.cmd, server.got))
    /\ Loop \/ Close
    /\ UNCHANGED <<host, net, client, up, few>>

-----------------------------------------------------------------------------
Asks == \E c \in DOMAIN Asked : \E n \in Asked[c] : \E args \in [1..n -> Value] : Ask(c, args)
Next ==
    \/ Asks \/ SendArg \/ Wait \/ TakeReply \/ ClientGivesUp
    \/ ReceiveCommand \/ IdleTimeout \/ ReceiveArg \/ ArgTimeout
    \/ Serve \/ Raise \/ Swallow \/ MinedBlock \/ PeerReceive \/ PeerServe

Spec == Init /\ [][Next]_vars

(* Both ends run, and poll gives up after its timeout; that a client asks  *)
(* anything is not assumed.  A handler that waits for db_lock or for a     *)
(* place among the syncing peers is assumed to get it (see Ingest and      *)
(* SyncProtocol).                                                          *)
Handles == ReceiveCommand \/ IdleTimeout \/ ReceiveArg \/ ArgTimeout
             \/ Serve \/ Raise \/ Swallow \/ MinedBlock \/ PeerReceive \/ PeerServe
FairSpec ==
    /\ Spec
    /\ WF_vars(SendArg \/ Wait) /\ WF_vars(TakeReply \/ ClientGivesUp) /\ WF_vars(Handles)

-----------------------------------------------------------------------------
(* A client that may run its command and whose frames come in time takes   *)
(* the answer of that command to those arguments and no other frame, even  *)
(* when an argument reads like the name of a command: client and server    *)
(* count the same frames (commands.py against node.py 395-1104).  One      *)
(* command of the client, regtest_mpfill, is not a command of the node.    *)
(* The exception is an argument that is no number where the command needs  *)
(* one before it goes on reading: what follows it is taken for commands,   *)
(* and the port may be taken for the answer.                               *)
Mistyped(c, args) == \E n \in DOMAIN args : Unusable(c, n, args[n])
ReplyMatches ==
    \/ client.reply = NoAnswer
    \/ client.reply = Answer(client.cmd, client.args)
    \/ client.reply = NotOk /\ IsRegtest(client.cmd)
    \/ server.late
    \/ ~Permitted(client.cmd)
    \/ client.cmd \notin Command
    \/ Mistyped(client.cmd, client.args)

(* Whatever is sent, and however the arguments of a command that is        *)
(* refused or raises are read: only localhost stops the node or feeds it   *)
(* peers, only a permitted address inserts into the mempool or clears it   *)
(* by command, only a permitted one hands in a mined block where there is  *)
(* no regnet, and on mainnet a block from a stranger is not digested by a  *)
(* node with hardly any connection.  What peers gossip and the blocks they *)
(* sync are open to any address (node.py 178-395).                         *)
OnlyPermittedChange ==
    /\ ({"stopping", "peers"} \cap changed # {}) => host = Local
    /\ "mempool" \in changed => host \in Allowed
    /\ "cleared" \in changed => host \in Allowed \cup {Local}
    /\ "chain" \in changed => (regnet \/ is_allowed(host, "block"))
    /\ ("chain" \in changed /\ net = "mainnet") => (is_whitelisted(host) \/ ~few)

(* A client that asked something is done at last, and the handler thread   *)
(* it held is given back, though a command may be refused, swallowed, or   *)
(* wait for an argument that never comes.                                  *)
Ends == client.pc = "sending" ~> (client.pc = "done" /\ server.pc = "closed")

=============================================================================
