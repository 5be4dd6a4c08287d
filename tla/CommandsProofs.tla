--------------------------- MODULE CommandsProofs ---------------------------
(***************************************************************************)
(* One conversation with the command server, for any hosts, rights and     *)
(* argument values: client and server count the same frames, so a reply    *)
(* answers what was asked, and what a refused command leaves in the stream *)
(* changes nothing its sender had no right to.                             *)
(***************************************************************************)
EXTENDS Commands, SequenceTheorems, TLAPS

-----------------------------------------------------------------------------
(* The tables of both ends.  Commands that the client sends with one, two  *)
(* and three arguments.                                                    *)
One == {"balanceget", "balancegetjson", "balancegethyper", "balancegethyperjson", "mpinsert",
        "api_getblocksince", "blockget", "blockgetjson", "addlist", "listlim", "listlimjson",
        "api_getblockfromhash", "txsend", "aliasget", "tokensget", "addfromalias",
        "addvalidate", "aliasesget", "regtest_generate", "regtest_mpfill"}
Two == {"addlistlim", "addlistlimjson", "addlistlimmir", "addlistlimmirjson"}
Three == {"api_getaddresssince"}

(* What a table of the server and one of the client say of them. *)
Reads(F) ==
    \A c \in DOMAIN F : /\ F[c] \in Nat
                        /\ c \in One => F[c] = 1
                        /\ c \in Two => F[c] = 2
                        /\ c \in Three => F[c] = 3
Gives(S) ==
    \A c \in DOMAIN S : \A n \in S[c] : \/ n = 0
                                        \/ n = 1 /\ c \in One
                                        \/ n = 2 /\ c \in Two
                                        \/ n = 3 /\ c \in Three

(* The entries of merged tables are entries of one of them. *)
LEMMA Merged ==
  ASSUME NEW S
  PROVE  /\ DOMAIN Merge(S) = UNION {DOMAIN t : t \in S}
         /\ \A c \in DOMAIN Merge(S) : \E t \in S : c \in DOMAIN t /\ Merge(S)[c] = t[c]
<1>1. DOMAIN Merge(S) = UNION {DOMAIN t : t \in S}
  BY DEF Merge
<1>2. ASSUME NEW c \in DOMAIN Merge(S)
      PROVE  \E t \in S : c \in DOMAIN t /\ Merge(S)[c] = t[c]
  <2> DEFINE u == CHOOSE t \in S : c \in DOMAIN t
  <2>1. \E t \in S : c \in DOMAIN t
    BY <1>1, <1>2
  <2>2. u \in S /\ c \in DOMAIN u
    BY <2>1, Zenon
  <2>3. Merge(S)[c] = u[c]
    BY <1>1, <1>2, Zenon DEF Merge
  <2> QED
    BY <2>2, <2>3, Zenon
<1> QED
  BY <1>1, <1>2, Zenon

LEMMA ReadsMerged ==
  ASSUME NEW S, \A t \in S : Reads(t)
  PROVE  Reads(Merge(S))
<1> DEFINE H == Merge(S)
<1>1. \A c \in DOMAIN H : \E t \in S : c \in DOMAIN t /\ H[c] = t[c]
  BY Merged, Zenon
<1> HIDE DEF H
<1>2. Reads(H)
  BY <1>1 DEF Reads
<1> QED
  BY <1>2 DEF H

LEMMA GivesMerged ==
  ASSUME NEW S, \A t \in S : Gives(t)
  PROVE  Gives(Merge(S))
<1> DEFINE H == Merge(S)
<1>1. \A c \in DOMAIN H : \E t \in S : c \in DOMAIN t /\ H[c] = t[c]
  BY Merged, Zenon
<1> HIDE DEF H
<1>2. Gives(H)
  BY <1>1 DEF Gives
<1> QED
  BY <1>2 DEF H

LEMMA ServerReads == Reads(Arity)
<1>1. Reads(BlockQueries)
  <2>1. /\ DOMAIN BlockQueries = {"blocklast", "blocklastjson", "blockget", "blockgetjson"}
        /\ BlockQueries["blocklast"] = 0 /\ BlockQueries["blocklastjson"] = 0
        /\ BlockQueries["blockget"] = 1 /\ BlockQueries["blockgetjson"] = 1
    BY DEF BlockQueries
  <2> QED
    BY <2>1 DEF Reads, One, Two, Three
<1>2. Reads(Insert)
  <2>1. /\ DOMAIN Insert = {"mpinsert"}
        /\ Insert["mpinsert"] = 1
    BY DEF Insert
  <2> QED
    BY <2>1 DEF Reads, One, Two, Three
<1>3. Reads(BalanceQueries)
  <2>1. /\ DOMAIN BalanceQueries = {"balanceget", "balancegetjson", "balancegethyper", "balancegethyperjson"}
        /\ BalanceQueries["balanceget"] = 1 /\ BalanceQueries["balancegetjson"] = 1
        /\ BalanceQueries["balancegethyper"] = 1 /\ BalanceQueries["balancegethyperjson"] = 1
    BY DEF BalanceQueries
  <2> QED
    BY <2>1 DEF Reads, One, Two, Three
<1>4. Reads(PoolQueries)
  <2>1. /\ DOMAIN PoolQueries = {"mpget", "mpgetjson"}
        /\ PoolQueries["mpget"] = 0 /\ PoolQueries["mpgetjson"] = 0
    BY DEF PoolQueries
  <2> QED
    BY <2>1 DEF Reads, One, Two, Three
<1>5. Reads(Clear)
  <2>1. /\ DOMAIN Clear = {"mpclear"}
        /\ Clear["mpclear"] = 0
    BY DEF Clear
  <2> QED
    BY <2>1 DEF Reads, One, Two, Three
<1>6. Reads(KeyQueries)
  <2>1. /\ DOMAIN KeyQueries = {"keygen", "keygenjson"}
        /\ KeyQueries["keygen"] = 0 /\ KeyQueries["keygenjson"] = 0
    BY DEF KeyQueries
  <2> QED
    BY <2>1 DEF Reads, One, Two, Three
<1>7. Reads(ListQueries)
  <2>1. /\ DOMAIN ListQueries = {"addlist", "listlim", "listlimjson"}
        /\ ListQueries["addlist"] = 1 /\ ListQueries["listlim"] = 1
        /\ ListQueries["listlimjson"] = 1
    BY DEF ListQueries
  <2> QED
    BY <2>1 DEF Reads, One, Two, Three
<1>8. Reads(LimitQueries)
  <2>1. /\ DOMAIN LimitQueries = {"addlistlim", "addlistlimjson", "addlistlimmir", "addlistlimmirjson"}
        /\ LimitQueries["addlistlim"] = 2 /\ LimitQueries["addlistlimjson"] = 2
        /\ LimitQueries["addlistlimmir"] = 2 /\ LimitQueries["addlistlimmirjson"] = 2
    BY DEF LimitQueries
  <2> QED
    BY <2>1 DEF Reads, One, Two, Three
<1>9. Reads(AliasQueries)
  <2>1. /\ DOMAIN AliasQueries = {"aliasget", "aliasesget", "tokensget", "addfromalias", "pubkeyget",
                  "aliascheck"}
        /\ AliasQueries["aliasget"] = 1 /\ AliasQueries["aliasesget"] = 1
        /\ AliasQueries["tokensget"] = 1 /\ AliasQueries["addfromalias"] = 1
        /\ AliasQueries["pubkeyget"] = 1 /\ AliasQueries["aliascheck"] = 1
    BY DEF AliasQueries
  <2> QED
    BY <2>1 DEF Reads, One, Two, Three
<1>10. Reads(RemoteSign)
  <2>1. /\ DOMAIN RemoteSign = {"txsend"}
        /\ RemoteSign["txsend"] = 1
    BY DEF RemoteSign
  <2> QED
    BY <2>1 DEF Reads, One, Two, Three
<1>11. Reads(SmallQueries)
  <2>1. /\ DOMAIN SmallQueries = {"addvalidate", "annget", "annverget", "peersget"}
        /\ SmallQueries["addvalidate"] = 1 /\ SmallQueries["annget"] = 0
        /\ SmallQueries["annverget"] = 0 /\ SmallQueries["peersget"] = 0
    BY DEF SmallQueries
  <2> QED
    BY <2>1 DEF Reads, One, Two, Three
<1>12. Reads(StatusQueries)
  <2>1. /\ DOMAIN StatusQueries = {"statusget", "statusjson"}
        /\ StatusQueries["statusget"] = 0 /\ StatusQueries["statusjson"] = 0
    BY DEF StatusQueries
  <2> QED
    BY <2>1 DEF Reads, One, Two, Three
<1>13. Reads(DiffQueries)
  <2>1. /\ DOMAIN DiffQueries = {"diffget", "diffgetjson", "portget", "difflast", "difflastjson"}
        /\ DiffQueries["diffget"] = 0 /\ DiffQueries["diffgetjson"] = 0
        /\ DiffQueries["portget"] = 0 /\ DiffQueries["difflast"] = 0
        /\ DiffQueries["difflastjson"] = 0
    BY DEF DiffQueries
  <2> QED
    BY <2>1 DEF Reads, One, Two, Three
<1>14. Reads(Control)
  <2>1. /\ DOMAIN Control = {"stop", "block_height_from_hash", "addpeers"}
        /\ Control["stop"] = 0 /\ Control["block_height_from_hash"] = 1
        /\ Control["addpeers"] = 1
    BY DEF Control
  <2> QED
    BY <2>1 DEF Reads, One, Two, Three
<1>15. Reads(Unguarded)
  <2>1. /\ DOMAIN Unguarded = {"getversion"}
        /\ Unguarded["getversion"] = 0
    BY DEF Unguarded
  <2> QED
    BY <2>1 DEF Reads, One, Two, Three
<1>16. Reads(ApiControl)
  <2>1. /\ DOMAIN ApiControl = {"api_mempool", "api_getconfig", "api_clearmempool", "api_ping",
                  "api_getpeerinfo"}
        /\ ApiControl["api_mempool"] = 0 /\ ApiControl["api_getconfig"] = 0
        /\ ApiControl["api_clearmempool"] = 0 /\ ApiControl["api_ping"] = 0
        /\ ApiControl["api_getpeerinfo"] = 0
    BY DEF ApiControl
  <2> QED
    BY <2>1 DEF Reads, One, Two, Three
<1>17. Reads(ApiBlock)
  <2>1. /\ DOMAIN ApiBlock = {"api_getblockfromhash", "api_getblockfromhashextra"}
        /\ ApiBlock["api_getblockfromhash"] = 1 /\ ApiBlock["api_getblockfromhashextra"] = 1
    BY DEF ApiBlock
  <2> QED
    BY <2>1 DEF Reads, One, Two, Three
<1>18. Reads(ApiHeight)
  <2>1. /\ DOMAIN ApiHeight = {"api_getblockfromheight", "api_getblockrange"}
        /\ ApiHeight["api_getblockfromheight"] = 1 /\ ApiHeight["api_getblockrange"] = 2
    BY DEF ApiHeight
  <2> QED
    BY <2>1 DEF Reads, One, Two, Three
<1>19. Reads(ApiSince)
  <2>1. /\ DOMAIN ApiSince = {"api_getblocksince", "api_getblockswhereoflike"}
        /\ ApiSince["api_getblocksince"] = 1 /\ ApiSince["api_getblockswhereoflike"] = 2
    BY DEF ApiSince
  <2> QED
    BY <2>1 DEF Reads, One, Two, Three
<1>20. Reads(ApiDisabled)
  <2>1. /\ DOMAIN ApiDisabled = {"api_getblocksafterwhere"}
        /\ ApiDisabled["api_getblocksafterwhere"] = 2
    BY DEF ApiDisabled
  <2> QED
    BY <2>1 DEF Reads, One, Two, Three
<1>21. Reads(ApiTransaction)
  <2>1. /\ DOMAIN ApiTransaction = {"api_gettransaction", "api_gettransactionbysignature",
                  "api_gettransaction_for_recipients"}
        /\ ApiTransaction["api_gettransaction"] = 2
        /\ ApiTransaction["api_gettransactionbysignature"] = 2
        /\ ApiTransaction["api_gettransaction_for_recipients"] = 3
    BY DEF ApiTransaction
  <2> QED
    BY <2>1 DEF Reads, One, Two, Three
<1>22. Reads(ApiAddress)
  <2>1. /\ DOMAIN ApiAddress = {"api_getaddressinfo", "api_getaddressrange", "api_getaddresssince"}
        /\ ApiAddress["api_getaddressinfo"] = 1 /\ ApiAddress["api_getaddressrange"] = 3
        /\ ApiAddress["api_getaddresssince"] = 3
    BY DEF ApiAddress
  <2> QED
    BY <2>1 DEF Reads, One, Two, Three
<1>23. Reads(ApiBalance)
  <2>1. /\ DOMAIN ApiBalance = {"api_getbalance", "api_getreceived", "api_listreceived",
                  "api_listbalance"}
        /\ ApiBalance["api_getbalance"] = 2 /\ ApiBalance["api_getreceived"] = 2
        /\ ApiBalance["api_listreceived"] = 3 /\ ApiBalance["api_listbalance"] = 3
    BY DEF ApiBalance
  <2> QED
    BY <2>1 DEF Reads, One, Two, Three
<1>24. Reads(Mined)
  <2>1. /\ DOMAIN Mined = {"block"}
        /\ Mined["block"] = 1
    BY DEF Mined
  <2> QED
    BY <2>1 DEF Reads, One, Two, Three
<1>25. Reads(Regtest)
  <2>1. /\ DOMAIN Regtest = {"regtest_generate", "regtest_mine", "regtest_powcheck",
                  "regtest_rollback"}
        /\ Regtest["regtest_generate"] = 1 /\ Regtest["regtest_mine"] = 1
        /\ Regtest["regtest_powcheck"] = 0 /\ Regtest["regtest_rollback"] = 1
    BY DEF Regtest
  <2> QED
    BY <2>1 DEF Reads, One, Two, Three
<1>26. Reads(Core)
  <2> DEFINE S == {BlockQueries, Insert, BalanceQueries, PoolQueries, Clear, KeyQueries,
                   ListQueries, LimitQueries, AliasQueries, RemoteSign, SmallQueries,
                   StatusQueries, DiffQueries, Control, Unguarded}
  <2>1. \A t \in S : Reads(t)
    BY <1>1, <1>2, <1>3, <1>4, <1>5, <1>6, <1>7, <1>8, <1>9, <1>10, <1>11, <1>12, <1>13,
       <1>14, <1>15
  <2> HIDE DEF S
  <2>2. Reads(Merge(S))
    BY <2>1, ReadsMerged, Zenon
  <2> QED
    BY <2>2, Zenon DEF Core, S
<1>27. Reads(Api)
  <2> DEFINE S == {ApiControl, ApiBlock, ApiHeight, ApiSince, ApiDisabled,
                   ApiTransaction, ApiAddress, ApiBalance}
  <2>1. \A t \in S : Reads(t)
    BY <1>16, <1>17, <1>18, <1>19, <1>20, <1>21, <1>22, <1>23
  <2> HIDE DEF S
  <2>2. Reads(Merge(S))
    BY <2>1, ReadsMerged, Zenon
  <2> QED
    BY <2>2, Zenon DEF Api, S
<1>28. \A t \in {Core, Api, Mined, Regtest} : Reads(t)
  BY <1>24, <1>25, <1>26, <1>27
<1> QED
  BY <1>28, ReadsMerged, Zenon DEF Arity


LEMMA ClientGives == Gives(Sends)
<1>1. Gives(ClientSimple)
  <2>1. /\ DOMAIN ClientSimple = {"api_getconfig", "diffget", "diffgetjson"}
        /\ ClientSimple["api_getconfig"] = {0} /\ ClientSimple["diffget"] = {0}
        /\ ClientSimple["diffgetjson"] = {0}
    BY DEF ClientSimple
  <2> QED
    BY <2>1 DEF Gives, One, Two, Three
<1>2. Gives(ClientBalance)
  <2>1. /\ DOMAIN ClientBalance = {"balanceget", "balancegetjson", "balancegethyper", "balancegethyperjson"}
        /\ ClientBalance["balanceget"] = {1} /\ ClientBalance["balancegetjson"] = {1}
        /\ ClientBalance["balancegethyper"] = {1} /\ ClientBalance["balancegethyperjson"] = {1}
    BY DEF ClientBalance
  <2> QED
    BY <2>1 DEF Gives, One, Two, Three
<1>3. Gives(ClientPool)
  <2>1. /\ DOMAIN ClientPool = {"mpinsert", "mpget", "mpgetjson"}
        /\ ClientPool["mpinsert"] = {1} /\ ClientPool["mpget"] = {0}
        /\ ClientPool["mpgetjson"] = {0}
    BY DEF ClientPool
  <2> QED
    BY <2>1 DEF Gives, One, Two, Three
<1>4. Gives(ClientLast)
  <2>1. /\ DOMAIN ClientLast = {"difflast", "difflastjson", "blocklast", "blocklastjson"}
        /\ ClientLast["difflast"] = {0} /\ ClientLast["difflastjson"] = {0}
        /\ ClientLast["blocklast"] = {0} /\ ClientLast["blocklastjson"] = {0}
    BY DEF ClientLast
  <2> QED
    BY <2>1 DEF Gives, One, Two, Three
<1>5. Gives(ClientSince)
  <2>1. /\ DOMAIN ClientSince = {"api_getblocksince"}
        /\ ClientSince["api_getblocksince"] = {0, 1}
    BY DEF ClientSince
  <2> QED
    BY <2>1 DEF Gives, One, Two, Three
<1>6. Gives(ClientKeys)
  <2>1. /\ DOMAIN ClientKeys = {"keygen", "keygenjson"}
        /\ ClientKeys["keygen"] = {0} /\ ClientKeys["keygenjson"] = {0}
    BY DEF ClientKeys
  <2> QED
    BY <2>1 DEF Gives, One, Two, Three
<1>7. Gives(ClientBlocks)
  <2>1. /\ DOMAIN ClientBlocks = {"blockget", "blockgetjson"}
        /\ ClientBlocks["blockget"] = {1} /\ ClientBlocks["blockgetjson"] = {1}
    BY DEF ClientBlocks
  <2> QED
    BY <2>1 DEF Gives, One, Two, Three
<1>8. Gives(ClientLists)
  <2>1. /\ DOMAIN ClientLists = {"addlist", "addlistlim", "addlistlimjson", "addlistlimmir",
                  "addlistlimmirjson", "listlim", "api_getblockfromhash", "listlimjson"}
        /\ ClientLists["addlist"] = {1} /\ ClientLists["addlistlim"] = {2}
        /\ ClientLists["addlistlimjson"] = {2} /\ ClientLists["addlistlimmir"] = {2}
        /\ ClientLists["addlistlimmirjson"] = {2} /\ ClientLists["listlim"] = {1}
        /\ ClientLists["api_getblockfromhash"] = {1} /\ ClientLists["listlimjson"] = {1}
    BY DEF ClientLists
  <2> QED
    BY <2>1 DEF Gives, One, Two, Three
<1>9. Gives(ClientSign)
  <2>1. /\ DOMAIN ClientSign = {"txsend"}
        /\ ClientSign["txsend"] = {1}
    BY DEF ClientSign
  <2> QED
    BY <2>1 DEF Gives, One, Two, Three
<1>10. Gives(ClientAliases)
  <2>1. /\ DOMAIN ClientAliases = {"aliasget", "tokensget", "addfromalias", "addvalidate", "aliasesget"}
        /\ ClientAliases["aliasget"] = {1} /\ ClientAliases["tokensget"] = {1}
        /\ ClientAliases["addfromalias"] = {1} /\ ClientAliases["addvalidate"] = {1}
        /\ ClientAliases["aliasesget"] = {1}
    BY DEF ClientAliases
  <2> QED
    BY <2>1 DEF Gives, One, Two, Three
<1>11. Gives(ClientStatus)
  <2>1. /\ DOMAIN ClientStatus = {"peersget", "statusget", "statusjson", "portget"}
        /\ ClientStatus["peersget"] = {0} /\ ClientStatus["statusget"] = {0}
        /\ ClientStatus["statusjson"] = {0} /\ ClientStatus["portget"] = {0}
    BY DEF ClientStatus
  <2> QED
    BY <2>1 DEF Gives, One, Two, Three
<1>12. Gives(ClientAddress)
  <2>1. /\ DOMAIN ClientAddress = {"api_getaddresssince"}
        /\ ClientAddress["api_getaddresssince"] = {3}
    BY DEF ClientAddress
  <2> QED
    BY <2>1 DEF Gives, One, Two, Three
<1>13. Gives(ClientVersion)
  <2>1. /\ DOMAIN ClientVersion = {"getversion"}
        /\ ClientVersion["getversion"] = {0}
    BY DEF ClientVersion
  <2> QED
    BY <2>1 DEF Gives, One, Two, Three
<1>14. Gives(ClientRegtest)
  <2>1. /\ DOMAIN ClientRegtest = {"regtest_generate", "regtest_mpfill"}
        /\ ClientRegtest["regtest_generate"] = {1} /\ ClientRegtest["regtest_mpfill"] = {1}
    BY DEF ClientRegtest
  <2> QED
    BY <2>1 DEF Gives, One, Two, Three
<1>15. Gives(ClientStop)
  <2>1. /\ DOMAIN ClientStop = {"stop"}
        /\ ClientStop["stop"] = {0}
    BY DEF ClientStop
  <2> QED
    BY <2>1 DEF Gives, One, Two, Three
<1> DEFINE S == {ClientSimple, ClientBalance, ClientPool, ClientLast, ClientSince,
                 ClientKeys, ClientBlocks, ClientLists, ClientSign, ClientAliases,
                 ClientStatus, ClientAddress, ClientVersion, ClientRegtest, ClientStop}
<1>16. \A t \in S : Gives(t)
  BY <1>1, <1>2, <1>3, <1>4, <1>5, <1>6, <1>7, <1>8, <1>9, <1>10, <1>11, <1>12, <1>13,
     <1>14, <1>15
<1> HIDE DEF S
<1>17. Gives(Merge(S))
  BY <1>16, GivesMerged, Zenon
<1> QED
  BY <1>17, Zenon DEF Sends, S

(* No command has the name of a word of the peers. *)
LEMMA PeerWordsApart == PeerWords \cap Command = {}
<1> DEFINE SC == {BlockQueries, Insert, BalanceQueries, PoolQueries, Clear, KeyQueries,
                  ListQueries, LimitQueries, AliasQueries, RemoteSign, SmallQueries,
                  StatusQueries, DiffQueries, Control, Unguarded}
           SA == {ApiControl, ApiBlock, ApiHeight, ApiSince, ApiDisabled,
                  ApiTransaction, ApiAddress, ApiBalance}
<1>1. \A t \in SC : PeerWords \cap DOMAIN t = {}
  BY DEF PeerWords, BlockQueries, Insert, BalanceQueries, PoolQueries, Clear, KeyQueries,
         ListQueries, LimitQueries, AliasQueries, RemoteSign, SmallQueries,
         StatusQueries, DiffQueries, Control, Unguarded
<1>2. \A t \in SA : PeerWords \cap DOMAIN t = {}
  BY DEF PeerWords, ApiControl, ApiBlock, ApiHeight, ApiSince, ApiDisabled,
         ApiTransaction, ApiAddress, ApiBalance
<1>3. PeerWords \cap DOMAIN Mined = {} /\ PeerWords \cap DOMAIN Regtest = {}
  BY DEF PeerWords, Mined, Regtest
<1>4. DOMAIN Core = UNION {DOMAIN t : t \in SC} /\ DOMAIN Api = UNION {DOMAIN t : t \in SA}
  BY Merged, Zenon DEF Core, Api
<1> HIDE DEF SC, SA
<1>5. PeerWords \cap DOMAIN Core = {} /\ PeerWords \cap DOMAIN Api = {}
  BY <1>1, <1>2, <1>4
<1>6. DOMAIN Arity = UNION {DOMAIN t : t \in {Core, Api, Mined, Regtest}}
  BY Merged, Zenon DEF Arity
<1> QED
  BY <1>3, <1>5, <1>6 DEF Command

(* Client and server count the same frames: no tool sends a command of the *)
(* node more arguments than the node reads after its name.                 *)
LEMMA AskedFits ==
  ASSUME NEW c \in DOMAIN Asked, NEW n \in Asked[c]
  PROVE  n \in Nat /\ (c \in Command => n <= Arity[c] /\ Arity[c] \in Nat)
<1>1. PICK t \in {Sends, Tools, Words} : c \in DOMAIN t /\ Asked[c] = t[c]
  BY Merged, Zenon DEF Asked
<1>2. ASSUME c \in Command
      PROVE  /\ Arity[c] \in Nat
             /\ c \in One => Arity[c] = 1
             /\ c \in Two => Arity[c] = 2
             /\ c \in Three => Arity[c] = 3
  BY <1>2, ServerReads, Zenon DEF Reads, Command
<1>3. CASE t = Sends
  <2>1. \/ n = 0
        \/ n = 1 /\ c \in One
        \/ n = 2 /\ c \in Two
        \/ n = 3 /\ c \in Three
    BY <1>1, <1>3, ClientGives, Zenon DEF Gives
  <2> QED
    BY <2>1, <1>2
<1>4. CASE t = Tools
  <2>1. c \in Command /\ n = Arity[c]
    BY <1>1, <1>4 DEF Tools
  <2> QED
    BY <2>1, <1>2
<1>5. CASE t = Words
  <2>1. c \in PeerWords \cup Plugin \cup UnknownApi /\ n \in PeerReads(c)
    BY <1>1, <1>5 DEF Words
  <2>2. c \notin Command
    BY <2>1, PeerWordsApart, WordsAssumption
  <2>3. n \in Nat
    BY <2>1 DEF PeerReads
  <2> QED
    BY <2>2, <2>3
<1> QED
  BY <1>1, <1>3, <1>4, <1>5, Zenon

-----------------------------------------------------------------------------
(* The type of the state: a frame is a word, whatever it was sent as. *)
Word == Value \cup DOMAIN Asked \cup {Silence, None, "notok"}
Answers == [cmd : Word, args : Seq(Word)]
ClientOK == client \in [pc : {"idle", "sending", "waiting", "done"}, cmd : Word,
                        args : Seq(Word), left : Seq(Word), reply : Answers]
ServerOK == server \in [pc : {"loop", "args", "peer", "closed"}, cmd : Word, got : Seq(Word),
                        late : BOOLEAN]
FramesOK == up \in Seq(Word) /\ down \in Seq(Answers)
Parts == {"mempool", "cleared", "peers", "stopping", "chain",
          "gossip", "versions", "consensus", "synced"}
CommandsTypeOK ==
    /\ host \in Host /\ net \in {"mainnet", "testnet", "regnet"} /\ few \in BOOLEAN
    /\ ClientOK /\ ServerOK /\ FramesOK
    /\ changed \subseteq Parts

(* What the steps of the handler thread make of its record. *)
LEMMA Closes ==
  ASSUME ServerOK, Close
  PROVE  ServerOK' /\ server'.pc = "closed" /\ server'.late = server.late
  BY DEF ServerOK, Close

LEMMA Loops ==
  ASSUME ServerOK, Loop
  PROVE  /\ ServerOK'
         /\ server'.pc = "loop" /\ server'.got = <<>> /\ server'.late = server.late
<1>1. None \in Word /\ <<>> \in Seq(Word)
  BY DEF Word
<1> QED
  BY <1>1 DEF ServerOK, Loop

LEMMA ReadsRecord ==
  ASSUME ServerOK, NEW c \in Word, Reading(c)
  PROVE  /\ ServerOK'
         /\ server'.pc = "args" /\ server'.cmd = c /\ server'.got = <<>>
         /\ server'.late = server.late
<1>1. <<>> \in Seq(Word)
  OBVIOUS
<1> QED
  BY <1>1 DEF ServerOK, Reading

LEMMA Collects ==
  ASSUME ServerOK, NEW w \in Word, NEW late \in BOOLEAN, Add(w, late)
  PROVE  /\ ServerOK'
         /\ server'.pc = server.pc /\ server'.cmd = server.cmd
         /\ server'.got = Append(server.got, w) /\ server'.late = late
<1>1. Append(server.got, w) \in Seq(Word)
  BY DEF ServerOK
<1> QED
  BY <1>1 DEF ServerOK, Add

LEMMA Drops ==
  ASSUME ServerOK, NEW w, NEW late \in BOOLEAN, Take(w, late),
         Unusable(server.cmd, Len(server.got) + 1, w)
  PROVE  ServerOK' /\ server'.pc = "loop" /\ server'.late = late
<1>1. None \in Word /\ <<>> \in Seq(Word)
  BY DEF Word
<1>2. server' = [server EXCEPT !.pc = "loop", !.cmd = None, !.got = <<>>, !.late = late]
  BY DEF Take
<1> QED
  BY <1>1, <1>2 DEF ServerOK

LEMMA Answered ==
  ASSUME FramesOK, NEW c \in Word, NEW args \in Seq(Word), Reply(Answer(c, args))
  PROVE  down' \in Seq(Answers)
<1>1. Answer(c, args) \in Answers
  BY DEF Answer, Answers
<1> QED
  BY <1>1 DEF FramesOK, Reply

(* What the steps of the client make of its record. *)
LEMMA AsksRecord ==
  ASSUME ClientOK, NEW c \in Word, NEW args \in Seq(Word), Ask(c, args)
  PROVE  /\ ClientOK'
         /\ client'.pc = "sending" /\ client'.cmd = c /\ client'.args = args
         /\ client'.left = args /\ client'.reply = client.reply
  BY DEF ClientOK, Ask

LEMMA SendsRecord ==
  ASSUME ClientOK, SendArg
  PROVE  /\ ClientOK'
         /\ client'.pc = client.pc /\ client'.cmd = client.cmd /\ client'.args = client.args
         /\ client.left # <<>> /\ client'.left = Tail(client.left)
         /\ client'.reply = client.reply
<1>1. client.left # <<>> /\ Tail(client.left) \in Seq(Word)
  BY DEF ClientOK, SendArg
<1> QED
  BY <1>1 DEF ClientOK, SendArg

LEMMA WaitsRecord ==
  ASSUME ClientOK, Wait \/ ClientGivesUp
  PROVE  /\ ClientOK'
         /\ client.pc # "idle" /\ client'.pc # "idle"
         /\ client'.cmd = client.cmd /\ client'.args = client.args
         /\ client'.left = client.left /\ client'.reply = client.reply
         /\ UNCHANGED <<host, net, up, down, server, few, changed>>
<1>1. CASE Wait
  BY <1>1 DEF ClientOK, Wait
<1>2. CASE ClientGivesUp
  BY <1>2 DEF ClientOK, ClientGivesUp
<1> QED
  BY <1>1, <1>2

LEMMA TakesRecord ==
  ASSUME ClientOK, FramesOK, TakeReply
  PROVE  /\ ClientOK' /\ FramesOK'
         /\ client.pc # "idle" /\ client'.pc # "idle"
         /\ client'.cmd = client.cmd /\ client'.args = client.args
         /\ client'.left = client.left /\ client'.reply = down[1]
         /\ Len(down) >= 1 /\ Len(down') = Len(down) - 1
         /\ \A i \in 1..Len(down') : down'[i] = down[i + 1]
         /\ UNCHANGED <<host, net, up, server, few, changed>>
<1>1. down \in Seq(Answers) /\ down # <<>> /\ Head(down) \in Answers
  BY DEF FramesOK, TakeReply
<1>2. /\ Len(down) >= 1 /\ Len(down') = Len(down) - 1 /\ down' \in Seq(Answers)
      /\ Head(down) = down[1]
      /\ \A i \in 1..Len(down') : down'[i] = down[i + 1]
  BY <1>1 DEF TakeReply
<1>3. /\ ClientOK'
      /\ client.pc # "idle" /\ client'.pc # "idle"
      /\ client'.cmd = client.cmd /\ client'.args = client.args
      /\ client'.left = client.left /\ client'.reply = Head(down)
  BY <1>1 DEF ClientOK, TakeReply
<1> QED
  BY <1>1, <1>2, <1>3 DEF FramesOK, TakeReply

-----------------------------------------------------------------------------
(* The invariant.  While the handler thread reads arguments, it runs a     *)
(* command it found in its table and did not refuse.                       *)
Granted ==
    server.pc = "args" =>
        server.cmd \in Command /\ (Runs(server.cmd) \/ (IsRegtest(server.cmd) /\ regnet))

(* Until the client asks, nothing is on its way. *)
Fresh ==
    client.pc = "idle" =>
        server.pc = "loop" /\ up = <<>> /\ down = <<>> /\ client.reply = NoAnswer

(* A client that asked what the node runs for it, all of its frames in     *)
(* time: both ends agree on which frame is next.  The name is not read     *)
(* yet, or the arguments read, under way and not yet sent are the          *)
(* arguments given, or nothing is left to read.                            *)
Right(r) ==
    \/ r = Answer(client.cmd, client.args)
    \/ r = NotOk /\ IsRegtest(client.cmd)
Unread ==
    server.pc = "loop" /\ up # <<>> /\ up \o client.left = <<client.cmd>> \o client.args
Read ==
    /\ server.pc = "args" /\ server.cmd = client.cmd
    /\ (server.got \o up) \o client.left = client.args
Served == server.pc = "loop" /\ up = <<>> /\ client.left = <<>>
InStep == Unread \/ Read \/ Served \/ server.pc = "closed"
Counted ==
    client.pc # "idle" /\ ~server.late /\ Permitted(client.cmd) /\ client.cmd \in Command
    /\ ~Mistyped(client.cmd, client.args)
Fits == Len(client.args) <= Arity[client.cmd]
AllRight ==
    /\ \A i \in 1..Len(down) : Right(down[i])
    /\ client.reply = NoAnswer \/ Right(client.reply)
InTurn == Counted => Fits /\ AllRight /\ InStep

CommandInv == CommandsTypeOK /\ Granted /\ Fresh /\ InTurn

(* Frames that move from one end of a queue to the end of another. *)
LEMMA Shifted ==
  ASSUME NEW W, NEW s \in Seq(W), NEW r \in Seq(W), r # <<>>
  PROVE  Append(s, Head(r)) \o Tail(r) = s \o r
<1>1. /\ Append(s, Head(r)) \o Tail(r) \in Seq(W) /\ s \o r \in Seq(W)
      /\ Len(Append(s, Head(r)) \o Tail(r)) = Len(s \o r)
  OBVIOUS
<1>2. \A i \in 1..Len(s \o r) : (Append(s, Head(r)) \o Tail(r))[i] = (s \o r)[i]
  OBVIOUS
<1> QED
  BY <1>1, <1>2, SeqEqual

LEMMA AppendLast ==
  ASSUME NEW W, NEW s \in Seq(W), NEW r \in Seq(W), NEW w \in W
  PROVE  s \o Append(r, w) = Append(s \o r, w)
<1>1. /\ s \o Append(r, w) \in Seq(W) /\ Append(s \o r, w) \in Seq(W)
      /\ Len(s \o Append(r, w)) = Len(Append(s \o r, w))
  OBVIOUS
<1>2. \A i \in 1..Len(Append(s \o r, w)) : (s \o Append(r, w))[i] = Append(s \o r, w)[i]
  OBVIOUS
<1> QED
  BY <1>1, <1>2, SeqEqual

LEMMA WithoutFirst ==
  ASSUME NEW W, NEW s \in Seq(W), NEW r \in Seq(W), s # <<>>,
         NEW i \in 1..(Len(s) - 1 + Len(r))
  PROVE  (Tail(s) \o r)[i] = (s \o r)[i + 1]
<1>1. CASE i <= Len(s) - 1
  BY <1>1
<1>2. CASE i > Len(s) - 1
  BY <1>2
<1> QED
  BY <1>1, <1>2

LEMMA NameFirst ==
  ASSUME NEW W, NEW s \in Seq(W), NEW r \in Seq(W), NEW c \in W, NEW a \in Seq(W),
         NEW b \in Seq(W), b = <<c>> \o a, s # <<>>, s \o r = b
  PROVE  Head(s) = c /\ (<<>> \o Tail(s)) \o r = a
<1>1. Len(s) >= 1 /\ Len(s) + Len(r) = 1 + Len(a)
  OBVIOUS
<1>2. Head(s) = c
  <2>1. (s \o r)[1] = s[1] /\ (<<c>> \o a)[1] = c
    BY <1>1
  <2> QED
    BY <2>1
<1> DEFINE q == <<>> \o Tail(s)
<1>3. q = Tail(s)
  OBVIOUS
<1>4. Tail(s) \o r \in Seq(W) /\ Len(Tail(s) \o r) = Len(a)
  BY <1>1
<1>5. ASSUME NEW i \in 1..Len(a) PROVE (Tail(s) \o r)[i] = a[i]
  <2>1. (Tail(s) \o r)[i] = (s \o r)[i + 1]
    <3>1. i \in 1..(Len(s) - 1 + Len(r))
      BY <1>1
    <3> QED
      BY <3>1, WithoutFirst, Zenon
  <2>2. (<<c>> \o a)[i + 1] = a[i]
    OBVIOUS
  <2> QED
    BY <2>1, <2>2
<1>6. Tail(s) \o r = a
  BY <1>4, <1>5, SeqEqual
<1> QED
  BY <1>2, <1>3, <1>6

LEMMA NextFrame ==
  ASSUME NEW W, NEW g \in Seq(W), NEW s \in Seq(W), NEW r \in Seq(W), NEW a \in Seq(W),
         (g \o s) \o r = a, s # <<>>
  PROVE  Len(g) + 1 \in DOMAIN a /\ a[Len(g) + 1] = Head(s)
<1>1. Len(s) >= 1 /\ Len(a) = Len(g) + Len(s) + Len(r) /\ Head(s) = s[1]
  OBVIOUS
<1>2. ((g \o s) \o r)[Len(g) + 1] = (g \o s)[Len(g) + 1]
  BY <1>1
<1>3. (g \o s)[Len(g) + 1] = s[1]
  BY <1>1
<1> QED
  BY <1>1, <1>2, <1>3

LEMMA AllRead ==
  ASSUME NEW W, NEW g \in Seq(W), NEW s \in Seq(W), NEW r \in Seq(W), NEW a \in Seq(W),
         (g \o s) \o r = a, Len(a) <= Len(g)
  PROVE  s = <<>> /\ r = <<>> /\ g = a
<1>1. Len(g) + Len(s) + Len(r) = Len(a)
  OBVIOUS
<1>2. s = <<>> /\ r = <<>> /\ Len(g) = Len(a)
  BY <1>1
<1>3. \A i \in 1..Len(g) : g[i] = a[i]
  BY <1>2
<1> QED
  BY <1>2, <1>3, SeqEqual

(* What the handler thread may run does not change: the address is fixed. *)
LEMMA SameRights ==
  ASSUME UNCHANGED host, server'.cmd = server.cmd
  PROVE  Runs(server.cmd)' <=> Runs(server.cmd)
<1>1. Permitted(server.cmd)' <=> Permitted(server.cmd)
  BY DEF Permitted, is_allowed, is_whitelisted
<1>2. Falls(server.cmd)' <=> Falls(server.cmd)
  BY <1>1 DEF Falls
<1>3. Refused(server.cmd)' <=> Refused(server.cmd)
  BY <1>1, <1>2 DEF Refused
<1> QED
  BY <1>2, <1>3 DEF Runs, IsRegtest

LEMMA SameCounted ==
  ASSUME UNCHANGED host, client'.cmd = client.cmd, client'.args = client.args, Counted',
         client.pc # "idle", server'.late = server.late
  PROVE  Counted
  BY DEF Counted, Permitted, is_allowed, is_whitelisted, Mistyped, Unusable

(* An action that leaves the handler thread alone keeps Granted. *)
LEMMA KeepsGranted ==
  ASSUME UNCHANGED <<host, net>>, Granted,
         server'.pc # "args" \/ (server.pc = "args" /\ server'.cmd = server.cmd)
  PROVE  Granted'
<1>1. CASE server'.pc # "args"
  BY <1>1 DEF Granted
<1>2. CASE server.pc = "args" /\ server'.cmd = server.cmd
  BY <1>2, SameRights DEF Granted, IsRegtest, regnet
<1> QED
  BY <1>1, <1>2

-----------------------------------------------------------------------------
(* The client. *)
LEMMA AsksKeeps ==
  ASSUME CommandInv, Asks
  PROVE  CommandInv'
<1>1. PICK c \in DOMAIN Asked : \E n \in Asked[c] : \E args \in [1..n -> Value] : Ask(c, args)
  BY Zenon DEF Asks
<1>2. PICK n \in Asked[c] : \E args \in [1..n -> Value] : Ask(c, args)
  BY <1>1, Zenon
<1>3. PICK args \in [1..n -> Value] : Ask(c, args)
  BY <1>2, Zenon
<1>4. n \in Nat /\ (c \in Command => n <= Arity[c] /\ Arity[c] \in Nat)
  BY AskedFits
<1>5. c \in Word /\ args \in Seq(Word) /\ Len(args) = n
  <2>1. c \in Word /\ args \in [1..n -> Word]
    BY DEF Word
  <2> QED
    BY <2>1, <1>4
<1>6. CommandsTypeOK /\ ClientOK /\ ServerOK /\ FramesOK
  BY DEF CommandInv, CommandsTypeOK
<1>7. /\ ClientOK'
      /\ client'.pc = "sending" /\ client'.cmd = c /\ client'.args = args
      /\ client'.left = args /\ client'.reply = client.reply
  BY <1>3, <1>5, <1>6, AsksRecord
<1>8. /\ client.pc = "idle" /\ up' = Append(up, c)
      /\ UNCHANGED <<host, net, down, server, few, changed>>
  BY <1>3 DEF Ask
<1>9. server.pc = "loop" /\ up = <<>> /\ down = <<>> /\ client.reply = NoAnswer
  BY <1>8 DEF CommandInv, Fresh
<1>10. up' = <<c>> /\ up' \in Seq(Word)
  BY <1>5, <1>8, <1>9
<1>11. CommandsTypeOK'
  BY <1>6, <1>7, <1>8, <1>10 DEF CommandsTypeOK, FramesOK, ServerOK
<1>12. Granted'
  BY <1>8, <1>9 DEF Granted
<1>13. Fresh'
  BY <1>7 DEF Fresh
<1>14. InTurn'
  <2> SUFFICES ASSUME Counted' PROVE Fits' /\ AllRight' /\ InStep'
    BY DEF InTurn
  <2>1. c \in Command
    BY <1>7 DEF Counted
  <2>2. Fits'
    BY <1>4, <1>5, <1>7, <2>1 DEF Fits
  <2>3. AllRight'
    BY <1>7, <1>8, <1>9 DEF AllRight
  <2>4. up' # <<>> /\ up' \o args = <<c>> \o args
    BY <1>10, <1>5
  <2>5. Unread'
    BY <1>7, <1>8, <1>9, <2>4 DEF Unread
  <2> QED
    BY <2>2, <2>3, <2>5 DEF InStep
<1> QED
  BY <1>11, <1>12, <1>13, <1>14 DEF CommandInv

LEMMA SendArgKeeps ==
  ASSUME CommandInv, SendArg
  PROVE  CommandInv'
<1>1. CommandsTypeOK /\ ClientOK /\ ServerOK /\ FramesOK
  BY DEF CommandInv, CommandsTypeOK
<1>2. /\ ClientOK'
      /\ client'.pc = client.pc /\ client'.cmd = client.cmd /\ client'.args = client.args
      /\ client.left # <<>> /\ client'.left = Tail(client.left)
      /\ client'.reply = client.reply
  BY <1>1, SendsRecord
<1>3. /\ client.pc = "sending" /\ up' = Append(up, Head(client.left))
      /\ UNCHANGED <<host, net, down, server, few, changed>>
  BY DEF SendArg
<1>4. client.left \in Seq(Word) /\ Head(client.left) \in Word /\ up' \in Seq(Word)
  BY <1>1, <1>2, <1>3 DEF ClientOK, FramesOK
<1>5. CommandsTypeOK'
  BY <1>1, <1>2, <1>3, <1>4 DEF CommandsTypeOK, FramesOK, ServerOK
<1>6. Granted'
  BY <1>3, KeepsGranted DEF CommandInv, Granted
<1>7. Fresh'
  BY <1>2, <1>3 DEF Fresh
<1>8. InTurn'
  <2> SUFFICES ASSUME Counted' PROVE Fits' /\ AllRight' /\ InStep'
    BY DEF InTurn
  <2>1. Counted
    BY <1>2, <1>3, SameCounted
  <2>2. Fits /\ AllRight /\ InStep
    BY <2>1 DEF CommandInv, InTurn
  <2>3. Fits' /\ AllRight'
    BY <2>2, <1>2, <1>3 DEF Fits, AllRight, Right, IsRegtest
  <2>4. up \in Seq(Word) /\ server.got \in Seq(Word) /\ client.args \in Seq(Word)
    BY <1>1 DEF FramesOK, ServerOK, ClientOK
  <2>5. CASE Unread
    <3>1. up' \o client'.left = up \o client.left
      BY <1>2, <1>3, <1>4, <2>4, Shifted
    <3>2. up' # <<>>
      BY <1>3, <1>4, <2>4
    <3> QED
      BY <2>3, <2>5, <1>2, <1>3, <3>1, <3>2 DEF InStep, Unread
  <2>6. CASE Read
    <3> DEFINE h == Head(client.left)
    <3>0. h \in Word /\ up' = Append(up, h)
      BY <1>3, <1>4
    <3> HIDE DEF h
    <3>1. server.got \o up' = Append(server.got \o up, h)
      <4> DEFINE g == server.got
      <4>1. g \in Seq(Word) /\ up \in Seq(Word)
        BY <2>4
      <4> HIDE DEF g
      <4>2. g \o up' = Append(g \o up, h)
        BY <3>0, <4>1, AppendLast
      <4> QED
        BY <4>2 DEF g
    <3>2. server.got \o up \in Seq(Word)
      BY <2>4
    <3>3. (server.got \o up') \o client'.left = (server.got \o up) \o client.left
      BY <1>2, <1>4, <3>1, <3>2, Shifted DEF h
    <3> QED
      BY <2>3, <2>6, <1>2, <1>3, <3>3 DEF InStep, Read
  <2>7. CASE Served
    BY <2>7, <1>2 DEF Served
  <2>8. CASE server.pc = "closed"
    BY <2>3, <2>8, <1>3 DEF InStep
  <2> QED
    BY <2>2, <2>5, <2>6, <2>7, <2>8 DEF InStep
<1> QED
  BY <1>5, <1>6, <1>7, <1>8 DEF CommandInv

LEMMA WaitKeeps ==
  ASSUME CommandInv, Wait \/ ClientGivesUp
  PROVE  CommandInv'
<1>1. CommandsTypeOK /\ ClientOK /\ ServerOK /\ FramesOK
  BY DEF CommandInv, CommandsTypeOK
<1>2. /\ ClientOK'
      /\ client.pc # "idle" /\ client'.pc # "idle"
      /\ client'.cmd = client.cmd /\ client'.args = client.args
      /\ client'.left = client.left /\ client'.reply = client.reply
      /\ UNCHANGED <<host, net, up, down, server, few, changed>>
  BY <1>1, WaitsRecord
<1>3. CommandsTypeOK'
  BY <1>1, <1>2 DEF CommandsTypeOK, FramesOK, ServerOK
<1>4. Granted'
  BY <1>2, KeepsGranted DEF CommandInv, Granted
<1>5. Fresh'
  BY <1>2 DEF Fresh
<1>6. InTurn'
  <2> SUFFICES ASSUME Counted' PROVE Fits' /\ AllRight' /\ InStep'
    BY DEF InTurn
  <2>1. Counted
    BY <1>2, SameCounted
  <2>2. Fits /\ AllRight /\ InStep
    BY <2>1 DEF CommandInv, InTurn
  <2>3. Fits' /\ AllRight'
    BY <2>2, <1>2 DEF Fits, AllRight, Right, IsRegtest
  <2>4. InStep'
    BY <2>2, <1>2 DEF InStep, Unread, Read, Served
  <2> QED
    BY <2>3, <2>4
<1> QED
  BY <1>3, <1>4, <1>5, <1>6 DEF CommandInv

LEMMA TakeReplyKeeps ==
  ASSUME CommandInv, TakeReply
  PROVE  CommandInv'
<1>1. CommandsTypeOK /\ ClientOK /\ ServerOK /\ FramesOK
  BY DEF CommandInv, CommandsTypeOK
<1>2. /\ ClientOK' /\ FramesOK'
      /\ client.pc # "idle" /\ client'.pc # "idle"
      /\ client'.cmd = client.cmd /\ client'.args = client.args
      /\ client'.left = client.left /\ client'.reply = down[1]
      /\ Len(down) >= 1 /\ Len(down') = Len(down) - 1
      /\ \A i \in 1..Len(down') : down'[i] = down[i + 1]
      /\ UNCHANGED <<host, net, up, server, few, changed>>
  BY <1>1, TakesRecord
<1>3. CommandsTypeOK'
  BY <1>1, <1>2 DEF CommandsTypeOK, ServerOK
<1>4. Granted'
  BY <1>2, KeepsGranted DEF CommandInv, Granted
<1>5. Fresh'
  BY <1>2 DEF Fresh
<1>6. InTurn'
  <2> SUFFICES ASSUME Counted' PROVE Fits' /\ AllRight' /\ InStep'
    BY DEF InTurn
  <2>1. Counted
    BY <1>2, SameCounted
  <2>2. Fits /\ AllRight /\ InStep
    BY <2>1 DEF CommandInv, InTurn
  <2>3. Fits'
    BY <2>2, <1>2 DEF Fits
  <2>4. Len(down) \in Nat
    BY <1>1 DEF FramesOK
  <2>5. \A i \in 1..Len(down) : Right(down[i])
    BY <2>2 DEF AllRight
  <2>6. Right(down[1])
    BY <2>4, <2>5, <1>2
  <2>7. Right(client.reply)'
    BY <2>6, <1>2 DEF Right, IsRegtest
  <2>8. ASSUME NEW i \in 1..Len(down') PROVE Right(down[i])'
    <3>1. i + 1 \in 1..Len(down) /\ down'[i] = down[i + 1]
      BY <2>4, <1>2
    <3>2. Right(down[i + 1])
      BY <2>5, <3>1
    <3> QED
      BY <3>1, <3>2, <1>2 DEF Right, IsRegtest
  <2>9. AllRight'
    BY <2>7, <2>8 DEF AllRight
  <2>10. InStep'
    BY <2>2, <1>2 DEF InStep, Unread, Read, Served
  <2> QED
    BY <2>3, <2>9, <2>10
<1> QED
  BY <1>3, <1>4, <1>5, <1>6 DEF CommandInv

-----------------------------------------------------------------------------
(* The handler thread.  Every way a connection ends and every way back to  *)
(* the loop is one of two steps.                                           *)
LEMMA ClosingKeeps ==
  ASSUME CommandInv, Close, client.pc # "idle",
         UNCHANGED <<host, net, client, few, changed>>,
         FramesOK', Counted => AllRight'
  PROVE  CommandInv'
<1>1. CommandsTypeOK /\ ClientOK /\ ServerOK
  BY DEF CommandInv, CommandsTypeOK
<1>2. ServerOK' /\ server'.pc = "closed" /\ server'.late = server.late
  BY <1>1, Closes
<1>3. CommandsTypeOK'
  BY <1>1, <1>2 DEF CommandsTypeOK, ClientOK
<1>4. Granted' /\ Fresh'
  BY <1>2 DEF Granted, Fresh
<1>5. InTurn'
  <2> SUFFICES ASSUME Counted' PROVE Fits' /\ AllRight' /\ InStep'
    BY DEF InTurn
  <2>1. Counted
    BY <1>2, SameCounted
  <2>2. Fits'
    BY <2>1 DEF CommandInv, InTurn, Fits
  <2> QED
    BY <2>1, <2>2, <1>2 DEF InStep
<1> QED
  BY <1>3, <1>4, <1>5 DEF CommandInv

(* A command that ends has read all that its client sent: the client sends *)
(* no more arguments than the table counts.                                *)
LEMMA EndOfCommand ==
  ASSUME CommandInv, Ready, Counted
  PROVE  /\ server.cmd = client.cmd /\ server.got = client.args
         /\ up = <<>> /\ client.left = <<>>
<1>1. Read /\ Fits
  BY DEF CommandInv, InTurn, InStep, Unread, Served, Ready
<1>2. /\ server.got \in Seq(Word) /\ up \in Seq(Word)
      /\ client.left \in Seq(Word) /\ client.args \in Seq(Word)
  BY DEF CommandInv, CommandsTypeOK, ServerOK, FramesOK, ClientOK
<1>3. Len(client.args) <= Len(server.got)
  BY <1>1 DEF Read, Fits, Ready, Complete
<1>4. (server.got \o up) \o client.left = client.args
  BY <1>1 DEF Read
<1> DEFINE g == server.got
           r == client.left
           a == client.args
<1>5. /\ g \in Seq(Word) /\ up \in Seq(Word) /\ r \in Seq(Word) /\ a \in Seq(Word)
      /\ (g \o up) \o r = a /\ Len(a) <= Len(g)
  BY <1>2, <1>3, <1>4
<1> HIDE DEF g, r, a
<1>6. up = <<>> /\ r = <<>> /\ g = a
  BY <1>5, AllRead
<1> QED
  BY <1>1, <1>6 DEF Read, g, r, a

(* A client the node does not keep step with: only the types are at stake. *)
LEMMA OutOfStepKeeps ==
  ASSUME CommandInv, ServerOK', server'.pc # "args", client.pc # "idle", ~Counted',
         UNCHANGED <<host, net, client, few>>, FramesOK', changed' \subseteq Parts
  PROVE  CommandInv'
<1>1. CommandsTypeOK /\ ClientOK
  BY DEF CommandInv, CommandsTypeOK
<1>2. CommandsTypeOK'
  BY <1>1 DEF CommandsTypeOK, ClientOK
<1>3. Granted' /\ Fresh' /\ InTurn'
  BY DEF Granted, Fresh, InTurn
<1> QED
  BY <1>2, <1>3 DEF CommandInv

LEMMA LoopingKeeps ==
  ASSUME CommandInv, Loop, Ready,
         UNCHANGED <<host, net, client, up, few>>,
         changed' \subseteq Parts,
         down' \in Seq(Answers), Counted => AllRight'
  PROVE  CommandInv'
<1>1. CommandsTypeOK /\ ClientOK /\ ServerOK /\ FramesOK
  BY DEF CommandInv, CommandsTypeOK
<1>2. ServerOK' /\ server'.pc = "loop" /\ server'.late = server.late
  BY <1>1, Loops
<1>3. client.pc # "idle"
  BY DEF CommandInv, Fresh, Ready
<1>4. CommandsTypeOK'
  BY <1>1, <1>2 DEF CommandsTypeOK, ClientOK, FramesOK
<1>5. Granted' /\ Fresh'
  BY <1>2, <1>3 DEF Granted, Fresh
<1>6. InTurn'
  <2> SUFFICES ASSUME Counted' PROVE Fits' /\ AllRight' /\ InStep'
    BY DEF InTurn
  <2>1. Counted
    BY <1>2, <1>3, SameCounted
  <2>2. Fits'
    BY <2>1 DEF CommandInv, InTurn, Fits
  <2>3. up = <<>> /\ client.left = <<>>
    BY <2>1, EndOfCommand
  <2> QED
    BY <2>1, <2>2, <2>3, <1>2 DEF InStep, Served
<1> QED
  BY <1>4, <1>5, <1>6 DEF CommandInv

(* Frames that are not touched stay right. *)
LEMMA StillRight ==
  ASSUME CommandInv, UNCHANGED <<client, down>>, Counted
  PROVE  AllRight'
  BY DEF CommandInv, InTurn, AllRight, Right, IsRegtest

LEMMA OneMoreRight ==
  ASSUME CommandInv, UNCHANGED client, Counted,
         NEW r, Reply(r), Right(r)
  PROVE  AllRight'
<1>1. down \in Seq(Answers)
  BY DEF CommandInv, CommandsTypeOK, FramesOK
<1>2. AllRight
  BY DEF CommandInv, InTurn
<1>3. /\ Len(down') = Len(down) + 1 /\ down'[Len(down) + 1] = r
      /\ \A i \in 1..Len(down) : down'[i] = down[i]
  BY <1>1 DEF Reply
<1>4. ASSUME NEW i \in 1..Len(down') PROVE Right(down[i])'
  <2>1. CASE i \in 1..Len(down)
    <3>1. Right(down[i]) /\ down'[i] = down[i]
      BY <1>2, <1>3, <2>1 DEF AllRight
    <3> QED
      BY <3>1 DEF Right, IsRegtest
  <2>2. CASE i = Len(down) + 1
    BY <1>3, <2>2 DEF Right, IsRegtest
  <2> QED
    BY <1>1, <1>3, <2>1, <2>2
<1>5. (client.reply = NoAnswer \/ Right(client.reply))'
  BY <1>2 DEF AllRight, Right, IsRegtest
<1> QED
  BY <1>4, <1>5 DEF AllRight

(* A word of the peers, of a plugin or of no api method is no command. *)
LEMMA Apart ==
  ASSUME NEW c
  PROVE  /\ c \in UnknownApi \/ Talks(c) => c \notin Command /\ ~IsRegtest(c) /\ ~Falls(c) /\ ~Refused(c)
         /\ ~(Talks(c) /\ c \in UnknownApi)
<1>1. DOMAIN Core \cup DOMAIN Api \cup DOMAIN Regtest \subseteq Command
  <2>1. DOMAIN Arity = UNION {DOMAIN t : t \in {Core, Api, Mined, Regtest}}
    BY Merged, Zenon DEF Arity
  <2> QED
    BY <2>1 DEF Command
<1>2. DOMAIN PoolQueries \cup DOMAIN Clear \subseteq DOMAIN Core
  <2> DEFINE S == {BlockQueries, Insert, BalanceQueries, PoolQueries, Clear, KeyQueries,
                   ListQueries, LimitQueries, AliasQueries, RemoteSign, SmallQueries,
                   StatusQueries, DiffQueries, Control, Unguarded}
  <2>1. DOMAIN Core = UNION {DOMAIN t : t \in S}
    BY Merged, Zenon DEF Core
  <2>2. PoolQueries \in S /\ Clear \in S
    OBVIOUS
  <2> HIDE DEF S
  <2> QED
    BY <2>1, <2>2
<1>3. "regtest_mpfill" \notin PeerWords /\ "mpclear" \in DOMAIN Clear
  BY DEF PeerWords, Clear
<1>4. ASSUME c \in UnknownApi \/ Talks(c) PROVE c \notin Command /\ ~IsRegtest(c)
  BY <1>1, <1>3, <1>4, PeerWordsApart, WordsAssumption DEF IsRegtest, Talks
<1>5. ~(Talks(c) /\ c \in UnknownApi)
  BY WordsAssumption DEF Talks
<1>6. ASSUME c \in UnknownApi \/ Talks(c) PROVE ~Falls(c) /\ ~Refused(c)
  BY <1>1, <1>2, <1>3, <1>4, <1>6 DEF Falls, Refused, IsRegtest
<1> QED
  BY <1>4, <1>5, <1>6

(* The name of a command is read: what the client asked, if it is counted. *)
LEMMA ReceiveCommandKeeps ==
  ASSUME CommandInv, ReceiveCommand
  PROVE  CommandInv'
<1> DEFINE c == Head(up)
<1>1. CommandsTypeOK /\ ClientOK /\ ServerOK /\ FramesOK
  BY DEF CommandInv, CommandsTypeOK
<1>2. /\ server.pc = "loop" /\ up # <<>> /\ up' = Tail(up) /\ Dispatch(c)
      /\ UNCHANGED <<host, net, client, few, changed>>
  BY DEF ReceiveCommand
<1>3. c \in Word /\ up' \in Seq(Word)
  BY <1>1, <1>2 DEF FramesOK
<1>4. client.pc # "idle"
  BY <1>2 DEF CommandInv, Fresh
<1>5. ASSUME Counted
      PROVE  Fits /\ c = client.cmd /\ (<<>> \o up') \o client.left = client.args
  <2>1. Unread /\ Fits
    BY <1>2, <1>5 DEF CommandInv, InTurn, InStep, Read, Served
  <2>2. /\ up \in Seq(Word) /\ client.left \in Seq(Word) /\ client.cmd \in Word
        /\ client.args \in Seq(Word)
    BY <1>1 DEF FramesOK, ClientOK
  <2> DEFINE r == client.left
             a == client.args
             w == client.cmd
  <2>3. /\ up \in Seq(Word) /\ r \in Seq(Word) /\ w \in Word /\ a \in Seq(Word)
        /\ up # <<>> /\ up \o r = <<w>> \o a
    BY <2>1, <2>2 DEF Unread
  <2> DEFINE b == <<w>> \o a
  <2> HIDE DEF r, a, w
  <2>5. b \in Seq(Word)
    BY <2>3
  <2>6. up \o r = b /\ b = <<w>> \o a
    BY <2>3
  <2> HIDE DEF b
  <2>4. Head(up) = w /\ (<<>> \o Tail(up)) \o r = a
    BY <2>3, <2>5, <2>6, NameFirst
  <2> QED
    BY <1>2, <2>1, <2>4 DEF r, a, w
<1> HIDE DEF c
<1>6. ASSUME Reading(c), UNCHANGED down, c \in Command, Runs(c) \/ (IsRegtest(c) /\ regnet)
      PROVE  CommandInv'
  <2>1. /\ ServerOK'
        /\ server'.pc = "args" /\ server'.cmd = c /\ server'.got = <<>>
        /\ server'.late = server.late
    BY <1>1, <1>3, <1>6, ReadsRecord
  <2>2. CommandsTypeOK'
    BY <1>1, <1>2, <1>3, <1>6, <2>1 DEF CommandsTypeOK, ClientOK, FramesOK
  <2>3. Granted'
    BY <1>2, <1>6, <2>1
       DEF Granted, Runs, Refused, Falls, Permitted, is_allowed, is_whitelisted, IsRegtest,
           regnet
  <2>4. Fresh'
    BY <1>2, <1>4 DEF Fresh
  <2>5. InTurn'
    <3> SUFFICES ASSUME Counted' PROVE Fits' /\ AllRight' /\ InStep'
      BY DEF InTurn
    <3>1. Counted
      BY <1>2, <1>4, <2>1, SameCounted
    <3>2. Fits' /\ AllRight'
      BY <1>2, <1>5, <1>6, <3>1, StillRight DEF Fits
    <3>3. Read'
      BY <1>2, <1>5, <2>1, <3>1 DEF Read
    <3> QED
      BY <3>2, <3>3 DEF InStep
  <2> QED
    BY <2>2, <2>3, <2>4, <2>5 DEF CommandInv
<1>7. ASSUME Close, FramesOK', Counted => AllRight' PROVE CommandInv'
  BY <1>2, <1>4, <1>7, ClosingKeeps
<1>8. ASSUME ServerOK', server'.pc # "args", server'.late = server.late, UNCHANGED down, ~Counted
      PROVE  CommandInv'
  <2>1. FramesOK' /\ changed' \subseteq Parts
    BY <1>1, <1>2, <1>3, <1>8 DEF CommandsTypeOK, FramesOK
  <2>2. ~Counted'
    BY <1>2, <1>4, <1>8, SameCounted
  <2> QED
    BY <1>2, <1>4, <1>8, <2>1, <2>2, OutOfStepKeeps
<1>0. /\ c \in UnknownApi \/ Talks(c) => c \notin Command /\ ~IsRegtest(c) /\ ~Falls(c) /\ ~Refused(c)
      /\ ~(Talks(c) /\ c \in UnknownApi)
  BY Apart, Zenon
<1>9. CASE IsRegtest(c)
  <2>0. c \notin UnknownApi /\ ~Talks(c)
    BY <1>0, <1>9
  <2>1. CASE ~regnet
    <3>1. Close /\ Reply(NotOk)
      BY <1>2, <1>9, <2>0, <2>1 DEF Dispatch, Runs
    <3>2. FramesOK'
      <4>1. "notok" \in Word /\ <<>> \in Seq(Word)
        BY DEF Word
      <4> QED
        BY <1>1, <1>3, <3>1, <4>1, Answered DEF NotOk, FramesOK
    <3>3. ASSUME Counted PROVE AllRight'
      <4>1. Right(NotOk)
        BY <1>5, <1>9, <3>3 DEF Right
      <4> QED
        BY <1>2, <3>1, <3>3, <4>1, OneMoreRight
    <3> QED
      BY <3>1, <3>2, <3>3, <1>7
  <2>2. CASE regnet /\ c \in Command
    BY <1>2, <1>6, <1>9, <2>0, <2>2 DEF Dispatch, Runs
  <2>3. CASE regnet /\ c \notin Command
    <3>1. Loop /\ UNCHANGED down
      BY <1>2, <1>9, <2>0, <2>3 DEF Dispatch, Runs
    <3>2. ~Counted
      BY <1>5, <2>3 DEF Counted
    <3> QED
      BY <1>1, <3>1, <3>2, <1>8, Loops
  <2> QED
    BY <2>1, <2>2, <2>3
<1>10. CASE ~IsRegtest(c) /\ Falls(c)
  <2>1. Close /\ UNCHANGED down
    BY <1>0, <1>2, <1>10 DEF Dispatch, Runs, Refused
  <2>2. FramesOK'
    BY <1>1, <1>3, <2>1 DEF FramesOK
  <2>3. Counted => AllRight'
    BY <1>2, <2>1, StillRight
  <2> QED
    BY <2>1, <2>2, <2>3, <1>7
<1>11. CASE ~IsRegtest(c) /\ Refused(c)
  <2>0. c \in Command
    <3>1. DOMAIN Arity = UNION {DOMAIN t : t \in {Core, Api, Mined, Regtest}}
      BY Merged, Zenon DEF Arity
    <3> QED
      BY <1>11, <3>1 DEF Refused, Command
  <2>1. Loop /\ UNCHANGED down
    BY <1>0, <1>2, <1>11, <2>0 DEF Dispatch, Runs, Refused
  <2>2. ~Counted
    BY <1>5, <1>11 DEF Counted, Refused
  <2> QED
    BY <1>1, <2>1, <2>2, <1>8, Loops
<1>12. CASE Runs(c)
  <2>1. Reading(c) /\ UNCHANGED down
    BY <1>0, <1>2, <1>12 DEF Dispatch, Runs
  <2>2. c \in Command
    BY <1>12 DEF Runs
  <2> QED
    BY <2>1, <2>2, <1>6, <1>12
<1>13. CASE c \in UnknownApi
  <2>1. c \notin Command /\ ~IsRegtest(c) /\ ~Talks(c)
    BY <1>0, <1>13
  <2>2. Loop /\ UNCHANGED down
    BY <1>0, <1>2, <1>13, <2>1 DEF Dispatch, Runs
  <2>3. ~Counted
    BY <1>5, <2>1 DEF Counted
  <2> QED
    BY <1>1, <2>2, <2>3, <1>8, Loops
<1>14. CASE Talks(c)
  <2>1. c \notin Command /\ ~IsRegtest(c) /\ c \notin UnknownApi
    BY <1>0, <1>14
  <2>2. server' = [server EXCEPT !.pc = "peer", !.cmd = c] /\ UNCHANGED down
    BY <1>0, <1>2, <1>14, <2>1 DEF Dispatch, Runs
  <2>3. ServerOK' /\ server'.pc = "peer" /\ server'.late = server.late
    BY <1>1, <1>3, <2>2 DEF ServerOK
  <2>4. ~Counted
    BY <1>5, <2>1 DEF Counted
  <2> QED
    BY <2>2, <2>3, <2>4, <1>8
<1> QED
  BY <1>2, <1>9, <1>10, <1>11, <1>12, <1>13, <1>14 DEF Dispatch

(* Idle, or an error of the command: the connection ends. *)
LEMMA EndsKeeps ==
  ASSUME CommandInv, Close, client.pc # "idle",
         UNCHANGED <<host, net, client, up, down, few, changed>>
  PROVE  CommandInv'
<1>1. FramesOK'
  BY DEF CommandInv, CommandsTypeOK, FramesOK
<1>2. Counted => AllRight'
  BY StillRight
<1> QED
  BY <1>1, <1>2, ClosingKeeps

LEMMA IdleTimeoutKeeps ==
  ASSUME CommandInv, IdleTimeout
  PROVE  CommandInv'
  BY EndsKeeps DEF IdleTimeout

LEMMA RaiseKeeps ==
  ASSUME CommandInv, Raise
  PROVE  CommandInv'
  BY EndsKeeps DEF Raise, Ready, CommandInv, Fresh

LEMMA ReceiveArgKeeps ==
  ASSUME CommandInv, ReceiveArg
  PROVE  CommandInv'
<1> DEFINE w == Head(up)
<1>1. CommandsTypeOK /\ ClientOK /\ ServerOK /\ FramesOK
  BY DEF CommandInv, CommandsTypeOK
<1>2. /\ server.pc = "args" /\ up # <<>> /\ up' = Tail(up)
      /\ Take(w, server.late)
      /\ UNCHANGED <<host, net, client, down, few, changed>>
  BY DEF ReceiveArg
<1>3. w \in Word /\ up' \in Seq(Word)
  BY <1>1, <1>2 DEF FramesOK
<1> HIDE DEF w
<1>5. client.pc # "idle"
  BY <1>2 DEF CommandInv, Fresh
<1>10. server.late \in BOOLEAN
  BY <1>1 DEF ServerOK
<1>11. ASSUME Counted PROVE ~Unusable(server.cmd, Len(server.got) + 1, w)
  <2>1. Read /\ ~Mistyped(client.cmd, client.args)
    BY <1>2, <1>11 DEF CommandInv, InTurn, InStep, Unread, Served, Counted
  <2> DEFINE g == server.got
             r == client.left
             a == client.args
  <2>2. /\ g \in Seq(Word) /\ up \in Seq(Word) /\ r \in Seq(Word) /\ a \in Seq(Word)
        /\ (g \o up) \o r = a /\ server.cmd = client.cmd /\ up # <<>>
    BY <1>1, <1>2, <2>1 DEF ServerOK, FramesOK, ClientOK, Read
  <2> HIDE DEF g, r, a
  <2>3. Len(g) + 1 \in DOMAIN a /\ a[Len(g) + 1] = Head(up)
    BY <2>2, NextFrame
  <2> QED
    BY <2>1, <2>2, <2>3 DEF Mistyped, g, a, w
<1>12. CASE Unusable(server.cmd, Len(server.got) + 1, w)
  <2>1. ServerOK' /\ server'.pc = "loop" /\ server'.late = server.late
    BY <1>1, <1>2, <1>10, <1>12, Drops
  <2>2. ~Counted'
    BY <1>2, <1>5, <1>11, <1>12, <2>1, SameCounted
  <2>3. FramesOK' /\ changed' \subseteq Parts
    BY <1>1, <1>2, <1>3 DEF FramesOK, CommandsTypeOK
  <2> QED
    BY <1>2, <1>5, <2>1, <2>2, <2>3, OutOfStepKeeps
<1> SUFFICES ASSUME ~Unusable(server.cmd, Len(server.got) + 1, w) PROVE CommandInv'
  BY <1>12
<1>4. /\ ServerOK'
      /\ server'.pc = server.pc /\ server'.cmd = server.cmd
      /\ server'.got = Append(server.got, w) /\ server'.late = server.late
  <2>1. Add(w, server.late)
    BY <1>2 DEF Take
  <2> QED
    BY <1>1, <1>3, <1>10, <2>1, Collects
<1>6. CommandsTypeOK'
  BY <1>1, <1>2, <1>3, <1>4 DEF CommandsTypeOK, ClientOK, FramesOK
<1>7. Granted'
  BY <1>2, <1>4, KeepsGranted DEF CommandInv
<1>8. Fresh'
  BY <1>2, <1>5 DEF Fresh
<1>9. InTurn'
  <2> SUFFICES ASSUME Counted' PROVE Fits' /\ AllRight' /\ InStep'
    BY DEF InTurn
  <2>1. Counted
    BY <1>2, <1>4, <1>5, SameCounted
  <2>2. Fits /\ Read
    BY <1>2, <2>1 DEF CommandInv, InTurn, InStep, Unread, Served
  <2>3. Fits' /\ AllRight'
    BY <1>2, <2>1, <2>2, StillRight DEF Fits
  <2>4. server'.got \o up' = server.got \o up
    <3> DEFINE g == server.got
    <3>1. g \in Seq(Word) /\ up \in Seq(Word)
      BY <1>1 DEF ServerOK, FramesOK
    <3>2. server'.got = Append(g, Head(up)) /\ up' = Tail(up)
      BY <1>2, <1>4 DEF w
    <3> HIDE DEF g
    <3>3. Append(g, Head(up)) \o Tail(up) = g \o up
      BY <1>2, <3>1, Shifted
    <3>4. server'.got \o up' = g \o up
      BY <3>2, <3>3, Zenon
    <3> QED
      BY <3>4 DEF g
  <2>5. Read'
    BY <1>2, <1>4, <2>2, <2>4 DEF Read
  <2> QED
    BY <2>3, <2>5 DEF InStep
<1> QED
  BY <1>6, <1>7, <1>8, <1>9 DEF CommandInv

LEMMA ArgTimeoutKeeps ==
  ASSUME CommandInv, ArgTimeout
  PROVE  CommandInv'
<1>1. CommandsTypeOK /\ ClientOK /\ ServerOK /\ FramesOK
  BY DEF CommandInv, CommandsTypeOK
<1>2. server.pc = "args" /\ UNCHANGED <<host, net, client, up, down, few, changed>>
  BY DEF ArgTimeout
<1>3. client.pc # "idle"
  BY <1>2 DEF CommandInv, Fresh
<1>4. CASE Close
  BY <1>2, <1>3, <1>4, EndsKeeps
<1>5. CASE Take(Silence, TRUE) /\ Unusable(server.cmd, Len(server.got) + 1, Silence)
  <2>1. ServerOK' /\ server'.pc = "loop" /\ server'.late
    BY <1>1, <1>5, Drops
  <2>2. ~Counted'
    BY <2>1 DEF Counted
  <2>3. FramesOK' /\ changed' \subseteq Parts
    BY <1>1, <1>2 DEF FramesOK, CommandsTypeOK
  <2> QED
    BY <1>2, <1>3, <2>1, <2>2, <2>3, OutOfStepKeeps
<1>6. CASE Take(Silence, TRUE) /\ ~Unusable(server.cmd, Len(server.got) + 1, Silence)
  <2>0. Add(Silence, TRUE) /\ Silence \in Word
    BY <1>6 DEF Take, Word
  <2>1. /\ ServerOK'
        /\ server'.pc = server.pc /\ server'.cmd = server.cmd
        /\ server'.late
    BY <1>1, <2>0, Collects
  <2>2. CommandsTypeOK'
    BY <1>1, <1>2, <2>1 DEF CommandsTypeOK, ClientOK, FramesOK
  <2>3. Granted'
    BY <1>2, <2>1, KeepsGranted DEF CommandInv
  <2>4. Fresh' /\ InTurn'
    BY <1>2, <1>3, <2>1 DEF Fresh, InTurn, Counted
  <2> QED
    BY <2>2, <2>3, <2>4 DEF CommandInv
<1> QED
  BY <1>4, <1>5, <1>6 DEF ArgTimeout

(* While a word of the peers is served, no client is in step. *)
LEMMA PeerReceiveKeeps ==
  ASSUME CommandInv, PeerReceive
  PROVE  CommandInv'
<1>1. CommandsTypeOK /\ ServerOK /\ FramesOK /\ server.late \in BOOLEAN
  BY DEF CommandInv, CommandsTypeOK, ServerOK
<1>2. server.pc = "peer" /\ UNCHANGED <<host, net, client, down, few, changed>>
  BY DEF PeerReceive
<1>3. client.pc # "idle" /\ ~Counted
  BY <1>2 DEF CommandInv, Fresh, InTurn, InStep, Unread, Read, Served
<1>4. CASE up # <<>> /\ up' = Tail(up) /\ Add(Head(up), server.late)
  <2>1. Head(up) \in Word /\ up' \in Seq(Word)
    BY <1>1, <1>4 DEF FramesOK
  <2>2. ServerOK' /\ server'.pc = "peer" /\ server'.late = server.late
    BY <1>1, <1>2, <1>4, <2>1, Collects
  <2>3. ~Counted'
    BY <1>2, <1>3, <2>2, SameCounted
  <2>4. FramesOK' /\ changed' \subseteq Parts
    BY <1>1, <1>2, <2>1 DEF FramesOK, CommandsTypeOK
  <2> QED
    BY <1>2, <1>3, <2>2, <2>3, <2>4, OutOfStepKeeps
<1>5. CASE UNCHANGED up /\ Add(Silence, TRUE)
  <2>1. Silence \in Word
    BY DEF Word
  <2>2. ServerOK' /\ server'.pc = "peer" /\ server'.late
    BY <1>1, <1>2, <1>5, <2>1, Collects
  <2>3. ~Counted'
    BY <2>2 DEF Counted
  <2>4. FramesOK' /\ changed' \subseteq Parts
    BY <1>1, <1>2, <1>5 DEF FramesOK, CommandsTypeOK
  <2> QED
    BY <1>2, <1>3, <2>2, <2>3, <2>4, OutOfStepKeeps
<1>6. CASE UNCHANGED up /\ Close
  BY <1>2, <1>3, <1>6, EndsKeeps
<1> QED
  BY <1>4, <1>5, <1>6 DEF PeerReceive

LEMMA PeerServeKeeps ==
  ASSUME CommandInv, PeerServe
  PROVE  CommandInv'
<1>1. CommandsTypeOK /\ ServerOK /\ FramesOK
  BY DEF CommandInv, CommandsTypeOK
<1>2. server.pc = "peer" /\ UNCHANGED <<host, net, client, up, few>>
  BY DEF PeerServe
<1>3. client.pc # "idle" /\ ~Counted
  BY <1>2 DEF CommandInv, Fresh, InTurn, InStep, Unread, Read, Served
<1>4. ServerOK' /\ server'.pc # "args" /\ server'.late = server.late
  BY <1>1, Loops, Closes DEF PeerServe
<1>5. changed' \subseteq Parts
  <2>1. Brings(server.cmd) \subseteq Parts
    BY DEF Brings, Parts
  <2> QED
    BY <1>1, <2>1 DEF PeerServe, CommandsTypeOK
<1>6. FramesOK'
  <2>1. server.cmd \in Word /\ server.got \in Seq(Word)
    BY <1>1 DEF ServerOK
  <2>2. down' \in Seq(Answers)
    <3>1. CASE UNCHANGED down
      BY <1>1, <3>1 DEF FramesOK
    <3>2. CASE Reply(Answer(server.cmd, server.got))
      BY <1>1, <2>1, <3>2, Answered
    <3> QED
      BY <3>1, <3>2 DEF PeerServe
  <2> QED
    BY <1>1, <1>2, <2>2 DEF FramesOK
<1>7. ~Counted'
  BY <1>2, <1>3, <1>4, SameCounted
<1> QED
  BY <1>2, <1>3, <1>4, <1>5, <1>6, <1>7, OutOfStepKeeps

LEMMA ChangesKinds ==
  ASSUME NEW c
  PROVE  Changes(c) \subseteq Parts
  BY DEF Changes, Parts

LEMMA ServeKeeps ==
  ASSUME CommandInv, Serve
  PROVE  CommandInv'
<1>1. /\ Ready /\ Loop /\ UNCHANGED <<host, net, client, up, few>>
      /\ changed' = changed \cup Changes(server.cmd)
  BY DEF Serve
<1>2. changed' \subseteq Parts
  BY <1>1, ChangesKinds DEF CommandInv, CommandsTypeOK
<1>3. down' \in Seq(Answers) /\ (Counted => AllRight')
  <2>1. CASE server.cmd \in NoReply
    <3>1. UNCHANGED down
      BY <2>1 DEF Serve
    <3> QED
      BY <1>1, <3>1, StillRight DEF CommandInv, CommandsTypeOK, FramesOK
  <2>2. CASE server.cmd \notin NoReply
    <3>1. Reply(Answer(server.cmd, server.got))
      BY <2>2 DEF Serve
    <3>2. server.cmd \in Word /\ server.got \in Seq(Word) /\ FramesOK
      BY DEF CommandInv, CommandsTypeOK, ServerOK
    <3>3. down' \in Seq(Answers)
      BY <3>1, <3>2, Answered
    <3>4. ASSUME Counted PROVE AllRight'
      <4>1. server.cmd = client.cmd /\ server.got = client.args
        BY <1>1, <3>4, EndOfCommand
      <4>2. Right(Answer(server.cmd, server.got))
        BY <4>1 DEF Right
      <4> QED
        BY <1>1, <3>1, <3>4, <4>2, OneMoreRight
    <3> QED
      BY <3>3, <3>4
  <2> QED
    BY <2>1, <2>2
<1> QED
  BY <1>1, <1>2, <1>3, LoopingKeeps

(* A command that ends without an answer. *)
LEMMA SilentKeeps ==
  ASSUME CommandInv, Ready, Loop, UNCHANGED <<host, net, client, up, down, few>>,
         changed' \subseteq changed \cup {"chain"}
  PROVE  CommandInv'
<1>1. changed' \subseteq Parts
  BY DEF CommandInv, CommandsTypeOK, Parts
<1>2. down' \in Seq(Answers) /\ (Counted => AllRight')
  BY StillRight DEF CommandInv, CommandsTypeOK, FramesOK
<1> QED
  BY <1>1, <1>2, LoopingKeeps

LEMMA SwallowKeeps ==
  ASSUME CommandInv, Swallow
  PROVE  CommandInv'
  BY SilentKeeps DEF Swallow

LEMMA MinedBlockKeeps ==
  ASSUME CommandInv, MinedBlock
  PROVE  CommandInv'
<1>1. Ready /\ UNCHANGED <<host, net, client, up, down, few>>
  BY DEF MinedBlock
<1>2. \/ Loop /\ changed' = changed
      \/ Loop /\ changed' = changed \cup Changes("block")
      \/ Close /\ changed' = changed
  BY DEF MinedBlock
<1>3. Changes("block") = {"chain"}
  BY DEF Changes
<1>4. CASE Loop
  BY <1>1, <1>2, <1>3, <1>4, SilentKeeps
<1>5. CASE Close /\ changed' = changed
  BY <1>1, <1>5, EndsKeeps DEF Ready, CommandInv, Fresh
<1> QED
  BY <1>2, <1>4, <1>5

(* The invariant holds in every reachable state: CommandsTypeOK and that   *)
(* both ends agree on the next frame, for any addresses, permissions and   *)
(* arguments.                                                              *)
THEOREM CommandsInvariant == Spec => []CommandInv
<1>1. Init => CommandInv
  <2> SUFFICES ASSUME Init PROVE CommandInv
    OBVIOUS
  <2>1. None \in Word /\ <<>> \in Seq(Word)
    BY DEF Word
  <2>2. NoAnswer \in Answers
    BY <2>1 DEF NoAnswer, Answer, Answers
  <2>3. ClientOK /\ client.pc = "idle" /\ client.reply = NoAnswer
    BY <2>1, <2>2 DEF Init, ClientOK
  <2>4. ServerOK /\ server.pc = "loop"
    BY <2>1 DEF Init, ServerOK
  <2>5. FramesOK
    BY DEF Init, FramesOK
  <2>6. CommandsTypeOK
    BY <2>3, <2>4, <2>5 DEF Init, CommandsTypeOK
  <2>7. Granted /\ Fresh /\ InTurn
    BY <2>3, <2>4 DEF Init, Granted, Fresh, InTurn, Counted
  <2> QED
    BY <2>6, <2>7 DEF CommandInv
<1>2. CommandInv /\ [Next]_vars => CommandInv'
  <2> SUFFICES ASSUME CommandInv, [Next]_vars PROVE CommandInv'
    OBVIOUS
  <2>1. CASE UNCHANGED vars
    <3>1. UNCHANGED <<host, net, client, up, down, server, few, changed>>
      BY <2>1 DEF vars
    <3>2. CommandsTypeOK'
      BY <3>1 DEF CommandInv, CommandsTypeOK, ClientOK, ServerOK, FramesOK
    <3>3. Granted'
      BY <3>1, KeepsGranted DEF CommandInv, Granted
    <3>4. Fresh'
      BY <3>1 DEF CommandInv, Fresh
    <3>5. InTurn'
      <4> SUFFICES ASSUME Counted' PROVE Fits' /\ AllRight' /\ InStep'
        BY DEF InTurn
      <4>1. Counted
        BY <3>1 DEF Counted, Permitted, is_allowed, is_whitelisted, Mistyped, Unusable
      <4>2. Fits /\ InStep
        BY <4>1 DEF CommandInv, InTurn
      <4>3. Fits' /\ InStep'
        BY <3>1, <4>2 DEF Fits, InStep, Unread, Read, Served
      <4> QED
        BY <3>1, <4>1, <4>3, StillRight
    <3> QED
      BY <3>2, <3>3, <3>4, <3>5 DEF CommandInv
  <2> QED
    BY <2>1, AsksKeeps, SendArgKeeps, WaitKeeps, TakeReplyKeeps, ReceiveCommandKeeps,
       IdleTimeoutKeeps, ReceiveArgKeeps, ArgTimeoutKeeps, ServeKeeps, RaiseKeeps,
       SwallowKeeps, MinedBlockKeeps, PeerReceiveKeeps, PeerServeKeeps DEF Next
<1> QED
  BY <1>1, <1>2, PTL DEF Spec

(* A client that may run its command and whose frames come in time takes   *)
(* the answer of that command to those arguments (commands.py against the  *)
(* handler of node.py), whatever the arguments read like.                  *)
THEOREM AlwaysReplyMatches == Spec => []ReplyMatches
<1>1. CommandInv => ReplyMatches
  <2> SUFFICES ASSUME CommandInv PROVE ReplyMatches
    OBVIOUS
  <2>1. CASE client.pc = "idle"
    BY <2>1 DEF CommandInv, Fresh, ReplyMatches
  <2>2. CASE client.pc # "idle" /\ ~Counted
    BY <2>2 DEF Counted, ReplyMatches
  <2>3. CASE Counted
    BY <2>3 DEF CommandInv, InTurn, AllRight, Right, ReplyMatches
  <2> QED
    BY <2>1, <2>2, <2>3
<1> QED
  BY <1>1, CommandsInvariant, PTL

-----------------------------------------------------------------------------
(* Where the commands that change something stand in the tables. *)
LEMMA Guarded ==
  /\ \A c \in {"stop", "addpeers", "mpinsert", "txsend", "api_clearmempool"} :
       c \in (DOMAIN Core \cup DOMAIN Api) \ (DOMAIN Unguarded \cup DOMAIN Clear)
  /\ "block" \notin Queried
  /\ \A c \in {"stop", "addpeers", "mpinsert", "txsend", "api_clearmempool", "mpclear"} :
       ~IsRegtest(c)
<1>1. /\ {"stop", "addpeers"} \subseteq DOMAIN Control
      /\ "mpinsert" \in DOMAIN Insert /\ "txsend" \in DOMAIN RemoteSign
      /\ "api_clearmempool" \in DOMAIN ApiControl
  BY DEF Control, Insert, RemoteSign, ApiControl
<1> DEFINE SC == {BlockQueries, Insert, BalanceQueries, PoolQueries, Clear, KeyQueries,
                  ListQueries, LimitQueries, AliasQueries, RemoteSign, SmallQueries,
                  StatusQueries, DiffQueries, Control, Unguarded}
           SA == {ApiControl, ApiBlock, ApiHeight, ApiSince, ApiDisabled,
                  ApiTransaction, ApiAddress, ApiBalance}
<1>2. Control \in SC /\ Insert \in SC /\ RemoteSign \in SC /\ ApiControl \in SA
  OBVIOUS
<1>3. \A t \in SC : "block" \notin DOMAIN t
  BY DEF BlockQueries, Insert, BalanceQueries, PoolQueries, Clear, KeyQueries,
         ListQueries, LimitQueries, AliasQueries, RemoteSign, SmallQueries,
         StatusQueries, DiffQueries, Control, Unguarded
<1>4. \A t \in SA : "block" \notin DOMAIN t
  BY DEF ApiControl, ApiBlock, ApiHeight, ApiSince, ApiDisabled,
         ApiTransaction, ApiAddress, ApiBalance
<1>5. DOMAIN Core = UNION {DOMAIN t : t \in SC} /\ DOMAIN Api = UNION {DOMAIN t : t \in SA}
  BY Merged, Zenon DEF Core, Api
<1> HIDE DEF SC, SA
<1>6. /\ {"stop", "addpeers", "mpinsert", "txsend"} \subseteq DOMAIN Core
      /\ "api_clearmempool" \in DOMAIN Api
  BY <1>1, <1>2, <1>5
<1>7. "block" \notin DOMAIN Core /\ "block" \notin DOMAIN Api
  BY <1>3, <1>4, <1>5
<1>8. DOMAIN Unguarded = {"getversion"} /\ DOMAIN Clear = {"mpclear"}
  BY DEF Unguarded, Clear
<1>9. DOMAIN Regtest = {"regtest_generate", "regtest_mine", "regtest_powcheck",
                        "regtest_rollback"}
  BY DEF Regtest
<1>10. "block" \notin Queried
  BY <1>7, <1>9 DEF Queried
<1>11. \A c \in {"stop", "addpeers", "mpinsert", "txsend", "api_clearmempool", "mpclear"} :
         ~IsRegtest(c)
  BY <1>9 DEF IsRegtest
<1>12. \A c \in {"stop", "addpeers", "mpinsert", "txsend", "api_clearmempool"} :
         c \in (DOMAIN Core \cup DOMAIN Api) \ (DOMAIN Unguarded \cup DOMAIN Clear)
  BY <1>6, <1>8
<1> QED
  BY <1>10, <1>11, <1>12

(* A guarded command that runs is permitted. *)
LEMMA RunsPermitted ==
  ASSUME Granted, server.pc = "args",
         server.cmd \in {"stop", "addpeers", "mpinsert", "txsend", "api_clearmempool"}
  PROVE  is_allowed(host, server.cmd)
<1>1. Runs(server.cmd)
  BY Guarded DEF Granted
<1>2. Permitted(server.cmd)
  BY <1>1, Guarded DEF Runs, Refused
<1> QED
  BY <1>2 DEF Permitted

LEMMA ServePermitted ==
  ASSUME CommandInv, OnlyPermittedChange, Serve
  PROVE  OnlyPermittedChange'
<1>1. /\ server.pc = "args" /\ server.cmd \in Queried /\ Granted
      /\ changed' = changed \cup Changes(server.cmd) /\ UNCHANGED <<host, net, few>>
  BY DEF Serve, Ready, CommandInv
<1>2. ASSUME Changes(server.cmd) \cap {"stopping", "peers"} # {} PROVE host = Local
  <2>1. server.cmd \in {"stop", "addpeers"}
    BY <1>2 DEF Changes
  <2> QED
    BY <1>1, <2>1, RunsPermitted DEF is_allowed
<1>3. ASSUME "mempool" \in Changes(server.cmd) PROVE host \in Allowed
  <2>1. server.cmd \in {"mpinsert", "txsend"}
    BY <1>3 DEF Changes
  <2> QED
    BY <1>1, <2>1, RunsPermitted DEF is_allowed
<1>4. ASSUME "cleared" \in Changes(server.cmd) PROVE host \in Allowed \cup {Local}
  <2>1. server.cmd \in {"mpclear", "api_clearmempool"}
    BY <1>4 DEF Changes
  <2>2. CASE server.cmd = "api_clearmempool"
    BY <1>1, <2>2, RunsPermitted DEF is_allowed
  <2>3. CASE server.cmd = "mpclear"
    BY <1>1, <2>3, Guarded DEF Granted, Runs, Falls
  <2> QED
    BY <2>1, <2>2, <2>3
<1>5. ASSUME "chain" \in Changes(server.cmd) PROVE regnet
  <2>1. server.cmd \in {"block", "regtest_generate", "regtest_mine", "regtest_rollback"}
    BY <1>5 DEF Changes
  <2>2. server.cmd \in DOMAIN Regtest
    BY <1>1, <2>1, Guarded DEF Regtest
  <2> QED
    BY <1>1, <2>2 DEF Granted, Runs, IsRegtest
<1> QED
  BY <1>1, <1>2, <1>3, <1>4, <1>5
     DEF OnlyPermittedChange, is_whitelisted, is_allowed, regnet

LEMMA MinedPermitted ==
  ASSUME OnlyPermittedChange, MinedBlock
  PROVE  OnlyPermittedChange'
<1>1. UNCHANGED <<host, net, few>>
  BY DEF MinedBlock
<1>2. CASE changed' = changed
  BY <1>1, <1>2 DEF OnlyPermittedChange, is_whitelisted, is_allowed, regnet
<1>3. CASE /\ changed' = changed \cup Changes("block")
           /\ Permitted("block") /\ (net # "mainnet" \/ ~Isolated)
  <2>1. Changes("block") = {"chain"}
    BY DEF Changes
  <2>2. is_allowed(host, "block") /\ (net # "mainnet" \/ is_whitelisted(host) \/ ~few)
    BY <1>3 DEF Permitted, Isolated
  <2> QED
    BY <1>1, <1>3, <2>1, <2>2 DEF OnlyPermittedChange, is_whitelisted, is_allowed, regnet
<1> QED
  BY <1>2, <1>3 DEF MinedBlock

(* What peers bring is none of the parts that only a command changes. *)
LEMMA PeerServePermitted ==
  ASSUME OnlyPermittedChange, PeerServe
  PROVE  OnlyPermittedChange'
<1>1. UNCHANGED <<host, net, few>>
  BY DEF PeerServe
<1>2. Brings(server.cmd) \cap {"stopping", "peers", "mempool", "cleared", "chain"} = {}
  BY DEF Brings
<1>3. changed' \subseteq changed \cup Brings(server.cmd)
  BY DEF PeerServe
<1> QED
  BY <1>1, <1>2, <1>3 DEF OnlyPermittedChange, is_whitelisted, is_allowed, regnet

(* However the arguments of a command that is refused or raises are read:  *)
(* only localhost stops the node or feeds it peers, only a permitted       *)
(* address inserts into the mempool or clears it by command, or hands in a *)
(* mined block (peershandler.is_allowed and the tests of node.py), though  *)
(* the words of the peers are served to anyone by the same loop.           *)
THEOREM AlwaysOnlyPermittedChange == Spec => []OnlyPermittedChange
<1>1. Init => OnlyPermittedChange
  BY DEF Init, OnlyPermittedChange
<1>2. CommandInv /\ OnlyPermittedChange /\ [Next]_vars => OnlyPermittedChange'
  <2> SUFFICES ASSUME CommandInv, OnlyPermittedChange, [Next]_vars
               PROVE  OnlyPermittedChange'
    OBVIOUS
  <2>1. ASSUME UNCHANGED <<host, net, few, changed>> PROVE OnlyPermittedChange'
    BY <2>1 DEF OnlyPermittedChange, is_whitelisted, is_allowed, regnet
  <2>2. CASE Asks
    BY <2>1, <2>2 DEF Asks, Ask
  <2>3. CASE SendArg \/ Wait \/ TakeReply \/ ClientGivesUp
    BY <2>1, <2>3 DEF SendArg, Wait, TakeReply, ClientGivesUp
  <2>4. CASE ReceiveCommand \/ IdleTimeout \/ ReceiveArg \/ ArgTimeout \/ PeerReceive
    BY <2>1, <2>4 DEF ReceiveCommand, IdleTimeout, ReceiveArg, ArgTimeout, PeerReceive
  <2>5. CASE Raise \/ Swallow
    BY <2>1, <2>5 DEF Raise, Swallow
  <2>6. CASE UNCHANGED vars
    BY <2>1, <2>6 DEF vars
  <2> QED
    BY <2>2, <2>3, <2>4, <2>5, <2>6, ServePermitted, MinedPermitted,
       PeerServePermitted DEF Next
<1> QED
  BY <1>1, <1>2, CommandsInvariant, PTL DEF Spec

=============================================================================
