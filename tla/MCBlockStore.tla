---------------------------- MODULE MCBlockStore ----------------------------
(* A small ledger: two accounts, a fork between heights 2 and 3, blocks    *)
(* that replay a signature, malleate one (same txid), reveal a key twice   *)
(* or carry a post-fork coinbase.                                          *)
EXTENDS BlockQueries

Row(from, to, amount, fee, reward, sig, t, pub) ==
    [from |-> from, to |-> to, amount |-> amount, fee |-> fee, reward |-> reward,
     sig |-> sig, txid |-> t, pub |-> pub]

Block(hash, ts, rows) == [hash |-> hash, ts |-> ts, rows |-> rows]

MCAddress == {"a", "b"}
MCSig == {"s0", "s1", "s2", "s3", "c1", "c2", "c3", "s4", "s5"}
MCTxid == {"t0", "t1", "t2", "t4", "t5", "k1", "k2", "k3", "k4", "k6"}
MCHash == {"g", "A", "B", "C", "D", "E", "H", "I"}

MCGenesis == Block("g", 0, <<Row("b", "a", 0, 0, 9, "s0", "t0", FALSE)>>)
MCBody ==
    {Block("A", 1, <<Row("a", "b", 2, 1, 0, "s1", "t1", TRUE), Row("b", "b", 0, 0, 4, "c1", "k1", FALSE)>>),
     Block("B", 2, <<Row("a", "a", 1, 0, 0, "s2", "t2", TRUE), Row("a", "a", 0, 0, 3, "c2", "k2", TRUE)>>),
     Block("C", 2, <<Row("b", "a", 1, 1, 0, "s1", "t2", TRUE), Row("a", "a", 0, 0, 3, "c3", "k3", TRUE)>>),
     Block("D", 3, <<Row("a", "b", 2, 1, 0, "s3", "t1", TRUE), Row("b", "b", 0, 0, 4, NoSig, "k4", FALSE)>>),
     Block("E", 3, <<Row("b", "a", 1, 0, 0, "s2", "t2", TRUE), Row("b", "b", 0, 0, 4, NoSig, "k4", FALSE)>>),
     Block("H", 5, <<Row("a", "a", 1, 0, 0, "s4", "t4", TRUE), Row("b", "a", 1, 0, 0, "s1", "t2", TRUE),
                     Row("b", "b", 0, 0, 4, NoSig, "k6", FALSE)>>),
     Block("I", 5, <<Row("a", "b", 1, 1, 0, "s4", "t4", FALSE), Row("b", "b", 2, 0, 0, "s5", "t5", TRUE),
                     Row("a", "a", 0, 0, 4, "c3", "k6", TRUE)>>)}

MCAllocation == [a \in MCAddress |-> IF a = "a" THEN 5 ELSE 0]
=============================================================================
