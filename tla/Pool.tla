--------------------------------- MODULE Pool ---------------------------------
(***************************************************************************)
(* The mining pool: HTTP threads record shares, an hourly payout run pays  *)
(* the rewards the pool's blocks earned since the oldest unpaid share, and *)
(* both work on the pool's store, one transaction at a time                *)
(* (pool/optipoolware.py, pool/pool_store.py).  The node behind the REST   *)
(* calls is outside.                                                       *)
(***************************************************************************)
EXTENDS Integers, FiniteSets, SequencesExt

CONSTANTS
    Thread,       \* HTTP threads
    Nonce, Miner,
    alt_add,      \* the fee's address, which also gets shares of bad addresses
    Reward,       \* reward of one block, after the pool's fee
    MinPayout,    \* min_payout
    AltFee,       \* alt_fee is not zero
    MaxTime, MaxShares, MaxRewards, MaxCrashes, MaxFails, MaxRounds

ASSUME PoolAssumption ==
    /\ alt_add \notin Miner /\ AltFee \in BOOLEAN /\ Reward \in Nat \ {0}
    /\ {MinPayout, MaxTime, MaxShares, MaxRewards, MaxCrashes, MaxFails, MaxRounds} \subseteq Nat

VARIABLES
    shares,    \* seq -> [nonce, address, timestamp, paid, round], the current round
    archive,   \* the keys moved out of it
    nonces,    \* reuse guard of the round
    seq,       \* the record counter
    rewards,   \* the pool's coinbase rewards on the ledger: their timestamps
    time,
    http,      \* per thread: [pc, nonce, address, stamp]
    pay,       \* the payout thread: [pc, unpaid, from, total, list]
    round,     \* history: rounds closed
    paidFor,   \* history: payments sent that a share was counted in
    counted,   \* history: payout runs that distributed a reward
    touched,   \* history: time of the last round reset
    late,      \* history: shares stamped before the last reset, recorded after it
    faults     \* history: [crash, fail]

store == <<shares, archive, nonces, seq>>
hist == <<round, paidFor, counted, touched, late>>
vars == <<store, rewards, time, http, pay, hist, faults>>

NoNonce == "none"
Address == Miner \cup {alt_add}
Idle == [pc |-> "idle", nonce |-> NoNonce, address |-> alt_add, stamp |-> 0]
Asleep == [pc |-> "sleep", unpaid |-> {}, from |-> 0, total |-> 0, list |-> <<>>]

-----------------------------------------------------------------------------
(* process_share.  One below the share difficulty, or badly formed,        *)
(* changes nothing.  The block of a solution that meets the network's      *)
(* difficulty is submitted before the share is recorded, and the node, or  *)
(* the peers it is sent to instead, may take it: its time is then past.  A *)
(* malformed address is credited to alt_add.                               *)
Arrive(t, n, a) ==
    /\ http[t].pc = "idle"
    /\ http' = [http EXCEPT ![t] = [Idle EXCEPT !.pc = "check", !.nonce = n, !.address = a]]
    /\ \/ /\ Len(rewards) < MaxRewards /\ time < MaxTime
          /\ rewards' = Append(rewards, time) /\ counted' = Append(counted, 0)
          /\ time' = time + 1
       \/ UNCHANGED <<rewards, counted, time>>
    /\ UNCHANGED <<store, pay, round, paidFor, touched, late, faults>>

(* nonce_seen, and the time the record will carry. *)
nonce_seen(t) ==
    /\ http[t].pc = "check"
    /\ http' = [http EXCEPT ![t] =
         IF http[t].nonce \in nonces THEN Idle
         ELSE [@ EXCEPT !.pc = "record", !.stamp = time]]
    /\ UNCHANGED <<store, rewards, time, pay, hist, faults>>

ShareOf(t) ==
    [nonce |-> http[t].nonce, address |-> http[t].address, timestamp |-> http[t].stamp,
     paid |-> FALSE, round |-> round]

Appended(t) ==
    /\ nonces' = nonces \cup {http[t].nonce}
    /\ seq' = seq + 1
    /\ shares' = [i \in DOMAIN shares \cup {seq + 1} |->
                    IF i = seq + 1 THEN ShareOf(t) ELSE shares[i]]
    /\ paidFor' = Append(paidFor, 0)
    /\ late' = IF http[t].stamp < touched THEN late + 1 ELSE late

(* record_share: the guard again and the record, in one transaction. *)
RecordUnchecked(t) ==   \* with the slip: nonce_seen is taken to be enough
    /\ http[t].pc = "record" /\ seq < MaxShares
    /\ Appended(t)
    /\ http' = [http EXCEPT ![t] = Idle]
    /\ UNCHANGED <<archive, rewards, time, pay, round, counted, touched, faults>>
record_share(t) ==
    /\ http[t].pc = "record" /\ seq < MaxShares
    /\ IF http[t].nonce \in nonces
         THEN UNCHANGED <<nonces, seq, shares, paidFor, late>>
         ELSE Appended(t)
    /\ http' = [http EXCEPT ![t] = Idle]
    /\ UNCHANGED <<archive, rewards, time, pay, round, counted, touched, faults>>

-----------------------------------------------------------------------------
(* payout, a run of the payout thread. *)
Unpaid == {i \in DOMAIN shares : ~shares[i].paid}

(* paydb waits an hour, and longer while the node is out. *)
ReadUnpaid ==
    /\ pay.pc = "sleep" /\ round < MaxRounds
    /\ pay' = [pay EXCEPT !.pc = "rewards",
                 !.unpaid = {[seq |-> i, address |-> shares[i].address] : i \in Unpaid},
                 !.from = IF Unpaid = {} THEN time ELSE Min({shares[i].timestamp : i \in Unpaid})]
    /\ UNCHANGED <<store, rewards, time, http, hist, faults>>

SharesSum(a) == Cardinality({s \in pay.unpaid : s.address = a})

(* shares_sum > floor(payout_threshold / reward_per_share)                 *)
Eligible(total) ==
    {a \in {s.address : s \in pay.unpaid} :
       SharesSum(a) > (MinPayout * Cardinality(pay.unpaid)) \div total}

(* The rewards not older than the oldest unpaid share, and who is paid     *)
(* from them; nothing is paid when the node cannot be read.                *)
ReadRewards ==
    /\ pay.pc = "rewards"
    /\ LET new == {i \in DOMAIN rewards : rewards[i] >= pay.from}
           total == Reward * Cardinality(new)
       IN  IF total > 0 /\ pay.unpaid # {}
             THEN \E q \in SetToSeqs(Eligible(total)) :
                    LET list == IF AltFee THEN Append(q, alt_add) ELSE q
                    IN  /\ pay' = [pay EXCEPT !.pc = IF list = <<>> THEN "close" ELSE "pay",
                                              !.list = list, !.total = Len(q)]
                        /\ counted' = IF list = <<>> THEN counted
                             ELSE [i \in DOMAIN counted |->
                                     IF i \in new THEN counted[i] + 1 ELSE counted[i]]
             ELSE /\ pay' = [pay EXCEPT !.pc = "close"]
                  /\ UNCHANGED counted
    /\ UNCHANGED <<store, rewards, time, http, round, paidFor, touched, late, faults>>

RewardsUnread ==
    /\ pay.pc = "rewards" /\ faults.fail < MaxFails
    /\ faults' = [faults EXCEPT !.fail = @ + 1]
    /\ pay' = [pay EXCEPT !.pc = "close"]
    /\ UNCHANGED <<store, rewards, time, http, hist>>

(* One payment: signed and submitted.  "total" counts the payees that are  *)
(* not the fee.                                                            *)
SubmitPayment ==
    /\ pay.pc = "pay"
    /\ paidFor' = [i \in DOMAIN paidFor |->
         IF pay.total > 0 /\ [seq |-> i, address |-> Head(pay.list)] \in pay.unpaid
           THEN paidFor[i] + 1 ELSE paidFor[i]]
    /\ pay' = [pay EXCEPT !.pc = "mark"]
    /\ UNCHANGED <<store, rewards, time, http, round, counted, touched, late, faults>>

(* "REST submit failed" is logged; the shares are marked paid all the same. *)
SubmitFails ==
    /\ pay.pc = "pay" /\ faults.fail < MaxFails
    /\ faults' = [faults EXCEPT !.fail = @ + 1]
    /\ pay' = [pay EXCEPT !.pc = "mark"]
    /\ UNCHANGED <<store, rewards, time, http, hist>>

Paying(next) ==
    pay' = [pay EXCEPT !.list = Tail(@), !.total = IF @ > 0 THEN @ - 1 ELSE 0, !.pc = next]
AfterMark == IF Len(pay.list) = 1 THEN "touch" ELSE "pay"

(* Every share of the address, those recorded since the run began too.     *)
MarkFirst ==   \* with the slip: one share of the address
    /\ pay.pc = "mark"
    /\ LET mine == {i \in Unpaid : shares[i].address = Head(pay.list)}
       IN  shares' = [i \in DOMAIN shares |->
                        [shares[i] EXCEPT !.paid = @ \/ (i \in mine /\ \A j \in mine : i <= j)]]
    /\ Paying(AfterMark)
    /\ UNCHANGED <<archive, nonces, seq, rewards, time, http, hist, faults>>
mark_paid ==
    /\ pay.pc = "mark"
    /\ shares' = [i \in DOMAIN shares |->
                    [shares[i] EXCEPT !.paid = @ \/ shares[i].address = Head(pay.list)]]
    /\ Paying(AfterMark)
    /\ UNCHANGED <<archive, nonces, seq, rewards, time, http, hist, faults>>

TouchPaid ==   \* with the slip: the shares left for the next run keep their time
    /\ pay.pc = "touch"
    /\ shares' = [i \in DOMAIN shares |->
                    [shares[i] EXCEPT !.timestamp = IF shares[i].paid THEN time ELSE @]]
    /\ touched' = time
    /\ pay' = [pay EXCEPT !.pc = "close"]
    /\ UNCHANGED <<archive, nonces, seq, rewards, time, http, round, paidFor, counted, late, faults>>
touch_timestamps ==
    /\ pay.pc = "touch"
    /\ shares' = [i \in DOMAIN shares |-> [shares[i] EXCEPT !.timestamp = time]]
    /\ touched' = time
    /\ pay' = [pay EXCEPT !.pc = "close"]
    /\ UNCHANGED <<archive, nonces, seq, rewards, time, http, round, paidFor, counted, late, faults>>

(* Paid shares are archived and the guard is cleared, in one transaction,  *)
(* whether or not the run paid anything.                                   *)
close_round ==
    /\ pay.pc = "close"
    /\ archive' = archive \cup {i \in DOMAIN shares : shares[i].paid}
    /\ shares' = [i \in Unpaid |-> shares[i]]
    /\ nonces' = {}
    /\ round' = round + 1
    /\ pay' = Asleep
    /\ UNCHANGED <<seq, rewards, time, http, paidFor, counted, touched, late, faults>>

-----------------------------------------------------------------------------
Tick ==
    /\ time < MaxTime /\ time' = time + 1
    /\ UNCHANGED <<store, rewards, http, pay, hist, faults>>

(* The pool is stopped and started: only the store is left. *)
Crash ==
    /\ faults.crash < MaxCrashes
    /\ faults' = [faults EXCEPT !.crash = @ + 1]
    /\ http' = [t \in Thread |-> Idle] /\ pay' = Asleep
    /\ UNCHANGED <<store, rewards, time, hist>>

Init ==
    /\ shares = <<>> /\ archive = {} /\ nonces = {} /\ seq = 0
    /\ rewards = <<>> /\ time = 1
    /\ http = [t \in Thread |-> Idle] /\ pay = Asleep
    /\ round = 0 /\ paidFor = <<>> /\ counted = <<>> /\ touched = 0 /\ late = 0
    /\ faults = [crash |-> 0, fail |-> 0]

Next ==
    \/ \E t \in Thread :
         \/ \E n \in Nonce, a \in Address : Arrive(t, n, a)
         \/ nonce_seen(t) \/ record_share(t)
    \/ ReadUnpaid \/ ReadRewards \/ RewardsUnread \/ SubmitPayment \/ SubmitFails
    \/ mark_paid \/ touch_timestamps \/ close_round
    \/ Tick \/ Crash

Spec == Init /\ [][Next]_vars

-----------------------------------------------------------------------------
(* Two threads given the same solution record one share of it in a round   *)
(* (record_share repeats the check of nonce_seen in its transaction).      *)
CountedOnce ==
    \A i, j \in DOMAIN shares :
       shares[i].nonce = shares[j].nonce /\ shares[i].round = shares[j].round => i = j

(* A share is paid for once, however runs, shares and restarts interleave; *)
(* a crash between a payment and mark_paid costs one payment more.         *)
PaidOnce == \A i \in DOMAIN paidFor : paidFor[i] <= 1 + faults.crash

(* A reward is distributed by one payout run only, but for a crash before  *)
(* touch_timestamps and a share stamped before a run and recorded after.   *)
RewardOnce == \A i \in DOMAIN counted : counted[i] <= 1 + faults.crash + late

=============================================================================
