------------------------------- MODULE DiffHeal -------------------------------
(***************************************************************************)
(* The difficulty divergence detector and its guarded self-heal: a thread  *)
(* compares the node's difficulty with its peers' (chain_ops.py), and on a *)
(* confirmed divergence writes a rollback_to file, counts the heal in a    *)
(* sidecar and stops the process; the next start removes the file and      *)
(* rolls the ledger back (node.py).  The process may die between any two   *)
(* of these steps.                                                         *)
(***************************************************************************)
EXTENDS Integers, Sequences, FiniteSets

CONSTANTS
    Diff,          \* difficulties a peer may report
    Right, Wrong,  \* the network's, and the one a corrupt row leads to
    Threshold,     \* _diff_effective_threshold
    MinPeers, MaxPeers,
    NConfirm,      \* cycles in a row that confirm a divergence
    LifetimeMax,   \* DIFF_HEAL_LIFETIME_MAX
    Depth,         \* rollback_depth
    CapMult,       \* DIFF_HEAL_DEPTH_CAP_MULT
    Checkpoint,
    MaxTip,
    MaxArms,       \* heals considered
    MaxSplits,     \* budgets given back by peers that do not agree
    MaxCrashes     \* deaths of the process and failed writes considered

ASSUME DiffHealAssumption ==
    /\ Diff \subseteq Nat /\ {Right, Wrong} \subseteq Diff
    /\ {Threshold, MinPeers, MaxPeers, NConfirm, LifetimeMax, Depth, CapMult,
        Checkpoint, MaxTip, MaxArms, MaxSplits, MaxCrashes} \subseteq Nat
    /\ MinPeers >= 1 /\ NConfirm > 1
    /\ Checkpoint < MaxTip

VARIABLES
    tip,       \* node.last_block
    bad,       \* the lowest height with a corrupt difficulty, 0 for none
    confirm,   \* debounce counter of the loop
    paused,    \* node.mining_paused
    trigger,   \* the rollback_to file
    count,     \* sidecar: heal_count
    recent,    \* sidecar: a heal within the cooldown
    proc,      \* the process: run, arm, stop, off (clean exit), down (died), boot, roll
    target,    \* what diffheal_arm or the startup holds
    last,      \* history: the last reading [n, near, diverged]
    heals,     \* history: heals since the last confirmed-clean reading
    splits,    \* history: since then, budgets given back by another reading
    arms,      \* history: triggers written
    cuts,      \* history: rollbacks done at startup
    crashes    \* history: deaths of the process and failed writes

files == <<trigger, count, recent>>
hist == <<heals, splits, arms, cuts>>
vars == <<tip, bad, confirm, paused, files, proc, target, last, hist, crashes>>

NoFile == -2   \* a target may be 0: no height stands for "no file"
Torn == -1     \* written but empty
Local == IF bad # 0 THEN Wrong ELSE Right
Abs(x) == IF x < 0 THEN -x ELSE x

-----------------------------------------------------------------------------
(* detect_difficulty_divergence, from the samples it has matched by height *)
(* and sorted: median and counts are the same for every order of the       *)
(* peers.  Twice the median, so that the mean of two stays an integer.     *)
Samples ==
    {s \in UNION {[1..n -> Diff] : n \in 0..MaxPeers} : \A i, j \in DOMAIN s : i < j => s[i] <= s[j]}

Median2(samples) ==
    LET n == Len(samples)
        mid == n \div 2 + 1
    IN  IF n % 2 = 1 THEN 2 * samples[mid] ELSE samples[mid - 1] + samples[mid]

Agreeing(samples, m2) == {i \in DOMAIN samples : Abs(2 * samples[i] - m2) <= Threshold}
AnyMedian(samples, local) ==   \* with the slip: peers need not agree among themselves
    /\ Len(samples) >= MinPeers
    /\ Abs(2 * local - Median2(samples)) > 2 * Threshold
Diverged(samples, local) ==
    /\ Len(samples) >= MinPeers
    /\ LET m2 == Median2(samples)
       IN  /\ Abs(2 * local - m2) > 2 * Threshold
           /\ 4 * Cardinality(Agreeing(samples, m2)) >= 3 * Len(samples)

(* "Confirmed clean: peers agree and we match them." *)
ConfirmedClean(samples, local) ==
    /\ Len(samples) >= MinPeers
    /\ LET m2 == Median2(samples)
       IN  /\ Abs(2 * local - m2) <= 2 * Threshold
           /\ 4 * Cardinality(Agreeing(samples, m2)) >= 3 * Len(samples)

Reading(samples) ==
    [n |-> Len(samples),
     near |-> Cardinality({i \in DOMAIN samples : Abs(2 * (samples[i] - Local)) <= Threshold}),
     diverged |-> Diverged(samples, Local)]

-----------------------------------------------------------------------------
(* One cycle of the loop. *)
Cycling == proc = "run"

(* Behind the network, or near the fork: no reading. *)
SkipCycle ==
    /\ Cycling /\ confirm' = 0
    /\ UNCHANGED <<tip, bad, paused, files, proc, target, last, hist, crashes>>

diffheal_note_clean == count' = 0

(* The history tells a reading that confirms the difficulty from one of    *)
(* peers that do not agree among themselves: the code does not.            *)
Refilled(samples) ==
    IF ConfirmedClean(samples, Local) THEN heals' = 0 /\ splits' = 0
    ELSE IF count = 0 THEN UNCHANGED <<heals, splits>>
    ELSE splits < MaxSplits /\ splits' = splits + 1 /\ UNCHANGED heals

(* Not diverged: the debounce restarts, and with enough samples the budget *)
(* comes back (diffheal_note_clean) and mining resumes.                    *)
Calm(samples) ==
    /\ Cycling /\ ~Diverged(samples, Local)
    /\ last' = Reading(samples)
    /\ confirm' = 0
    /\ IF Len(samples) >= MinPeers
         THEN paused' = FALSE /\ diffheal_note_clean /\ Refilled(samples)
         ELSE UNCHANGED <<paused, count, heals, splits>>
    /\ UNCHANGED <<tip, bad, trigger, recent, proc, target, arms, cuts, crashes>>

(* The median moved or the tip went down: counted from one again. *)
Counted(steady) == IF steady THEN confirm + 1 ELSE 1

Suspect(samples, steady) ==
    /\ Cycling /\ Diverged(samples, Local) /\ Counted(steady) < NConfirm
    /\ last' = Reading(samples)
    /\ confirm' = Counted(steady)
    /\ UNCHANGED <<tip, bad, paused, files, proc, target, hist, crashes>>

(* diffheal_guards_ok: the rolling day is longer than the cooldown and the *)
(* lifetime cap is not above its limit, so these two decide.               *)
GuardsCooldownOnly == ~recent   \* with the slip: no cap on the count
diffheal_guards_ok == ~recent /\ count < LifetimeMax

HealDepth ==
    IF count + 1 < CapMult THEN Depth * (count + 1) ELSE Depth * CapMult
diffheal_target == IF tip - HealDepth > Checkpoint THEN tip - HealDepth ELSE Checkpoint

Confirmed(samples) ==
    /\ Cycling /\ Diverged(samples, Local)
    /\ last' = Reading(samples)
    /\ confirm' = IF confirm < NConfirm THEN confirm + 1 ELSE confirm
    /\ confirm' = NConfirm

(* Advisory: not opted in, suppressed by the guards, refused by            *)
(* rollback_allowed, or the database lock is not to be had.                *)
Advise(samples) ==
    /\ Confirmed(samples)
    /\ paused' \in {paused, TRUE}
    /\ UNCHANGED <<tip, bad, files, proc, target, hist, crashes>>

(* diffheal_arm: the trigger first, then the sidecar. *)
Arm(samples) ==
    /\ Confirmed(samples)
    /\ diffheal_guards_ok /\ diffheal_target < tip /\ arms < MaxArms
    /\ target' = diffheal_target /\ trigger' = diffheal_target
    /\ paused' \in {paused, TRUE}
    /\ arms' = arms + 1 /\ heals' = heals + 1
    /\ proc' = "arm"
    /\ UNCHANGED <<tip, bad, count, recent, splits, cuts, crashes>>

(* The trigger cannot be written: the loop logs it, the node runs on, and  *)
(* an empty file may stay.                                                 *)
ArmFails(samples) ==
    /\ Confirmed(samples)
    /\ diffheal_guards_ok /\ diffheal_target < tip /\ crashes < MaxCrashes
    /\ trigger' \in {trigger, Torn}
    /\ paused' \in {paused, TRUE}
    /\ crashes' = crashes + 1
    /\ UNCHANGED <<tip, bad, count, recent, proc, target, hist>>

(* diffheal_state_write; the caller then asks for a clean stop. *)
Count ==
    /\ proc = "arm"
    /\ count' = count + 1 /\ recent' = TRUE
    /\ proc' = "stop"
    /\ UNCHANGED <<tip, bad, confirm, paused, trigger, target, last, hist, crashes>>

(* Best effort: a sidecar that cannot be written is logged. *)
CountLost ==
    /\ proc = "arm" /\ crashes < MaxCrashes
    /\ proc' = "stop" /\ crashes' = crashes + 1
    /\ UNCHANGED <<tip, bad, confirm, paused, files, target, last, hist>>

-----------------------------------------------------------------------------
(* The process. *)
Stop ==
    /\ proc = "stop" /\ proc' = "off"
    /\ UNCHANGED <<tip, bad, confirm, paused, files, target, last, hist, crashes>>

Crash ==
    /\ proc \in {"run", "arm", "stop", "boot", "roll"} /\ crashes < MaxCrashes
    /\ proc' = "down" /\ crashes' = crashes + 1
    /\ IF proc = "arm" /\ trigger # NoFile
         THEN trigger' \in {trigger, Torn} /\ UNCHANGED <<count, recent>>
         ELSE UNCHANGED files
    /\ UNCHANGED <<tip, bad, confirm, paused, target, last, hist>>

(* The node starts again, with nothing in memory: after a death by systemd *)
(* (Restart=on-failure), after a clean exit by hand.                       *)
FromScratch ==
    /\ proc' = "boot" /\ confirm' = 0 /\ paused' = FALSE /\ target' = 0
    /\ UNCHANGED <<tip, bad, files, last, hist, crashes>>
RestartOnFailure == proc = "down" /\ FromScratch
Start == proc = "off" /\ FromScratch

(* The file is read and removed before the rollback it asks for; one that  *)
(* cannot be read ends the start.                                          *)
KeepTrigger ==   \* with the slip: the file is removed once the rollback is done
    /\ proc = "boot" /\ trigger >= 0
    /\ target' = trigger /\ proc' = "roll"
    /\ UNCHANGED <<tip, bad, confirm, paused, files, last, hist, crashes>>
KeepTorn ==   \* with the slip: only a file that could be read is removed
    /\ proc = "boot" /\ trigger # NoFile
    /\ IF trigger = Torn THEN proc' = "down" /\ UNCHANGED <<target, trigger>>
                         ELSE proc' = "roll" /\ target' = trigger /\ trigger' = NoFile
    /\ UNCHANGED <<tip, bad, confirm, paused, count, recent, last, hist, crashes>>
TakeTrigger ==
    /\ proc = "boot" /\ trigger # NoFile
    /\ trigger' = NoFile
    /\ IF trigger = Torn THEN proc' = "down" /\ UNCHANGED target
                         ELSE proc' = "roll" /\ target' = trigger
    /\ UNCHANGED <<tip, bad, confirm, paused, count, recent, last, hist, crashes>>

rollback ==
    /\ proc = "roll"
    /\ tip' = IF target < tip THEN target ELSE tip
    /\ bad' = IF target < bad THEN 0 ELSE bad
    /\ cuts' = cuts + 1
    /\ proc' = "run"
    /\ UNCHANGED <<confirm, paused, files, target, last, heals, splits, arms, crashes>>

Booted ==
    /\ proc = "boot" /\ trigger = NoFile
    /\ proc' = "run"
    /\ UNCHANGED <<tip, bad, confirm, paused, files, target, last, hist, crashes>>

-----------------------------------------------------------------------------
(* The surroundings: blocks arrive, a row is corrupted once, time passes.  *)
Digest ==
    /\ proc \in {"run", "stop"} /\ tip < MaxTip   \* the stop waits for the lock
    /\ tip' = tip + 1
    /\ UNCHANGED <<bad, confirm, paused, files, proc, target, last, hist, crashes>>

Corrupt ==
    /\ proc = "run" /\ bad = 0 /\ arms = 0
    /\ bad' \in 1..tip
    /\ UNCHANGED <<tip, confirm, paused, files, proc, target, last, hist, crashes>>

Cool ==
    /\ recent /\ recent' = FALSE
    /\ UNCHANGED <<tip, bad, confirm, paused, trigger, count, proc, target, last, hist, crashes>>

Init ==
    /\ tip = MaxTip - 1 /\ bad = 0 /\ confirm = 0 /\ paused = FALSE
    /\ trigger = NoFile /\ count = 0 /\ recent = FALSE
    /\ proc = "run" /\ target = 0
    /\ last = [n |-> 0, near |-> 0, diverged |-> FALSE]
    /\ heals = 0 /\ splits = 0 /\ arms = 0 /\ cuts = 0 /\ crashes = 0

Cycle ==
    \E samples \in Samples :
      \/ Calm(samples) \/ Advise(samples) \/ Arm(samples) \/ ArmFails(samples)
      \/ \E steady \in BOOLEAN : Suspect(samples, steady)

Process == Count \/ Stop \/ RestartOnFailure \/ TakeTrigger \/ rollback \/ Booted

Next ==
    \/ SkipCycle \/ Cycle \/ CountLost \/ Process \/ Start \/ Crash
    \/ Digest \/ Corrupt \/ Cool

Spec == Init /\ [][Next]_vars
(* The loop breaks, and systemd restarts a node that failed: the shipped    *)
(* units do not restart one that exited cleanly.                           *)
FairSpec == Spec /\ WF_vars(Process)

-----------------------------------------------------------------------------
(* Whatever the peers report, a reading is called diverged only when at    *)
(* most a quarter of the samples are near the node's own difficulty        *)
(* (detect_difficulty_divergence): a minority never makes the node act.    *)
MajorityAgainst ==
    last.diverged => last.n >= MinPeers /\ 4 * last.near <= last.n

(* No restart loop: without a confirmed-clean reading in between, the node *)
(* heals no more often than the lifetime cap allows for each budget it was *)
(* given back by a reading of peers that disagree, a crash between the     *)
(* trigger and the sidecar, or a lost sidecar, costing one more each       *)
(* (diffheal_guards_ok, diffheal_arm, diffheal_note_clean).                *)
HealsBounded == heals <= LifetimeMax * (splits + 1) + crashes

(* doc/35 line 62: the "budget resets to 0 only on a confirmed-CLEAN       *)
(* post-heal reading", and node.py line 1578 calls the reading "genuinely  *)
(* CLEAN (peers agree AND we match)".  Then the cap holds for as long as   *)
(* no reading was that, but for crashes.                                   *)
LifetimeBudget == heals <= LifetimeMax + crashes

(* A heal is applied exactly once: no trigger is used twice, and a node    *)
(* that runs again has cut the ledger for every heal it armed, but for one *)
(* lost per crash (the trigger is removed before the rollback).  No cut    *)
(* goes below the checkpoint.                                              *)
AppliedOnce ==
    /\ cuts <= arms
    /\ proc = "run" => arms <= cuts + crashes
    /\ tip >= Checkpoint

(* A node that died, while it healed or at any other moment, runs again,   *)
(* even when the trigger was torn by the crash or never written whole      *)
(* (node.py 1406-1425: the file is removed before it is judged).  A heal   *)
(* that ends with a clean exit is not promised that: Restart=on-failure    *)
(* leaves the node off until somebody starts it.                           *)
ComesBack == (proc \in {"down", "boot", "roll"}) ~> (proc = "run")

=============================================================================
