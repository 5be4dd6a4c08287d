----------------------------- MODULE Reputation -----------------------------
(***************************************************************************)
(* What the node remembers of its peers' behaviour (peers_reputation.py,   *)
(* peers_access.py): a clamped score and a count of warnings, either of    *)
(* which can put a peer on the ban list.                                   *)
(***************************************************************************)
EXTENDS Integers

CONSTANTS
    Peer,          \* connected peers, one handler thread each
    RepBan,        \* REP_BAN_BELOW is -RepBan
    RepLimit,      \* scores are clamped to -RepLimit..RepLimit
    WarningsToBan, \* ban_threshold
    Whitelist,     \* peers that are neither penalised, warned nor rewarded
    PenaltyInvalidBlock, RewardValidBlock

ASSUME ReputationAssumption ==
    {RepBan, RepLimit, WarningsToBan, PenaltyInvalidBlock, RewardValidBlock} \subseteq Nat

VARIABLES score, warnings, banlist

rep == <<score, warnings, banlist>>

RepInit ==
    /\ score = [p \in Peer |-> 0]
    /\ warnings = [p \in Peer |-> 0]
    /\ banlist = {}

Clamp(x) == IF x > RepLimit THEN RepLimit ELSE IF x < -RepLimit THEN -RepLimit ELSE x

(* penalize by `points`, then warn `count` times. *)
Punish(p, points, count) ==
    LET s == Clamp(score[p] - points)  w == warnings[p] + count IN
    IF p \in Whitelist THEN UNCHANGED rep
    ELSE /\ score' = [score EXCEPT ![p] = s]
         /\ warnings' = [warnings EXCEPT ![p] = w]
         /\ banlist' = IF (points > 0 /\ s <= -RepBan) \/ w >= WarningsToBan
                       THEN banlist \cup {p} ELSE banlist

(* A delivered batch that validated. *)
Reward(p) ==
    /\ score' = [score EXCEPT ![p] = IF p \in Whitelist THEN @ ELSE Clamp(@ + RewardValidBlock)]
    /\ UNCHANGED <<warnings, banlist>>

(* peers.unban, after every committed block of a peer: its warnings go. *)
Unban(p) ==
    /\ warnings' = [warnings EXCEPT ![p] = 0]
    /\ UNCHANGED <<score, banlist>>

RepType ==
    /\ score \in [Peer -> (-RepLimit)..RepLimit]
    /\ warnings \in [Peer -> Nat]
    /\ banlist \subseteq Peer
=============================================================================
