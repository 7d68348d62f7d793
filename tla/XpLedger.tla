------------------------------- MODULE XpLedger -------------------------------
(***************************************************************************)
(* The XP ledger and the level derived from it, as operators on an account *)
(* [paid, xpTotal, level].  paid[k] holds the subjects whose dedupe key of *)
(* kind k is in xp_events (the unique index on userId, dedupeKey); the     *)
(* achievement keys double as the user_achievements rows, which are        *)
(* claimed in the same breath.  A batch of awards of one kind is one       *)
(* Award: the code awards them one by one, each insert ON CONFLICT DO      *)
(* NOTHING, and the level it ends with is that of the final total.         *)
(***************************************************************************)
EXTENDS Integers, FiniteSets

CONSTANTS
  Achievements,   \* ids of Achievement rows
  AchMetric,      \* the metric each one tests
  AchThreshold,   \* and its threshold
  RewardOf,       \* RewardOf[S]: the xpReward of the achievements of S added up
  MaxLevel,       \* LEVEL_CURVE.MAX_LEVEL
  LevelXp         \* levelToXp: the total XP needed to reach each level

Kinds == {"episode", "season", "show", "dailyStreak", "achievement"}

ASSUME AchievementAssumption ==
  /\ IsFiniteSet(Achievements)
  /\ \A h \in Achievements : AchThreshold[h] \in Nat
  /\ RewardOf \in [SUBSET Achievements -> Nat]
  /\ RewardOf[{}] = 0
  /\ \A S, T \in SUBSET Achievements :
        S \cap T = {} => RewardOf[S \cup T] = RewardOf[S] + RewardOf[T]

ASSUME LevelAssumption ==
  /\ MaxLevel \in Nat \ {0}
  /\ LevelXp \in [1..MaxLevel -> Nat]
  /\ LevelXp[1] = 0
  /\ \A l, m \in 1..MaxLevel : l < m => LevelXp[l] < LevelXp[m]

XP_AWARDS == [episode |-> 10, season |-> 100, show |-> 500, dailyStreak |-> 20]

NewAccount ==
  [paid |-> [k \in Kinds |-> {}], xpTotal |-> 0, level |-> 1]

\* Faulty variant: the number of thresholds passed, one short of the level.
XpToLevelFromZero(xp) == Cardinality({l \in 2..MaxLevel : LevelXp[l] <= xp})

\* The highest level whose published threshold the total has reached: the
\* thresholds increase, so it is the number of thresholds reached.
XpToLevel(xp) == Cardinality({l \in 1..MaxLevel : LevelXp[l] <= xp})

Amount(kind, keys) ==
  IF kind = "achievement" THEN RewardOf[keys]
  ELSE XP_AWARDS[kind] * Cardinality(keys)

----------------------------------------------------------------------------
\* Faulty variants of Award: paying without asking the index whether the
\* insert took effect; replacing what was paid before.
AwardIgnoringConflict(a, kind, keys) ==
  LET total == a.xpTotal + Amount(kind, keys)
  IN  [paid |-> [a.paid EXCEPT ![kind] = @ \cup keys],
       xpTotal |-> total, level |-> XpToLevel(total)]

AwardReplacing(a, kind, keys) ==
  LET total == a.xpTotal + Amount(kind, keys \ a.paid[kind])
  IN  [paid |-> [a.paid EXCEPT ![kind] = keys],
       xpTotal |-> total, level |-> XpToLevel(total)]
----------------------------------------------------------------------------
Award(a, kind, keys) ==
  LET new   == keys \ a.paid[kind]
      total == a.xpTotal + Amount(kind, new)
  IN  [paid |-> [a.paid EXCEPT ![kind] = @ \cup keys],
       xpTotal |-> total,
       level |-> IF new = {} THEN a.level ELSE XpToLevel(total)]

\* awardMany, as the tracking flow calls it.
AwardMany(a, episodes, seasons, shows) ==
  Award(Award(Award(a, "episode", episodes), "season", seasons), "show", shows)

\* What the ledger adds up to: xpTotal is a cache of SUM(xp_events.amount).
LedgerSum(paid) ==
  Amount("episode", paid["episode"]) + Amount("season", paid["season"])
    + Amount("show", paid["show"]) + Amount("dailyStreak", paid["dailyStreak"])
    + Amount("achievement", paid["achievement"])
=============================================================================
