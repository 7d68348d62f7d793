------------------------- MODULE WatchTrackingProofs -------------------------
(***************************************************************************)
(* Proofs about WatchTracking, for every catalogue, achievement list,      *)
(* level curve, calendar and set of inputs, from an empty database or any  *)
(* the seed script fills.  First the ledger and, for the types, that the   *)
(* CHOOSEs of the model always have something to choose.  Then the         *)
(* library: its entries agree with the UserEpisode rows, the counters and  *)
(* the pages with its entries, and the streak with the daily log; last,    *)
(* that a recompute of the statistics finds nothing to repair and that no  *)
(* achievement is left pending.                                            *)
(***************************************************************************)
EXTENDS WatchSeed, LibraryQueries, FiniteSetTheorems, WellFoundedInduction, TLAPS

----------------------------------------------------------------------------
(* What the operators of XpLedger keep, for any account.                   *)

\* An account as the ledger keeps it.
IsAccount(a) ==
  /\ a = [paid |-> a.paid, xpTotal |-> a.xpTotal, level |-> a.level]
  /\ a.paid = [k \in Kinds |-> a.paid[k]]
  /\ \A k \in Kinds : IsFiniteSet(a.paid[k])
  /\ a.paid["achievement"] \subseteq Achievements
  /\ a.xpTotal \in Nat
  /\ a.level \in 1..MaxLevel

\* The two caches against the ledger.
Balanced(a) ==
  /\ a.xpTotal = LedgerSum(a.paid)
  /\ a.level = XpToLevel(a.xpTotal)

----------------------------------------------------------------------------
\* xpToLevel always answers a level of the curve, whatever the total.
LEMMA LevelType ==
  ASSUME NEW xp \in Nat
  PROVE  XpToLevel(xp) \in 1..MaxLevel
<1> DEFINE R == {l \in 1..MaxLevel : LevelXp[l] <= xp}
<1>1. IsFiniteSet(1..MaxLevel) /\ Cardinality(1..MaxLevel) = MaxLevel
  BY FS_Interval, LevelAssumption
<1>2. IsFiniteSet(R) /\ Cardinality(R) <= MaxLevel
  <2>1. R \in SUBSET (1..MaxLevel)
    OBVIOUS
  <2> QED BY <1>1, <2>1, FS_Subset
<1>3. 1 \in R
  BY LevelAssumption
<1>4. Cardinality(R) \in Nat /\ Cardinality(R) # 0
  BY <1>2, <1>3, FS_CardinalityType, FS_EmptySet
<1> QED BY <1>2, <1>4, LevelAssumption DEF XpToLevel

\* More XP never means a lower level.
LEMMA LevelMonotone ==
  ASSUME NEW x \in Nat, NEW y \in Nat, x <= y
  PROVE  XpToLevel(x) <= XpToLevel(y)
<1> DEFINE Reached(n) == {l \in 1..MaxLevel : LevelXp[l] <= n}
<1>1. IsFiniteSet(Reached(y))
  <2>1. IsFiniteSet(1..MaxLevel)
    BY FS_Interval, LevelAssumption
  <2>2. Reached(y) \in SUBSET (1..MaxLevel)
    OBVIOUS
  <2> QED BY <2>1, <2>2, FS_Subset
<1>2. Reached(x) \in SUBSET Reached(y)
  BY LevelAssumption
<1> HIDE DEF Reached
<1>3. Cardinality(Reached(x)) <= Cardinality(Reached(y))
  BY <1>1, <1>2, FS_Subset
<1> QED BY <1>3 DEF XpToLevel, Reached

\* A payment is a natural number.
LEMMA AmountType ==
  ASSUME NEW kind \in Kinds, NEW keys, IsFiniteSet(keys),
         kind = "achievement" => keys \subseteq Achievements
  PROVE  Amount(kind, keys) \in Nat
<1>1. CASE kind = "achievement"
  BY <1>1, AchievementAssumption DEF Amount
<1>2. CASE kind # "achievement"
  <2>1. XP_AWARDS[kind] \in Nat
    BY <1>2 DEF XP_AWARDS, Kinds
  <2>2. Cardinality(keys) \in Nat
    BY FS_CardinalityType
  <2> QED BY <1>2, <2>1, <2>2 DEF Amount
<1> QED BY <1>1, <1>2

\* Payments of disjoint sets of keys add up.
LEMMA AmountAdds ==
  ASSUME NEW kind \in Kinds, NEW S, NEW T, IsFiniteSet(S), IsFiniteSet(T),
         S \cap T = {},
         kind = "achievement" => S \subseteq Achievements /\ T \subseteq Achievements
  PROVE  Amount(kind, S \cup T) = Amount(kind, S) + Amount(kind, T)
<1>1. CASE kind = "achievement"
  BY <1>1, AchievementAssumption DEF Amount
<1>2. CASE kind # "achievement"
  <2>1. XP_AWARDS[kind] \in Nat
    BY <1>2 DEF XP_AWARDS, Kinds
  <2>2. Cardinality(S) \in Nat /\ Cardinality(T) \in Nat
    BY FS_CardinalityType
  <2>3. Cardinality(S \cup T) = Cardinality(S) + Cardinality(T)
    BY <2>2, FS_Union, FS_EmptySet
  <2> QED BY <1>2, <2>1, <2>2, <2>3 DEF Amount
<1> QED BY <1>1, <1>2

\* Paying keys of one kind raises the ledger's sum by what the new keys among
\* them are worth.
LEMMA LedgerSumAdds ==
  ASSUME NEW paid, paid = [k \in Kinds |-> paid[k]],
         \A k \in Kinds : IsFiniteSet(paid[k]),
         paid["achievement"] \subseteq Achievements,
         NEW kind \in Kinds, NEW keys, IsFiniteSet(keys),
         kind = "achievement" => keys \subseteq Achievements
  PROVE  /\ LedgerSum(paid) \in Nat
         /\ LedgerSum([paid EXCEPT ![kind] = @ \cup keys])
              = LedgerSum(paid) + Amount(kind, keys \ paid[kind])
<1> DEFINE new  == keys \ paid[kind]
           next == [paid EXCEPT ![kind] = @ \cup keys]
<1>1. IsFiniteSet(new) /\ (kind = "achievement" => new \subseteq Achievements)
  BY FS_Difference
<1>2. \A k \in Kinds : Amount(k, paid[k]) \in Nat
  BY AmountType
<1>3. Amount(kind, new) \in Nat
  BY <1>1, AmountType
<1>4. Amount(kind, paid[kind] \cup new) = Amount(kind, paid[kind]) + Amount(kind, new)
  <2>1. paid[kind] \cap new = {}
    OBVIOUS
  <2> QED BY <1>1, <2>1, AmountAdds
<1>5. paid[kind] \cup new = paid[kind] \cup keys
  OBVIOUS
<1>6. \A k \in Kinds : next[k] = IF k = kind THEN paid[k] \cup keys ELSE paid[k]
  OBVIOUS
<1> HIDE DEF new, next
<1>7. \A k \in Kinds : Amount(k, next[k])
         = IF k = kind THEN Amount(k, paid[k]) + Amount(k, new) ELSE Amount(k, paid[k])
  BY <1>4, <1>5, <1>6
<1>8. LedgerSum(paid) \in Nat
  BY <1>2 DEF LedgerSum, Kinds
<1>9. LedgerSum(next) = LedgerSum(paid) + Amount(kind, new)
  BY <1>2, <1>3, <1>7, SMTT(30) DEF LedgerSum, Kinds
<1> QED BY <1>8, <1>9 DEF next, new

\* Award keeps an account balanced, forgets nothing that was paid and lowers
\* neither the total nor the level (xpService.award, repeats included).
THEOREM AwardKeepsBalance ==
  ASSUME NEW a, IsAccount(a), Balanced(a),
         NEW kind \in Kinds, NEW keys, IsFiniteSet(keys),
         kind = "achievement" => keys \subseteq Achievements
  PROVE  /\ IsAccount(Award(a, kind, keys))
         /\ Balanced(Award(a, kind, keys))
         /\ \A k \in Kinds : a.paid[k] \subseteq Award(a, kind, keys).paid[k]
         /\ Award(a, kind, keys).xpTotal >= a.xpTotal
         /\ Award(a, kind, keys).level >= a.level
<1> DEFINE new   == keys \ a.paid[kind]
           paid  == [a.paid EXCEPT ![kind] = @ \cup keys]
           total == a.xpTotal + Amount(kind, new)
           level == IF new = {} THEN a.level ELSE XpToLevel(total)
           b     == Award(a, kind, keys)
<1>1. b = [paid |-> paid, xpTotal |-> total, level |-> level]
  BY DEF Award
<1>2. Amount(kind, new) \in Nat
  BY FS_Difference, AmountType DEF IsAccount
<1>3. total \in Nat /\ total >= a.xpTotal
  BY <1>2 DEF IsAccount
<1>4. total = LedgerSum(paid)
  BY LedgerSumAdds DEF IsAccount, Balanced
<1>5. new = {} => total = a.xpTotal
  <2>1. Amount(kind, {}) = 0
    BY FS_EmptySet, AchievementAssumption DEF Amount, XP_AWARDS, Kinds
  <2> QED BY <2>1 DEF IsAccount
<1>6. level = XpToLevel(total)
  BY <1>5 DEF Balanced
<1>7. level \in 1..MaxLevel
  BY <1>3, <1>6, LevelType
<1>8. level >= a.level
  BY <1>3, <1>6, <1>7, LevelMonotone, LevelAssumption DEF IsAccount, Balanced
<1>9. /\ paid = [k \in Kinds |-> paid[k]]
      /\ \A k \in Kinds : paid[k] = IF k = kind THEN a.paid[k] \cup keys ELSE a.paid[k]
  BY DEF IsAccount
<1>10. \A k \in Kinds : IsFiniteSet(paid[k])
  BY <1>9, FS_Union DEF IsAccount
<1>11. paid["achievement"] \subseteq Achievements
  BY <1>9 DEF IsAccount, Kinds
<1> HIDE DEF new, paid, total, level
<1>12. b.paid = paid /\ b.xpTotal = total /\ b.level = level
  BY <1>1
<1>13. IsAccount(b)
  BY <1>1, <1>3, <1>7, <1>9, <1>10, <1>11, <1>12 DEF IsAccount
<1>14. Balanced(b)
  BY <1>4, <1>6, <1>12 DEF Balanced
<1> QED BY <1>3, <1>8, <1>9, <1>12, <1>13, <1>14

\* A new account is balanced: nothing paid, no XP, level 1.
LEMMA NewAccountBalanced == IsAccount(NewAccount) /\ Balanced(NewAccount)
<1>1. IsFiniteSet({}) /\ Cardinality({}) = 0
  BY FS_EmptySet
<1>2. \A k \in Kinds : NewAccount.paid[k] = {}
  BY DEF NewAccount
<1>3. \A k \in Kinds : Amount(k, {}) = 0
  BY <1>1, AchievementAssumption DEF Amount, XP_AWARDS, Kinds
<1>4. LedgerSum(NewAccount.paid) = 0
  <2>1. \A k \in Kinds : Amount(k, NewAccount.paid[k]) = 0
    BY <1>2, <1>3
  <2> QED BY <2>1 DEF LedgerSum, Kinds
<1>5. XpToLevel(0) = 1
  <2>1. {l \in 1..MaxLevel : LevelXp[l] <= 0} = {1}
    BY LevelAssumption
  <2> QED BY <2>1, FS_Singleton DEF XpToLevel
<1>6. Balanced(NewAccount)
  BY <1>4, <1>5 DEF Balanced, NewAccount
<1>7. IsAccount(NewAccount)
  BY <1>1, LevelAssumption DEF IsAccount, NewAccount, Kinds
<1> QED BY <1>6, <1>7

----------------------------------------------------------------------------
(* The ledger and the account.                                             *)

\* What one step of the service may do to the account.
Grown(a, b) ==
  /\ AccountOK(b)
  /\ Balanced(b)
  /\ \A k \in Kinds : a.paid[k] \subseteq b.paid[k]
  /\ b.xpTotal >= a.xpTotal
  /\ b.level >= a.level

\* The part of the state the ledger depends on.
LedgerInv ==
  /\ day \in Days
  /\ AccountOK(account)
  /\ LedgerAgrees

\* Every kind of award is keyed on a finite set of subjects.
LEMMA SubjectsFinite == \A k \in Kinds : IsFiniteSet(Subjects(k))
<1>1. IsFiniteSet(Days)
  BY FS_Interval, DayAssumption DEF Days
<1> QED BY <1>1, CatalogueAssumption, AchievementAssumption DEF Subjects, Kinds

LEMMA AccountIsAccount ==
  ASSUME NEW a
  PROVE  AccountOK(a) <=> IsAccount(a) /\ \A k \in Kinds : a.paid[k] \subseteq Subjects(k)
<1>1. ASSUME AccountOK(a) PROVE IsAccount(a)
  <2>1. \A k \in Kinds : IsFiniteSet(a.paid[k])
    BY <1>1, SubjectsFinite, FS_Subset DEF AccountOK
  <2>2. a.paid["achievement"] \subseteq Achievements
    BY <1>1 DEF AccountOK, Subjects, Kinds
  <2> QED BY <1>1, <2>1, <2>2 DEF AccountOK, IsAccount
<1> QED BY <1>1 DEF AccountOK, IsAccount

\* Awarding subjects of the right kind grows an account.
LEMMA AwardGrows ==
  ASSUME NEW a, AccountOK(a), Balanced(a), NEW kind \in Kinds,
         NEW keys \in SUBSET Subjects(kind)
  PROVE  Grown(a, Award(a, kind, keys))
<1>1. IsFiniteSet(keys)
  BY SubjectsFinite, FS_Subset
<1>2. kind = "achievement" => keys \subseteq Achievements
  BY DEF Subjects
<1>3. IsAccount(a)
  BY AccountIsAccount
<1>4. \A k \in Kinds : Award(a, kind, keys).paid[k] \subseteq Subjects(k)
  <2>1. Award(a, kind, keys).paid = [a.paid EXCEPT ![kind] = @ \cup keys]
    BY DEF Award
  <2> QED BY <2>1 DEF AccountOK
<1>5. AccountOK(Award(a, kind, keys))
  BY <1>1, <1>2, <1>3, <1>4, AwardKeepsBalance, AccountIsAccount
<1> QED BY <1>1, <1>2, <1>3, <1>5, AwardKeepsBalance DEF Grown

LEMMA GrownTransitive ==
  ASSUME NEW a, AccountOK(a), NEW b, Grown(a, b), NEW c, Grown(b, c)
  PROVE  Grown(a, c)
BY LevelAssumption DEF Grown, AccountOK

LEMMA GrownReflexive ==
  ASSUME NEW a, AccountOK(a), Balanced(a)
  PROVE  Grown(a, a)
BY LevelAssumption DEF Grown, AccountOK

\* Evaluating the achievements grows an account, whatever the metrics say.
LEMMA EvaluateGrows ==
  ASSUME NEW a, AccountOK(a), Balanced(a), NEW vol, NEW run, NEW log
  PROVE  Grown(a, Evaluate(a, vol, run, log))
<1>1. ASSUME NEW x, AccountOK(x), Balanced(x)
      PROVE  Grown(x, UnlockPass(x, vol, run, log))
  <2> DEFINE keys == {h \in Achievements \ x.paid["achievement"] :
                        MetricReaches(AchMetric[h], AchThreshold[h], vol, run, log, x.level)}
  <2>1. keys \in SUBSET Subjects("achievement")
    BY DEF Subjects
  <2>2. "achievement" \in Kinds
    BY DEF Kinds
  <2> HIDE DEF keys
  <2>3. Grown(x, Award(x, "achievement", keys))
    BY <1>1, <2>1, <2>2, AwardGrows
  <2> QED BY <2>3 DEF UnlockPass, keys
<1> DEFINE b == UnlockPass(a, vol, run, log)
           c == UnlockPass(b, vol, run, log)
           d == UnlockPass(c, vol, run, log)
<1>2. Grown(a, b)
  BY <1>1
<1> HIDE DEF b
<1>3. Grown(b, c)
  BY <1>1, <1>2 DEF Grown
<1> HIDE DEF c
<1>4. Grown(c, d)
  BY <1>1, <1>3 DEF Grown
<1> HIDE DEF d
<1>5. Grown(a, d)
  BY <1>2, <1>3, <1>4, GrownTransitive DEF Grown
<1> QED BY <1>5 DEF Evaluate, d, c, b

\* applyRewards pays what was earned, then evaluates the achievements on the
\* counters it leaves behind.
LEMMA RewardsEvaluate ==
  ASSUME LedgerInv, NEW s \in Shows, NEW rows, NEW was, NEW now,
         NEW fresh \in SUBSET Episodes, NEW minutes,
         ApplyRewards(s, rows, was, now, fresh, minutes)
  PROVE  \E x : Grown(account, x) /\ account' = Evaluate(x, volume', statStreak', dailyLog')
<1> DEFINE seasons == CompletedSeasons(rows, s)
           shows   == IF now.status = "COMPLETED" THEN {s} ELSE {}
           a1 == Award(account, "episode", fresh)
           a2 == Award(a1, "season", seasons)
           a3 == Award(a2, "show", shows)
           a4 == Award(a3, "dailyStreak", {day})
<1>0. /\ "episode" \in Kinds /\ "season" \in Kinds /\ "show" \in Kinds
      /\ "dailyStreak" \in Kinds
  BY DEF Kinds
<1>a. AccountOK(account) /\ Balanced(account) /\ day \in Days
  BY DEF LedgerInv, LedgerAgrees, Balanced
<1>1. Grown(account, a1)
  BY <1>0, <1>a, AwardGrows DEF Subjects
<1> HIDE DEF a1
<1>2. Grown(a1, a2)
  <2>1. seasons \in SUBSET Subjects("season")
    BY DEF CompletedSeasons, Subjects
  <2> HIDE DEF seasons
  <2> QED BY <1>0, <1>1, <2>1, AwardGrows DEF Grown
<1> HIDE DEF a2
<1>3. Grown(a2, a3)
  <2>1. shows \in SUBSET Subjects("show")
    BY DEF Subjects
  <2> HIDE DEF shows
  <2> QED BY <1>0, <1>2, <2>1, AwardGrows DEF Grown
<1> HIDE DEF a3
<1>4. Grown(a3, a4)
  <2>1. {day} \in SUBSET Subjects("dailyStreak")
    BY <1>a DEF Subjects
  <2> QED BY <1>0, <1>3, <2>1, AwardGrows DEF Grown
<1> HIDE DEF a4
<1>5. a3 = Earned(s, rows, now.status, fresh)
  BY DEF a3, a2, a1, Earned, AwardMany
<1>6. Grown(account, a3)
  BY <1>a, <1>1, <1>2, <1>3, GrownTransitive DEF Grown
<1>7. Grown(account, a4)
  BY <1>a, <1>4, <1>6, GrownTransitive DEF Grown
<1>8. account' \in {Evaluate(x, volume', statStreak', dailyLog') : x \in {a3, a4}}
  <2> HIDE DEF seasons, shows
  <2> QED BY <1>5 DEF ApplyRewards, a4
<1> QED BY <1>6, <1>7, <1>8

\* So it grows the account, whichever episodes it is told of.
LEMMA RewardsGrow ==
  ASSUME LedgerInv, NEW s \in Shows, NEW rows, NEW was, NEW now,
         NEW fresh \in SUBSET Episodes, NEW minutes,
         ApplyRewards(s, rows, was, now, fresh, minutes)
  PROVE  Grown(account, account')
<1>1. PICK x : Grown(account, x) /\ account' = Evaluate(x, volume', statStreak', dailyLog')
  BY RewardsEvaluate
<1>2. Grown(x, account')
  BY <1>1, EvaluateGrows DEF Grown
<1>3. AccountOK(account)
  BY DEF LedgerInv
<1> QED BY <1>1, <1>2, <1>3, GrownTransitive

----------------------------------------------------------------------------
(* The ledger.                                                             *)

\* The calls that mark episodes, whatever they worked out to mark.
LEMMA MarkGrows ==
  ASSUME LedgerInv, NEW s \in Shows, NEW eps \in SUBSET Episodes, NEW minutes,
         Mark(s, eps, minutes)
  PROVE  Grown(account, account') /\ day' = day
<1>1. Unwatched(eps) \in SUBSET Episodes
  BY DEF Unwatched
<1> QED BY <1>1, RewardsGrow DEF Mark

\* The show, season and episode sets the calls work with are of the catalogue.
LEMMA CatalogueTypes ==
  /\ \A e \in Episodes : ShowOf(e) \in Shows
  /\ \A n \in Seasons : SeasonShow[n] \in Shows /\ SeasonEpisodes(n) \in SUBSET Episodes
  /\ \A s \in Shows : /\ EpisodesOf(s) \in SUBSET Episodes
                      /\ RegularEpisodes(s) \in SUBSET EpisodesOf(s)
  /\ \A e \in Episodes : UpTo(e) \in SUBSET RegularEpisodes(ShowOf(e))
BY CatalogueAssumption
DEF ShowOf, SeasonEpisodes, EpisodesOf, RegularEpisodes, UpTo

\* Some call that marks episodes of one show.
SomeMark ==
  \E s \in Shows : \E eps \in SUBSET EpisodesOf(s) : \E minutes \in Nat :
    Mark(s, eps, minutes)

SomeAdd ==
  \E s \in Shows : \E eps \in SUBSET EpisodesOf(s) : \E status \in AddStatuses :
    AddToLibrary(s, status, eps)

LEMMA MinutesType == \A S \in SUBSET Episodes : Minutes[S] \in Nat
BY MinutesAssumption

\* The minutes apportioned to a partly watched season are a natural number.
LEMMA SeasonShareType ==
  ASSUME NEW n \in Seasons
  PROVE  SeasonShare(n) \in Nat
<1> DEFINE all   == SeasonEpisodes(n)
           fresh == Unwatched(all)
<1>1. CASE fresh = {}
  BY <1>1 DEF SeasonShare
<1>2. CASE fresh # {}
  <2>1. all \in SUBSET Episodes /\ fresh \in SUBSET all
    BY DEF SeasonEpisodes, Unwatched
  <2>2. IsFiniteSet(all) /\ IsFiniteSet(fresh)
    BY <2>1, CatalogueAssumption, FS_Subset
  <2>3. Cardinality(all) \in Nat /\ Cardinality(fresh) \in Nat
    BY <2>2, FS_CardinalityType
  <2>4. Cardinality(all) # 0
    BY <1>2, <2>1, <2>2, FS_EmptySet
  <2>5. ASSUME NEW a \in Nat, NEW b \in Nat \ {0} PROVE RoundedQuotient(a, b) \in Nat
    BY <2>5 DEF RoundedQuotient
  <2>6. Minutes[all] * Cardinality(fresh) \in Nat
    BY <2>1, <2>3, MinutesType
  <2> QED BY <1>2, <2>3, <2>4, <2>5, <2>6 DEF SeasonShare
<1> QED BY <1>1, <1>2

\* Every call is one of five things; the marks differ only in what they mark.
LEMMA NextCases ==
  ASSUME Next
  PROVE  \/ SomeMark
         \/ \E e \in Episodes : UnmarkEpisodeWatched(e)
         \/ SomeAdd
         \/ \E s \in Shows : RemoveFromLibrary(s)
         \/ NextDay
<1>1. ASSUME NEW e \in Episodes, MarkEpisodeWatched(e) PROVE SomeMark
  <2>1. ShowOf(e) \in Shows /\ {e} \in SUBSET EpisodesOf(ShowOf(e))
    BY CatalogueTypes DEF EpisodesOf
  <2>2. Minutes[Unwatched({e})] \in Nat
    BY MinutesType DEF Unwatched
  <2> QED BY <1>1, <2>1, <2>2 DEF MarkEpisodeWatched, SomeMark
<1>2. ASSUME NEW n \in Seasons, MarkSeasonWatched(n) PROVE SomeMark
  <2>1. /\ SeasonShow[n] \in Shows
        /\ SeasonEpisodes(n) \in SUBSET EpisodesOf(SeasonShow[n])
    BY CatalogueTypes DEF EpisodesOf, SeasonEpisodes, ShowOf
  <2> QED BY <1>2, <2>1, SeasonShareType DEF MarkSeasonWatched, SomeMark
<1>3. ASSUME NEW e \in Episodes, MarkWatchedUpTo(e) PROVE SomeMark
  <2>1. ShowOf(e) \in Shows /\ UpTo(e) \in SUBSET EpisodesOf(ShowOf(e))
    BY CatalogueTypes
  <2>2. Minutes[Unwatched(UpTo(e))] \in Nat
    BY <2>1, CatalogueTypes, MinutesType DEF Unwatched
  <2> QED BY <1>3, <2>1, <2>2 DEF MarkWatchedUpTo, SomeMark
<1>4. ASSUME NEW s \in Shows, ContinueWatching(s)
      PROVE  \E e \in Episodes : MarkEpisodeWatched(e)
  <2>1. Unwatched(RegularEpisodes(s)) \subseteq Episodes
    BY CatalogueTypes DEF Unwatched
  <2> QED BY <1>4, <2>1 DEF ContinueWatching
<1>5. ASSUME NEW e \in AddPositions, NEW status \in AddStatuses,
             AddToLibrary(ShowOf(e), status, UpTo(e))
      PROVE  SomeAdd
  <2>1. ShowOf(e) \in Shows /\ UpTo(e) \in SUBSET EpisodesOf(ShowOf(e))
    BY InputAssumption, CatalogueTypes
  <2> QED BY <1>5, <2>1 DEF SomeAdd
<1>6. ASSUME NEW s \in Shows, NEW status \in AddStatuses, AddToLibrary(s, status, {})
      PROVE  SomeAdd
  BY <1>6 DEF SomeAdd
<1> QED BY <1>1, <1>2, <1>3, <1>4, <1>5, <1>6 DEF Next

\* No step of the service, nor a repair, shrinks the account.
LEMMA StepGrows ==
  ASSUME LedgerInv, Next \/ RecomputeStats
  PROVE  Grown(account, account') /\ day' \in Days
<1>a. AccountOK(account) /\ Balanced(account) /\ day \in Days
  BY DEF LedgerInv, LedgerAgrees, Balanced
<1>b. Grown(account, account)
  BY <1>a, GrownReflexive
<1>1. ASSUME SomeMark PROVE Grown(account, account') /\ day' \in Days
  <2>1. PICK s \in Shows, eps \in SUBSET Episodes, minutes \in Nat : Mark(s, eps, minutes)
    BY <1>1, CatalogueTypes DEF SomeMark
  <2> QED BY <1>a, <2>1, MarkGrows
<1>2. ASSUME NEW e \in Episodes, UnmarkEpisodeWatched(e)
      PROVE  Grown(account, account') /\ day' \in Days
  BY <1>2, <1>a, <1>b DEF UnmarkEpisodeWatched
<1>3. ASSUME SomeAdd PROVE Grown(account, account') /\ day' \in Days
  BY <1>3, <1>a, RewardsGrow DEF SomeAdd, AddToLibrary
<1>4. ASSUME NEW s \in Shows, RemoveFromLibrary(s)
      PROVE  Grown(account, account') /\ day' \in Days
  BY <1>4, <1>a, <1>b DEF RemoveFromLibrary
<1>5. ASSUME NextDay PROVE Grown(account, account') /\ day' \in Days
  BY <1>5, <1>a, <1>b, DayAssumption DEF NextDay, Days
<1>6. ASSUME RecomputeStats PROVE Grown(account, account') /\ day' \in Days
  <2>1. account' = account
    BY <1>6, <1>a DEF RecomputeStats, Balanced, AccountOK
  <2> QED BY <1>6, <1>a, <1>b, <2>1 DEF RecomputeStats
<1>7. CASE Next
  BY <1>1, <1>2, <1>3, <1>4, <1>5, <1>7, NextCases
<1> QED BY <1>6, <1>7

LEMMA LedgerInit == Init => LedgerInv
<1>1. AccountOK(NewAccount) /\ Balanced(NewAccount)
  BY NewAccountBalanced, AccountIsAccount DEF NewAccount
<1> QED BY <1>1, DayAssumption DEF Init, LedgerInv, LedgerAgrees, Balanced, Days

\* What the seed script leaves: entries for some of the shows, rows of regular
\* episodes of those shows only, and everything derived recomputed.
SeededLibrary(library, status) ==
  /\ \A e \in Episodes : watchedOn[e] # NotWatched => IsRegular(e) /\ ShowOf(e) \in library
  /\ userShow = [s \in Shows |->
                   IF s \in library THEN RecomputedProgress(watchedOn, s, status[s]) ELSE Absent]
  /\ memberCount = [s \in Shows |-> IF s \in library THEN 1 ELSE 0]

LEMMA SeedFacts ==
  ASSUME SeedInit
  PROVE  \E library \in SUBSET Shows : \E status \in [library -> Statuses] : \E paid :
           /\ SeededLibrary(library, status)
           /\ paid = [k \in Kinds |-> paid[k]]
           /\ \A k \in Kinds : paid[k] \subseteq Subjects(k)
           /\ Finalised(paid)
           /\ showCompleted = FALSE
<1> DEFINE Left(library, status, watched, on) ==
        LET paid == SeededLedger(status, watched)
        IN  /\ watchedOn = [e \in Episodes |-> IF e \in paid["episode"] THEN on[e]
                                               ELSE NotWatched]
            /\ userShow = [s \in Shows |-> IF s \in library
                             THEN RecomputedProgress(watchedOn, s, status[s]) ELSE Absent]
            /\ memberCount = [s \in Shows |-> IF s \in library THEN 1 ELSE 0]
            /\ Finalised(paid)
            /\ showCompleted = FALSE
<1>0. PICK library \in SUBSET Shows : \E status \in [library -> Statuses \ {"REWATCHING"}] :
        \E watched, on : Left(library, status, watched, on)
  BY SMTT(60) DEF SeedInit
<1>a. PICK status \in [library -> Statuses \ {"REWATCHING"}] :
        \E watched, on : Left(library, status, watched, on)
  BY <1>0
<1>1. PICK watched, on : Left(library, status, watched, on)
  BY <1>a
<1> DEFINE paid == SeededLedger(status, watched)
<1>2. DOMAIN status = library /\ status \in [library -> Statuses]
  OBVIOUS
<1>3. /\ paid = [k \in Kinds |-> paid[k]]
      /\ paid["episode"] = UNION {SeededRows(s, watched[s]) : s \in library}
      /\ paid["season"] = UNION {SeededSeasons(s, watched[s]) : s \in library}
      /\ paid["show"] = {s \in library : status[s] = "COMPLETED"}
      /\ paid["dailyStreak"] = {} /\ paid["achievement"] = {}
  BY <1>2 DEF SeededLedger, Kinds
<1>4. \A s \in library : /\ SeededRows(s, watched[s]) \subseteq RegularEpisodes(s)
                         /\ SeededSeasons(s, watched[s]) \subseteq Seasons
  BY DEF SeededRows, SeededSeasons
<1> HIDE DEF paid
<1>5. ASSUME NEW e \in paid["episode"]
      PROVE  e \in Episodes /\ IsRegular(e) /\ ShowOf(e) \in library
  <2>1. PICK s \in library : e \in SeededRows(s, watched[s])
    BY <1>3
  <2> QED BY <2>1, <1>4 DEF RegularEpisodes, EpisodesOf
<1>6. \A k \in Kinds : paid[k] \subseteq Subjects(k)
  <2>1. paid["episode"] \subseteq Episodes
    BY <1>5
  <2>2. paid["season"] \subseteq Seasons
    BY <1>3, <1>4
  <2>3. paid["show"] \subseteq Shows
    BY <1>3
  <2> QED BY <2>1, <2>2, <2>3, <1>3 DEF Subjects, Kinds
<1>7. \A e \in Episodes : watchedOn[e] # NotWatched => IsRegular(e) /\ ShowOf(e) \in library
  BY <1>1, <1>5 DEF paid
<1>8. Finalised(paid) /\ showCompleted = FALSE
  BY <1>1 DEF paid
<1>9. SeededLibrary(library, status)
  BY <1>1, <1>7 DEF SeededLibrary
<1> QED BY <1>2, <1>3, <1>6, <1>8, <1>9

\* The seed evaluates the achievements on an account whose ledger adds up.
LEMMA SeedEvaluates ==
  ASSUME SeedInit
  PROVE  \E a : AccountOK(a) /\ Balanced(a) /\ account = Evaluate(a, volume, statStreak, dailyLog)
<1>1. PICK paid : /\ paid = [k \in Kinds |-> paid[k]]
                  /\ \A k \in Kinds : paid[k] \subseteq Subjects(k)
                  /\ Finalised(paid)
  BY SeedFacts
<1> DEFINE sum == LedgerSum(paid)
           a   == [paid |-> paid, xpTotal |-> sum, level |-> XpToLevel(sum)]
<1>2. \A k \in Kinds : Amount(k, paid[k]) \in Nat
  <2>1. \A k \in Kinds : IsFiniteSet(paid[k])
    BY <1>1, SubjectsFinite, FS_Subset
  <2>2. paid["achievement"] \subseteq Achievements
    BY <1>1 DEF Subjects, Kinds
  <2> QED BY <2>1, <2>2, AmountType
<1>3. sum \in Nat
  BY <1>2 DEF LedgerSum, Kinds
<1>4. AccountOK(a) /\ Balanced(a)
  BY <1>1, <1>3, LevelType DEF AccountOK, Balanced
<1>5. account = Evaluate(a, volume, statStreak, dailyLog)
  BY <1>1 DEF Finalised
<1> QED BY <1>4, <1>5

\* The seed's ledger adds up to its account, achievements included.
LEMMA LedgerSeeded == SeedInit => LedgerInv
<1> SUFFICES ASSUME SeedInit PROVE LedgerInv
  OBVIOUS
<1>1. PICK a : AccountOK(a) /\ Balanced(a) /\ account = Evaluate(a, volume, statStreak, dailyLog)
  BY SeedEvaluates
<1>2. Grown(a, account)
  BY <1>1, EvaluateGrows
<1>3. day \in Days
  BY SeedAssumption DEF SeedInit
<1> QED BY <1>2, <1>3 DEF LedgerInv, LedgerAgrees, Grown, Balanced

LEMMA LedgerStep == LedgerInv /\ [Next \/ RecomputeStats]_vars => LedgerInv'
<1>1. ASSUME LedgerInv, Next \/ RecomputeStats PROVE LedgerInv'
  BY <1>1, StepGrows DEF LedgerInv, LedgerAgrees, Grown, Balanced
<1>2. ASSUME LedgerInv, UNCHANGED vars PROVE LedgerInv'
  BY <1>2 DEF vars, LedgerInv, LedgerAgrees
<1> QED BY <1>1, <1>2

\* xpTotal stays the sum of the ledger and level the level of xpTotal, after
\* any calls and repairs: what makes recompute's XP part a no-op.
THEOREM LedgerAlwaysAgrees == SeededSpec => []LedgerAgrees
<1>1. LedgerInv => LedgerAgrees
  BY DEF LedgerInv
<1> QED BY <1>1, LedgerInit, LedgerSeeded, LedgerStep, PTL DEF SeededSpec

\* XP is never revoked: no step takes a key out of the ledger or lowers the
\* total or the level.
THEOREM XpIsNeverRevoked == SeededSpec => XpNeverRevoked
<1>1. LedgerInv /\ [Next \/ RecomputeStats]_vars
        => [/\ \A k \in Kinds : account.paid[k] \subseteq account'.paid[k]
            /\ account'.xpTotal >= account.xpTotal
            /\ account'.level >= account.level]_vars
  BY StepGrows DEF Grown
<1> QED BY <1>1, LedgerInit, LedgerSeeded, LedgerStep, PTL DEF SeededSpec, XpNeverRevoked

----------------------------------------------------------------------------
(* Orders on finite sets.                                                  *)

\* A strict order on a finite set has a maximal element.
LEMMA MaximalElement ==
  ASSUME NEW S, IsFiniteSet(S), S # {}, NEW R,
         \A x, y, z \in S : <<x, y>> \in R /\ <<y, z>> \in R => <<x, z>> \in R,
         \A x \in S : <<x, x>> \notin R
  PROVE  \E x \in S : \A y \in S : <<x, y>> \notin R
<1> DEFINE above(x) == {y \in S : <<x, y>> \in R}
           T == {above(x) : x \in S}
<1>1. T \subseteq FiniteSubsetsOf(S) /\ T # {}
  <2>1. FiniteSubsetsOf(S) = SUBSET S
    BY FS_FiniteSubsetsOfFinite
  <2>2. \A x \in S : above(x) \in SUBSET S
    OBVIOUS
  <2> HIDE DEF above
  <2> QED BY <2>1, <2>2
<1>2. IsWellFoundedOn(StrictSubsetOrdering(S), FiniteSubsetsOf(S))
  BY FS_StrictSubsetOrderingWellFounded
<1>3. PICK A \in T : \A B \in T : <<B, A>> \notin StrictSubsetOrdering(S)
  <2> HIDE DEF T
  <2> QED BY <1>1, <1>2, WFMin
<1>4. PICK x \in S : A = above(x)
  OBVIOUS
<1>5. ASSUME NEW y \in S, <<x, y>> \in R PROVE FALSE
  <2>1. above(y) \subseteq above(x) /\ y \in above(x) /\ y \notin above(y)
    BY <1>5
  <2>2. <<above(y), above(x)>> \in StrictSubsetOrdering(S)
    BY <2>1 DEF StrictSubsetOrdering
  <2> QED BY <1>3, <1>4, <2>2
<1> QED BY <1>5

\* MaxOf finds the maximum of a finite set of numbers.
LEMMA MaxOfType ==
  ASSUME NEW S \in SUBSET Nat, IsFiniteSet(S), S # {}
  PROVE  MaxOf(S) \in S /\ \A y \in S : y <= MaxOf(S)
<1> DEFINE R == {p \in S \X S : p[1] < p[2]}
<1>1. \A x, y \in S : <<x, y>> \in R <=> x < y
  OBVIOUS
<1> HIDE DEF R
<1>2. PICK x \in S : \A y \in S : <<x, y>> \notin R
  <2>1. \A x, y, z \in S : <<x, y>> \in R /\ <<y, z>> \in R => <<x, z>> \in R
    BY <1>1
  <2>2. \A x \in S : <<x, x>> \notin R
    BY <1>1
  <2> QED BY <2>1, <2>2, MaximalElement
<1>3. ASSUME NEW y \in S PROVE y <= x
  <2>1. x \in Nat /\ y \in Nat
    OBVIOUS
  <2>2. ~(x < y)
    BY <1>1, <1>2
  <2> QED BY <2>1, <2>2
<1> QED BY <1>3 DEF MaxOf

\* Any set of regular episodes of one show has a last one: season numbers are
\* unique within the show and episode numbers within the season.
LEMMA LastType ==
  ASSUME NEW s \in Shows, NEW S \in SUBSET RegularEpisodes(s), S # {}
  PROVE  Last(S) \in S
<1> DEFINE R == {p \in S \X S : Precedes(p[1], p[2])}
<1>0. S \subseteq Episodes
  BY CatalogueTypes
<1>1. \A x, y \in S : <<x, y>> \in R <=> Precedes(x, y)
  OBVIOUS
<1> HIDE DEF R
<1>2. IsFiniteSet(S)
  BY <1>0, CatalogueAssumption, FS_Subset
<1>3. \A x \in S : SeasonNumber[EpisodeSeason[x]] \in Nat /\ EpisodeNumber[x] \in Nat
  BY <1>0, CatalogueAssumption
<1>4. PICK x \in S : \A y \in S : <<x, y>> \notin R
  <2>1. \A x, y, z \in S : <<x, y>> \in R /\ <<y, z>> \in R => <<x, z>> \in R
    BY <1>1, <1>3 DEF Precedes
  <2>2. \A x \in S : <<x, x>> \notin R
    BY <1>1, <1>3 DEF Precedes
  <2> QED BY <1>2, <2>1, <2>2, MaximalElement
<1>5. ASSUME NEW y \in S \ {x} PROVE Precedes(y, x)
  <2>1. SeasonShow[EpisodeSeason[x]] = s /\ SeasonShow[EpisodeSeason[y]] = s
    BY DEF RegularEpisodes, EpisodesOf, ShowOf
  <2>2. ~Precedes(x, y)
    BY <1>1, <1>4
  <2>3. \/ SeasonNumber[EpisodeSeason[x]] # SeasonNumber[EpisodeSeason[y]]
        \/ EpisodeNumber[x] # EpisodeNumber[y]
    BY <1>0, <2>1, NumberingAssumption, CatalogueAssumption
  <2> QED BY <1>3, <2>2, <2>3 DEF Precedes
<1> QED BY <1>5 DEF Last

----------------------------------------------------------------------------
(* Types of the operators.                                                 *)

StreakRow == [current : Nat, longest : Nat, last : Days \cup {NoDay}]
LogRows   == [Days -> [episodes : Int, minutes : Int]]

LEMMA RecordActivityType ==
  ASSUME NEW k \in StreakRow, NEW today \in Days
  PROVE  RecordActivity(k, today) \in StreakRow
BY DEF RecordActivity, StreakRow, Larger, Days, NoDay

LEMMA RunType ==
  ASSUME NEW active, NEW d \in Days
  PROVE  RunEndingOn(active, d) \in 0..MaxDay
<1> DEFINE B == {b \in 1..d : b..d \subseteq active}
<1>1. IsFiniteSet(1..d) /\ Cardinality(1..d) = d
  BY FS_Interval DEF Days
<1>2. B \in SUBSET (1..d)
  OBVIOUS
<1> HIDE DEF B
<1>3. IsFiniteSet(B) /\ Cardinality(B) <= d
  BY <1>1, <1>2, FS_Subset
<1>4. Cardinality(B) \in Nat
  BY <1>3, FS_CardinalityType
<1> QED BY <1>3, <1>4, DayAssumption DEF RunEndingOn, B, Days

\* The repaired streak is a row like any other.
LEMMA RecomputeType ==
  ASSUME NEW log, NEW now \in Days
  PROVE  Recompute(log, now) \in StreakRow
<1> DEFINE active == ActiveDays(log)
           last   == LastActive(active)
           runs   == {0} \cup {RunEndingOn(active, d) : d \in active}
<1>1. active \subseteq Days
  BY DEF ActiveDays
<1> HIDE DEF active
<1>2. last \in Days \cup {NoDay}
  <2>1. IsFiniteSet(Days) /\ Days \subseteq Nat
    BY FS_Interval, DayAssumption DEF Days
  <2>2. active # {} => MaxOf(active) \in active
    BY <1>1, <2>1, FS_Subset, MaxOfType
  <2> QED BY <1>1, <2>2 DEF LastActive
<1>3. MaxOf(runs) \in Nat
  <2>1. runs \subseteq 0..MaxDay
    BY <1>1, RunType, DayAssumption
  <2>2. IsFiniteSet(0..MaxDay) /\ 0..MaxDay \subseteq Nat
    BY FS_Interval, DayAssumption
  <2>3. IsFiniteSet(runs) /\ runs \subseteq Nat /\ runs # {}
    BY <2>1, <2>2, FS_Subset
  <2> HIDE DEF runs
  <2> QED BY <2>3, MaxOfType
<1>4. last # NoDay => RunEndingOn(active, last) \in Nat
  BY <1>2, RunType DEF NoDay
<1> QED BY <1>2, <1>3, <1>4 DEF Recompute, StreakRow, active

\* The status rules always give a status.
LEMMA ResolveStatusType ==
  ASSUME NEW was \in Statuses, NEW desired \in Statuses \cup {NotInLibrary},
         NEW complete \in BOOLEAN, NEW n \in Nat
  PROVE  /\ ResolveStatus(was, desired, complete, n) \in Statuses
         /\ ResolveStatus(was, desired, complete, n) = "COMPLETED" => complete
BY DEF ResolveStatus, Statuses, NotInLibrary

LEMMA NoEntryIsNoStatus == NotInLibrary \notin Statuses
BY DEF Statuses, NotInLibrary

RowsType == [Episodes -> Days \cup {NotWatched}]

\* What syncProgress writes is an entry, and COMPLETED only on a complete show.
LEMMA SyncProgressType ==
  ASSUME NEW rows, NEW s \in Shows, NEW base,
         base.status \in Statuses, NEW desired \in Statuses \cup {NotInLibrary}
  PROVE  /\ SyncProgress(rows, s, base, desired) \in UserShowRow
         /\ SyncProgress(rows, s, base, desired).status \in Statuses
         /\ SyncProgress(rows, s, base, desired).status = "COMPLETED"
              => IsComplete(rows, s)
<1> DEFINE regular == Watched(rows) \cap RegularEpisodes(s)
           n       == Cardinality(regular)
           status  == ResolveStatus(base.status, desired, IsComplete(rows, s), n)
<1>1. regular \in SUBSET Episodes /\ IsFiniteSet(regular) /\ n \in Nat
  BY CatalogueAssumption, FS_Subset, FS_CardinalityType DEF Watched
<1>2. status \in Statuses /\ (status = "COMPLETED" => IsComplete(rows, s))
  <2>1. IsComplete(rows, s) \in BOOLEAN
    BY DEF IsComplete
  <2> QED BY <1>1, <2>1, ResolveStatusType
<1>3. Cardinality(CompletedSeasons(rows, s)) \in Nat
  <2>1. CompletedSeasons(rows, s) \in SUBSET Seasons
    BY DEF CompletedSeasons
  <2> QED BY <2>1, CatalogueAssumption, FS_Subset, FS_CardinalityType
<1>4. Minutes[Watched(rows) \cap EpisodesOf(s)] \in Nat
  BY MinutesType DEF Watched
<1>5. regular # {} => Last(regular) \in Episodes
  BY <1>1, LastType
<1> HIDE DEF regular, n, status
<1>6. SyncProgress(rows, s, base, desired)
        = [status |-> status, episodes |-> n,
           minutes |-> Minutes[Watched(rows) \cap EpisodesOf(s)],
           seasons |-> Cardinality(CompletedSeasons(rows, s)),
           position |-> IF regular = {} THEN NoEpisode ELSE Last(regular)]
  BY DEF SyncProgress, status, n, regular
<1> QED BY <1>1, <1>2, <1>3, <1>4, <1>5, <1>6 DEF UserShowRow

----------------------------------------------------------------------------
(* Sums over finite sets, in any order.                                    *)

\* The recursion by which SumFunction adds up the values of f over subsets of S.
Adds(f, S, sum) ==
  sum = [s \in SUBSET S |-> IF s = {} THEN 0
                            ELSE LET x == CHOOSE x \in s : TRUE IN f[x] + sum[s \ {x}]]

\* What adds up f in any order.
Additive(f, S, g) ==
  /\ g \in [SUBSET S -> Int]
  /\ g[{}] = 0
  /\ \A A \in SUBSET S : \A x \in A : g[A] = f[x] + g[A \ {x}]

\* A sum is the last value of its recursion.
LEMMA SumIsLast ==
  ASSUME NEW f
  PROVE  SumFunction(f) = (CHOOSE sum : Adds(f, DOMAIN f, sum))[DOMAIN f]
BY DEF SumFunction, SumFunctionOnSet, FoldFunctionOnSet, MapThenFoldSet, Adds

\* What holds of a subset of a finite set once it holds of the smaller ones holds of all.
LEMMA SubsetInduction ==
  ASSUME NEW S, IsFiniteSet(S), NEW Q,
         \A A \in SUBSET S : (\A B \in SUBSET A : B # A => B \in Q) => A \in Q
  PROVE  \A A \in SUBSET S : A \in Q
<1> SUFFICES ASSUME NEW A0 \in SUBSET S, A0 \notin Q PROVE FALSE
  OBVIOUS
<1> DEFINE bad == {A \in SUBSET S : A \notin Q}
<1>1. FiniteSubsetsOf(S) = SUBSET S
  BY FS_FiniteSubsetsOfFinite
<1>2. IsWellFoundedOn(StrictSubsetOrdering(S), FiniteSubsetsOf(S))
  BY FS_StrictSubsetOrderingWellFounded
<1>3. bad \subseteq FiniteSubsetsOf(S) /\ bad # {}
  BY <1>1
<1>4. PICK A \in bad : \A B \in bad : <<B, A>> \notin StrictSubsetOrdering(S)
  <2> HIDE DEF bad
  <2> QED BY <1>2, <1>3, WFMin
<1>5. ASSUME NEW B \in SUBSET A, B # A PROVE B \in Q
  <2>1. <<B, A>> \in StrictSubsetOrdering(S)
    BY <1>5 DEF StrictSubsetOrdering
  <2> QED BY <1>4, <2>1
<1> QED BY <1>4, <1>5

\* Over a finite set a function into the integers can be added up in any order.
LEMMA AdditiveExists ==
  ASSUME NEW S, IsFiniteSet(S), NEW f, \A x \in S : f[x] \in Int
  PROVE  \E g : Additive(f, S, g)
<1> DEFINE Q == {A \in SUBSET S : \E g : Additive(f, A, g)}
<1>1. ASSUME NEW A \in SUBSET S, \A B \in SUBSET A : B # A => B \in Q
      PROVE  \E g : Additive(f, A, g)
  <2>1. CASE A = {}
    <3> DEFINE g == [B \in SUBSET A |-> 0]
    <3>1. Additive(f, A, g)
      BY <2>1 DEF Additive
    <3> QED BY <3>1
  <2>2. CASE A # {}
    <3>1. PICK a : a \in A
      BY <2>2
    <3> DEFINE B == A \ {a}
    <3>2. PICK h : Additive(f, B, h)
      BY <1>1, <3>1
    <3>3. /\ f[a] \in Int /\ h \in [SUBSET B -> Int] /\ h[{}] = 0
          /\ \A C \in SUBSET B : \A x \in C : h[C] = f[x] + h[C \ {x}]
      BY <3>1, <3>2 DEF Additive
    <3> DEFINE g == [C \in SUBSET A |-> IF a \in C THEN f[a] + h[C \ {a}] ELSE h[C]]
    <3>4. g \in [SUBSET A -> Int] /\ g[{}] = 0
      <4>1. ASSUME NEW C \in SUBSET A
            PROVE  (IF a \in C THEN f[a] + h[C \ {a}] ELSE h[C]) \in Int
        <5>1. C \ {a} \in SUBSET B /\ (a \notin C => C \in SUBSET B)
          OBVIOUS
        <5> HIDE DEF B
        <5> QED BY <5>1, <3>3
      <4> HIDE DEF B
      <4> QED BY <4>1, <3>3
    <3>5. ASSUME NEW C \in SUBSET A, NEW x \in C PROVE g[C] = f[x] + g[C \ {x}]
      <4>1. /\ C \ {x} \in SUBSET A /\ C \ {a} \in SUBSET B
            /\ (C \ {a}) \ {x} = (C \ {x}) \ {a} /\ (C \ {x}) \ {a} \in SUBSET B
            /\ (a \notin C => C \in SUBSET B) /\ f[x] \in Int
        OBVIOUS
      <4>2. /\ g[C] = IF a \in C THEN f[a] + h[C \ {a}] ELSE h[C]
            /\ g[C \ {x}] = IF a \in C \ {x} THEN f[a] + h[(C \ {x}) \ {a}] ELSE h[C \ {x}]
        BY <4>1
      <4> HIDE DEF B, g
      <4>3. CASE x = a
        BY <4>2, <4>3
      <4>4. CASE x # a /\ a \in C
        <5>1. h[C \ {a}] = f[x] + h[(C \ {x}) \ {a}] /\ h[(C \ {x}) \ {a}] \in Int
          <6>1. x \in C \ {a}
            BY <4>4
          <6>2. h[C \ {a}] = f[x] + h[(C \ {a}) \ {x}]
            BY <6>1, <4>1, <3>3
          <6>3. h[(C \ {x}) \ {a}] \in Int
            BY <4>1, <3>3
          <6> QED BY <6>2, <6>3, <4>1
        <5>2. g[C] = f[a] + h[C \ {a}] /\ g[C \ {x}] = f[a] + h[(C \ {x}) \ {a}]
          BY <4>2, <4>4
        <5> QED BY <5>1, <5>2, <4>1, <3>3
      <4>5. CASE a \notin C
        <5>1. h[C] = f[x] + h[C \ {x}]
          BY <4>1, <4>5, <3>3
        <5>2. g[C] = h[C] /\ g[C \ {x}] = h[C \ {x}]
          BY <4>2, <4>5
        <5> QED BY <5>1, <5>2
      <4> QED BY <4>3, <4>4, <4>5
    <3> HIDE DEF g
    <3>6. Additive(f, A, g)
      BY <3>4, <3>5 DEF Additive
    <3> QED BY <3>6
  <2> QED BY <2>1, <2>2
<1>2. \A A \in SUBSET S : A \in Q
  <2>1. \A A \in SUBSET S : (\A B \in SUBSET A : B # A => B \in Q) => A \in Q
    BY <1>1
  <2> HIDE DEF Q
  <2> QED BY <2>1, SubsetInduction
<1> QED BY <1>2

\* What adds up two functions agrees wherever the functions do.
LEMMA AdditiveAgree ==
  ASSUME NEW S, IsFiniteSet(S), NEW T \in SUBSET S,
         NEW f, NEW g, Additive(f, S, g), NEW k, NEW h, Additive(k, S, h),
         \A x \in T : f[x] = k[x]
  PROVE  g[T] = h[T]
<1> DEFINE Q == {A \in SUBSET T : g[A] = h[A]}
<1>1. IsFiniteSet(T)
  BY FS_Subset
<1>2. ASSUME NEW A \in SUBSET T, \A B \in SUBSET A : B # A => B \in Q PROVE g[A] = h[A]
  <2>1. CASE A = {}
    BY <2>1 DEF Additive
  <2>2. CASE A # {}
    <3>1. PICK x : x \in A
      BY <2>2
    <3>2. g[A] = f[x] + g[A \ {x}] /\ h[A] = k[x] + h[A \ {x}] /\ f[x] = k[x]
      BY <3>1 DEF Additive
    <3>3. g[A \ {x}] = h[A \ {x}]
      BY <1>2, <3>1
    <3> QED BY <3>2, <3>3
  <2> QED BY <2>1, <2>2
<1>3. \A A \in SUBSET T : A \in Q
  <2>1. \A A \in SUBSET T : (\A B \in SUBSET A : B # A => B \in Q) => A \in Q
    BY <1>2
  <2> HIDE DEF Q
  <2> QED BY <1>1, <2>1, SubsetInduction
<1> QED BY <1>3

\* The fold is one way of adding up.
LEMMA SumIsAdditive ==
  ASSUME NEW S, IsFiniteSet(S), NEW f \in [S -> Int], NEW g, Additive(f, S, g)
  PROVE  SumFunction(f) = g[S]
<1> DEFINE sum == CHOOSE sum : Adds(f, S, sum)
<1>1. Adds(f, S, g)
  <2>1. ASSUME NEW s \in SUBSET S
        PROVE  g[s] = IF s = {} THEN 0
                      ELSE LET x == CHOOSE x \in s : TRUE IN f[x] + g[s \ {x}]
    <3>1. CASE s = {}
      BY <3>1 DEF Additive
    <3>2. CASE s # {}
      <4> DEFINE x == CHOOSE x \in s : TRUE
      <4>1. x \in s
        BY <3>2
      <4> HIDE DEF x
      <4>2. g[s] = f[x] + g[s \ {x}]
        BY <4>1 DEF Additive
      <4> QED BY <3>2, <4>2 DEF x
    <3> QED BY <3>1, <3>2
  <2>2. g = [s \in SUBSET S |-> g[s]]
    BY DEF Additive
  <2>3. g = [s \in SUBSET S |-> IF s = {} THEN 0
                                ELSE LET x == CHOOSE x \in s : TRUE IN f[x] + g[s \ {x}]]
    BY <2>1, <2>2
  <2> QED BY <2>3 DEF Adds
<1>2. Adds(f, S, sum)
  BY <1>1
<1> DEFINE Q == {A \in SUBSET S : sum[A] = g[A]}
<1> HIDE DEF sum
<1>3. ASSUME NEW A \in SUBSET S, \A B \in SUBSET A : B # A => B \in Q PROVE sum[A] = g[A]
  <2>1. /\ sum[A] = IF A = {} THEN 0 ELSE LET x == CHOOSE x \in A : TRUE IN f[x] + sum[A \ {x}]
        /\ g[A] = IF A = {} THEN 0 ELSE LET x == CHOOSE x \in A : TRUE IN f[x] + g[A \ {x}]
    BY <1>1, <1>2 DEF Adds
  <2>2. CASE A = {}
    BY <2>1, <2>2
  <2>3. CASE A # {}
    <3> DEFINE x == CHOOSE x \in A : TRUE
    <3>1. x \in A
      BY <2>3
    <3>2. sum[A] = f[x] + sum[A \ {x}] /\ g[A] = f[x] + g[A \ {x}]
      BY <2>1, <2>3
    <3> HIDE DEF x
    <3>3. sum[A \ {x}] = g[A \ {x}]
      BY <1>3, <3>1
    <3> QED BY <3>2, <3>3
  <2> QED BY <2>2, <2>3
<1>4. S \in Q
  <2>1. \A A \in SUBSET S : (\A B \in SUBSET A : B # A => B \in Q) => A \in Q
    BY <1>3
  <2> HIDE DEF Q
  <2> QED BY <2>1, SubsetInduction
<1>5. SumFunction(f) = sum[S]
  BY SumIsLast DEF sum
<1> QED BY <1>4, <1>5

\* One value changed moves the sum by the difference.
LEMMA SumMoves ==
  ASSUME NEW S, IsFiniteSet(S), NEW f \in [S -> Int], NEW k \in [S -> Int],
         NEW x \in S, \A y \in S \ {x} : f[y] = k[y]
  PROVE  SumFunction(f) \in Int /\ SumFunction(k) = SumFunction(f) - f[x] + k[x]
<1>1. PICK g : Additive(f, S, g)
  BY AdditiveExists
<1>2. PICK h : Additive(k, S, h)
  BY AdditiveExists
<1>3. g[S \ {x}] = h[S \ {x}] /\ S \ {x} \in SUBSET S
  BY <1>1, <1>2, AdditiveAgree
<1>4. SumFunction(f) = g[S] /\ SumFunction(k) = h[S]
  BY <1>1, <1>2, SumIsAdditive
<1>5. /\ g[S] = f[x] + g[S \ {x}] /\ h[S] = k[x] + h[S \ {x}]
      /\ g[S] \in Int /\ g[S \ {x}] \in Int /\ f[x] \in Int /\ k[x] \in Int
  BY <1>1, <1>2 DEF Additive
<1> QED BY <1>3, <1>4, <1>5

\* A sum of integers is an integer.
LEMMA SumIsInt ==
  ASSUME NEW S, IsFiniteSet(S), NEW f \in [S -> Int]
  PROVE  SumFunction(f) \in Int
<1>1. PICK g : Additive(f, S, g)
  BY AdditiveExists
<1>2. SumFunction(f) = g[S] /\ S \in SUBSET S
  BY <1>1, SumIsAdditive
<1> QED BY <1>1, <1>2 DEF Additive

\* Nothing but zeros adds up to zero.
LEMMA SumOfZeros ==
  ASSUME NEW S, IsFiniteSet(S), NEW f \in [S -> Int], \A x \in S : f[x] = 0
  PROVE  SumFunction(f) = 0
<1> DEFINE g == [A \in SUBSET S |-> 0]
<1>1. Additive(f, S, g)
  BY DEF Additive
<1> QED BY <1>1, SumIsAdditive

----------------------------------------------------------------------------
(* Type correctness.                                                       *)

TypeInv == TypeOK /\ LedgerAgrees

LEMMA ReconcileType ==
  ASSUME TypeOK, NEW s \in Shows, NEW from, NEW to,
         ReconcileStatusCounters(s, from, to)
  PROVE  statusCount' \in [Statuses -> Int] /\ typeCompleted' \in [Types -> Int]
<1>1. ShowType[s] \in Types
  BY CatalogueAssumption
<1> QED BY <1>1 DEF TypeOK, ReconcileStatusCounters

LEMMA RewardsType ==
  ASSUME TypeInv, NEW s \in Shows, NEW rows, NEW was, NEW now,
         was.seasons \in Int, now.seasons \in Int,
         NEW fresh \in SUBSET Episodes, NEW minutes \in Nat,
         ApplyRewards(s, rows, was, now, fresh, minutes)
  PROVE  /\ dailyLog' \in LogRows
         /\ streak' \in StreakRow
         /\ statStreak' \in [current : Nat, longest : Nat]
         /\ volume' \in [episodes : Int, minutes : Int, seasons : Int]
         /\ AccountOK(account')
         /\ showCompleted' \in BOOLEAN
<1> DEFINE count == Cardinality(fresh)
<1>1. count \in Nat
  BY CatalogueAssumption, FS_Subset, FS_CardinalityType
<1>2. AccountOK(account')
  BY RewardsGrow DEF TypeInv, TypeOK, LedgerInv, Grown
<1>3. streak \in StreakRow /\ day \in Days /\ dailyLog \in LogRows
  BY DEF TypeInv, TypeOK, StreakRow, LogRows
<1>4. RecordActivity(streak, day) \in StreakRow
  BY <1>3, RecordActivityType
<1> HIDE DEF count
<1>5. LogActivity(count, minutes) \in LogRows
  BY <1>1, <1>3 DEF LogActivity, LogRows
<1>6. dailyLog' \in LogRows /\ streak' \in StreakRow
  BY <1>3, <1>4, <1>5 DEF ApplyRewards, count
<1>7. statStreak' \in [current : Nat, longest : Nat]
  <2>1. statStreak \in [current : Nat, longest : Nat]
    BY DEF TypeInv, TypeOK
  <2>2. statStreak' \in {statStreak,
          [current |-> RecordActivity(streak, day).current,
           longest |-> RecordActivity(streak, day).longest]}
    BY DEF ApplyRewards
  <2> QED BY <1>4, <2>1, <2>2 DEF StreakRow
<1>8. volume' \in [episodes : Int, minutes : Int, seasons : Int]
  BY <1>1 DEF ApplyRewards, TypeInv, TypeOK, count
<1>9. showCompleted' \in BOOLEAN
  BY DEF ApplyRewards, JustCompleted
<1> QED BY <1>2, <1>6, <1>7, <1>8, <1>9

LEMMA MarkType ==
  ASSUME TypeInv, SomeMark
  PROVE  TypeOK'
<1>1. PICK s \in Shows, eps \in SUBSET Episodes, minutes \in Nat : Mark(s, eps, minutes)
  BY CatalogueTypes DEF SomeMark
<1> DEFINE base == EnsureUserShow(s)
           now  == SyncProgress(Insert(eps), s, base, NotInLibrary)
<1>2. base.status \in Statuses /\ base.seasons \in Nat
  <2>1. userShow[s] \in UserShowRow
    BY DEF TypeInv, TypeOK
  <2> QED BY <2>1 DEF EnsureUserShow, InLibrary, UserShowRow, Absent, Statuses, NotInLibrary
<1>3. now \in UserShowRow
  BY <1>2, SyncProgressType
<1>4. watchedOn' \in RowsType
  BY <1>1 DEF Mark, Insert, TypeInv, TypeOK, RowsType
<1>5. userShow' \in [Shows -> UserShowRow]
  <2>1. userShow' = [userShow EXCEPT ![s] = now]
    BY <1>1 DEF Mark
  <2> HIDE DEF now
  <2> QED BY <1>3, <2>1 DEF TypeInv, TypeOK
<1>6. memberCount' \in [Shows -> Int]
  BY <1>1 DEF Mark, CountMember, TypeInv, TypeOK
<1>7. statusCount' \in [Statuses -> Int] /\ typeCompleted' \in [Types -> Int]
  BY <1>1, ReconcileType DEF Mark, TypeInv
<1>8. day' \in Days
  BY <1>1 DEF Mark, TypeInv, TypeOK
<1>9. /\ dailyLog' \in LogRows /\ streak' \in StreakRow
      /\ statStreak' \in [current : Nat, longest : Nat]
      /\ volume' \in [episodes : Int, minutes : Int, seasons : Int]
      /\ AccountOK(account') /\ showCompleted' \in BOOLEAN
  <2>1. now.seasons \in Int /\ base.seasons \in Int
    BY <1>2, <1>3 DEF UserShowRow
  <2>2. Unwatched(eps) \in SUBSET Episodes
    BY DEF Unwatched
  <2>3. ApplyRewards(s, Insert(eps), base, now, Unwatched(eps), minutes)
    BY <1>1 DEF Mark
  <2> HIDE DEF now, base
  <2> QED BY <2>1, <2>2, <2>3, RewardsType
<1> QED BY <1>4, <1>5, <1>6, <1>7, <1>8, <1>9 DEF TypeOK, LogRows, StreakRow, RowsType

LEMMA AddType ==
  ASSUME TypeInv, SomeAdd
  PROVE  TypeOK'
<1>1. PICK s \in Shows, eps \in SUBSET Episodes, status \in Statuses :
        AddToLibrary(s, status, eps)
  BY CatalogueTypes, InputAssumption DEF SomeAdd
<1> DEFINE base == IF InLibrary(s) THEN [userShow[s] EXCEPT !.status = status]
                   ELSE [Absent EXCEPT !.status = status]
           rows == Insert(IF status = "COMPLETED" THEN RegularEpisodes(s) ELSE eps)
           now  == SyncProgress(rows, s, base, status)
<1>2. base.status \in Statuses /\ base.seasons \in Nat
  <2>1. userShow[s] \in UserShowRow
    BY DEF TypeInv, TypeOK
  <2> QED BY <2>1 DEF UserShowRow, Absent
<1>3. now \in UserShowRow
  BY <1>2, SyncProgressType
<1>4. watchedOn' \in RowsType
  BY <1>1 DEF AddToLibrary, Insert, TypeInv, TypeOK, RowsType
<1>5. userShow' \in [Shows -> UserShowRow]
  <2>1. userShow' = [userShow EXCEPT ![s] = now]
    BY <1>1 DEF AddToLibrary
  <2> HIDE DEF now
  <2> QED BY <1>3, <2>1 DEF TypeInv, TypeOK
<1>6. memberCount' \in [Shows -> Int]
  BY <1>1 DEF AddToLibrary, CountMember, TypeInv, TypeOK
<1>7. statusCount' \in [Statuses -> Int] /\ typeCompleted' \in [Types -> Int]
  BY <1>1, ReconcileType DEF AddToLibrary, TypeInv
<1>8. day' \in Days
  BY <1>1 DEF AddToLibrary, TypeInv, TypeOK
<1>9. /\ dailyLog' \in LogRows /\ streak' \in StreakRow
      /\ statStreak' \in [current : Nat, longest : Nat]
      /\ volume' \in [episodes : Int, minutes : Int, seasons : Int]
      /\ AccountOK(account') /\ showCompleted' \in BOOLEAN
  <2>1. now.seasons \in Int /\ base.seasons \in Int
    BY <1>2, <1>3 DEF UserShowRow
  <2>2. ApplyRewards(s, rows, base, now, {}, 0)
    BY <1>1 DEF AddToLibrary
  <2> HIDE DEF now, base, rows
  <2> QED BY <2>1, <2>2, RewardsType
<1> QED BY <1>4, <1>5, <1>6, <1>7, <1>8, <1>9 DEF TypeOK, LogRows, StreakRow, RowsType

LEMMA UnmarkType ==
  ASSUME TypeInv, NEW e \in Episodes, UnmarkEpisodeWatched(e)
  PROVE  TypeOK'
<1> DEFINE s   == ShowOf(e)
           now == SyncProgress([watchedOn EXCEPT ![e] = NotWatched], s, userShow[s], NotInLibrary)
<1>1. s \in Shows
  BY CatalogueTypes
<1>2. userShow[s] \in UserShowRow /\ userShow[s].status \in Statuses
  BY <1>1 DEF TypeInv, TypeOK, UserShowRow, UnmarkEpisodeWatched, InLibrary
<1>3. now \in UserShowRow
  BY <1>1, <1>2, SyncProgressType
<1>4. Minutes[{e}] \in Nat
  BY MinutesType
<1>5. watchedOn[e] \in Days
  BY DEF UnmarkEpisodeWatched, TypeInv, TypeOK
<1>6. /\ watchedOn' = [watchedOn EXCEPT ![e] = NotWatched]
      /\ userShow' = [userShow EXCEPT ![s] = now]
      /\ volume' = [episodes |-> volume.episodes - 1,
                    minutes  |-> volume.minutes - Minutes[{e}],
                    seasons  |-> volume.seasons + now.seasons - userShow[s].seasons]
      /\ ReconcileStatusCounters(s, userShow[s].status, now.status)
      /\ showCompleted' \in BOOLEAN
      /\ UNCHANGED <<day, memberCount, statStreak, account, streak>>
  BY DEF UnmarkEpisodeWatched
<1>7. dailyLog' \in LogRows
  BY <1>4, <1>5 DEF UnmarkEpisodeWatched, TypeInv, TypeOK, LogRows
<1> HIDE DEF now, s
<1>8. statusCount' \in [Statuses -> Int] /\ typeCompleted' \in [Types -> Int]
  BY <1>1, <1>6, ReconcileType DEF TypeInv
<1>9. watchedOn' \in RowsType /\ userShow' \in [Shows -> UserShowRow]
  BY <1>3, <1>6 DEF TypeInv, TypeOK, RowsType
<1>10. volume' \in [episodes : Int, minutes : Int, seasons : Int]
  BY <1>2, <1>3, <1>4, <1>6 DEF TypeInv, TypeOK, UserShowRow
<1> QED BY <1>6, <1>7, <1>8, <1>9, <1>10 DEF TypeInv, TypeOK, LogRows, RowsType

LEMMA RemoveType ==
  ASSUME TypeInv, NEW s \in Shows, RemoveFromLibrary(s)
  PROVE  TypeOK'
<1>1. userShow[s] \in UserShowRow
  BY DEF TypeInv, TypeOK
<1>2. Recompute(dailyLog, day) \in StreakRow
  BY RecomputeType DEF TypeInv, TypeOK
<1>3. streak' \in StreakRow /\ statStreak' \in [current : Nat, longest : Nat]
  BY <1>2 DEF RemoveFromLibrary, StreakRow
<1>4. statusCount' \in [Statuses -> Int] /\ typeCompleted' \in [Types -> Int]
  BY ReconcileType DEF TypeInv, RemoveFromLibrary
<1>5. Absent \in UserShowRow
  BY DEF Absent, UserShowRow
<1>6. watchedOn' \in RowsType /\ userShow' \in [Shows -> UserShowRow]
  BY <1>5 DEF RemoveFromLibrary, TypeInv, TypeOK, RowsType
<1>7. memberCount' \in [Shows -> Int]
  BY DEF RemoveFromLibrary, TypeInv, TypeOK
<1>8. volume' \in [episodes : Int, minutes : Int, seasons : Int]
  BY <1>1 DEF RemoveFromLibrary, TypeInv, TypeOK, UserShowRow
<1>9. showCompleted' \in BOOLEAN /\ UNCHANGED <<day, account, dailyLog>>
  BY DEF RemoveFromLibrary
<1> QED BY <1>3, <1>4, <1>6, <1>7, <1>8, <1>9 DEF TypeInv, TypeOK, RowsType, StreakRow

LEMMA TypeInit == Init => TypeInv
<1> SUFFICES ASSUME Init PROVE TypeInv
  OBVIOUS
<1>1. AccountOK(account) /\ LedgerAgrees /\ day \in Days
  BY LedgerInit DEF LedgerInv
<1>2. watchedOn \in RowsType /\ userShow \in [Shows -> UserShowRow]
  BY DEF Init, RowsType, UserShowRow, Absent
<1>3. /\ memberCount \in [Shows -> Int] /\ statusCount \in [Statuses -> Int]
      /\ typeCompleted \in [Types -> Int]
  BY DEF Init
<1>4. /\ volume \in [episodes : Int, minutes : Int, seasons : Int]
      /\ statStreak \in [current : Nat, longest : Nat]
      /\ dailyLog \in LogRows /\ streak \in StreakRow /\ showCompleted \in BOOLEAN
  <2>1. dailyLog \in LogRows
    BY DEF Init, LogRows
  <2>2. streak \in StreakRow
    BY DEF Init, StreakRow, NewStreak
  <2>3. volume \in [episodes : Int, minutes : Int, seasons : Int]
    BY DEF Init
  <2>4. statStreak \in [current : Nat, longest : Nat]
    BY DEF Init
  <2>5. showCompleted \in BOOLEAN
    BY DEF Init
  <2> QED BY <2>1, <2>2, <2>3, <2>4, <2>5
<1> QED BY <1>1, <1>2, <1>3, <1>4 DEF TypeInv, TypeOK, LogRows, StreakRow, RowsType

\* The rows the seed leaves are dated, its log rebuilt from them.
LEMMA SeedTypes ==
  ASSUME SeedInit
  PROVE  /\ day \in Days /\ watchedOn \in RowsType /\ dailyLog \in LogRows
         /\ \A d \in ActiveDays(dailyLog) : d <= day
<1>1. PICK seen, on :
        /\ on \in [seen -> 1..SeedDay]
        /\ watchedOn = [e \in Episodes |-> IF e \in seen THEN on[e] ELSE NotWatched]
        /\ day = SeedDay
        /\ dailyLog = RebuiltLogs(watchedOn)
  BY DEF SeedInit
<1>2. day \in Days /\ 1..SeedDay \subseteq Days
  BY <1>1, SeedAssumption, DayAssumption DEF Days
<1>3. watchedOn \in RowsType
  BY <1>1, <1>2 DEF RowsType
<1>4. dailyLog \in LogRows
  <2>1. ASSUME NEW d \in Days
        PROVE  /\ Cardinality({e \in Episodes : watchedOn[e] = d}) \in Nat
               /\ Minutes[{e \in Episodes : watchedOn[e] = d}] \in Nat
    <3>1. {e \in Episodes : watchedOn[e] = d} \in SUBSET Episodes
      OBVIOUS
    <3> QED BY <3>1, CatalogueAssumption, FS_Subset, FS_CardinalityType, MinutesType
  <2>2. dailyLog = [d \in Days |->
                      [episodes |-> Cardinality({e \in Episodes : watchedOn[e] = d}),
                       minutes  |-> Minutes[{e \in Episodes : watchedOn[e] = d}]]]
    BY <1>1 DEF RebuiltLogs
  <2>3. ASSUME NEW d \in Days PROVE dailyLog[d] \in [episodes : Int, minutes : Int]
    BY <2>1, <2>2
  <2> QED BY <2>2, <2>3 DEF LogRows
<1>5. ASSUME NEW d \in ActiveDays(dailyLog) PROVE d <= day
  <2>1. d \in Days /\ Cardinality({e \in Episodes : watchedOn[e] = d}) > 0
    BY <1>1 DEF ActiveDays, RebuiltLogs
  <2>2. PICK e \in Episodes : watchedOn[e] = d
    BY <2>1, FS_EmptySet
  <2>3. watchedOn[e] \in 1..SeedDay
    BY <1>1, <2>1, <2>2 DEF Days, NotWatched, NoDay
  <2> QED BY <1>1, <2>2, <2>3
<1> QED BY <1>2, <1>3, <1>4, <1>5

\* What recompute writes into user_stats are numbers.
LEMMA RecomputedTypes ==
  ASSUME userShow \in [Shows -> UserShowRow]
  PROVE  /\ RecomputedStatusCount \in [Statuses -> Int]
         /\ RecomputedTypeCompleted \in [Types -> Int]
         /\ RecomputedVolume \in [episodes : Int, minutes : Int, seasons : Int]
<1>1. \A A \in SUBSET Shows : Cardinality(A) \in Int
  BY CatalogueAssumption, FS_Subset, FS_CardinalityType
<1>2. \A s \in Shows : /\ userShow[s].episodes \in Int /\ userShow[s].minutes \in Int
                       /\ userShow[s].seasons \in Int
  BY DEF UserShowRow
<1>3. /\ SumFunction([s \in Shows |-> userShow[s].episodes]) \in Int
      /\ SumFunction([s \in Shows |-> userShow[s].minutes]) \in Int
      /\ SumFunction([s \in Shows |-> userShow[s].seasons]) \in Int
  <2>1. /\ [s \in Shows |-> userShow[s].episodes] \in [Shows -> Int]
        /\ [s \in Shows |-> userShow[s].minutes] \in [Shows -> Int]
        /\ [s \in Shows |-> userShow[s].seasons] \in [Shows -> Int]
    BY <1>2
  <2> QED BY <2>1, CatalogueAssumption, SumIsInt
<1>4. RecomputedVolume \in [episodes : Int, minutes : Int, seasons : Int]
  BY <1>3 DEF RecomputedVolume
<1> QED BY <1>1, <1>4 DEF RecomputedStatusCount, RecomputedTypeCompleted

\* So does what the recompute writes.
LEMMA RepairType ==
  ASSUME TypeInv, RecomputeStats
  PROVE  TypeOK'
<1>1. userShow \in [Shows -> UserShowRow] /\ streak \in StreakRow /\ AccountOK(account)
      /\ Balanced(account)
  BY DEF TypeInv, TypeOK, StreakRow, LedgerAgrees, Balanced
<1>2. account' = account
  BY <1>1 DEF RecomputeStats, Balanced, AccountOK
<1>3. statStreak' \in [current : Nat, longest : Nat] /\ showCompleted' \in BOOLEAN
  BY <1>1 DEF RecomputeStats, StreakRow
<1>4. /\ statusCount' \in [Statuses -> Int] /\ typeCompleted' \in [Types -> Int]
      /\ volume' \in [episodes : Int, minutes : Int, seasons : Int]
      /\ UNCHANGED <<day, watchedOn, userShow, memberCount, dailyLog, streak>>
  BY <1>1, RecomputedTypes DEF RecomputeStats
<1> QED BY <1>1, <1>2, <1>3, <1>4 DEF TypeInv, TypeOK

\* What the script's SQL writes is an entry.
LEMMA RecomputedProgressType ==
  ASSUME NEW rows, NEW s \in Shows, NEW status \in Statuses,
         \A e \in Episodes : rows[e] # NotWatched => IsRegular(e)
  PROVE  RecomputedProgress(rows, s, status) \in UserShowRow
<1> DEFINE seen == Watched(rows) \cap EpisodesOf(s)
           full == {n \in Seasons : /\ SeasonShow[n] = s /\ SeasonNumber[n] > 0
                                    /\ EpisodeCount[n] > 0
                                    /\ Cardinality(seen \cap SeasonEpisodes(n)) >= EpisodeCount[n]}
<1>1. seen \in SUBSET Episodes /\ seen \in SUBSET RegularEpisodes(s)
  BY DEF Watched, RegularEpisodes
<1>2. Cardinality({e \in seen : IsRegular(e)}) \in Nat
  <2>1. {e \in seen : IsRegular(e)} \in SUBSET Episodes
    BY <1>1
  <2> QED BY <2>1, CatalogueAssumption, FS_Subset, FS_CardinalityType
<1>3. Cardinality(full) \in Nat
  <2>1. full \in SUBSET Seasons
    OBVIOUS
  <2> QED BY <2>1, CatalogueAssumption, FS_Subset, FS_CardinalityType
<1>4. Minutes[seen] \in Nat
  BY <1>1, MinutesType
<1>5. seen # {} => Last(seen) \in Episodes
  BY <1>1, LastType
<1>6. RecomputedProgress(rows, s, status)
        = [status |-> status, episodes |-> Cardinality({e \in seen : IsRegular(e)}),
           minutes |-> Minutes[seen], seasons |-> Cardinality(full),
           position |-> IF seen = {} THEN NoEpisode ELSE Last(seen)]
  BY DEF RecomputedProgress
<1> HIDE DEF seen, full
<1> QED BY <1>2, <1>3, <1>4, <1>5, <1>6 DEF UserShowRow

\* The seeded database has the types, too.
LEMMA TypeSeeded == SeedInit => TypeInv
<1> SUFFICES ASSUME SeedInit PROVE TypeInv
  OBVIOUS
<1>0. PICK library \in SUBSET Shows : \E status \in [library -> Statuses] : \E paid :
        SeededLibrary(library, status) /\ Finalised(paid) /\ showCompleted = FALSE
  BY SeedFacts
<1>1. PICK status \in [library -> Statuses] : \E paid :
        SeededLibrary(library, status) /\ Finalised(paid) /\ showCompleted = FALSE
  BY <1>0
<1>2. PICK paid : SeededLibrary(library, status) /\ Finalised(paid) /\ showCompleted = FALSE
  BY <1>1
<1>3. userShow \in [Shows -> UserShowRow]
  <2>1. \A s \in library : RecomputedProgress(watchedOn, s, status[s]) \in UserShowRow
    BY <1>2, RecomputedProgressType DEF SeededLibrary
  <2>2. Absent \in UserShowRow
    BY DEF Absent, UserShowRow
  <2> QED BY <1>2, <2>1, <2>2 DEF SeededLibrary
<1>4. day \in Days /\ watchedOn \in RowsType /\ dailyLog \in LogRows
  BY SeedTypes
<1>5. streak \in StreakRow /\ statStreak \in [current : Nat, longest : Nat]
  <2>1. streak \in StreakRow
    BY <1>2, <1>4, RecomputeType DEF Finalised
  <2> QED BY <1>2, <2>1 DEF Finalised, StreakRow
<1>6. /\ statusCount \in [Statuses -> Int] /\ typeCompleted \in [Types -> Int]
      /\ volume \in [episodes : Int, minutes : Int, seasons : Int]
  BY <1>2, <1>3, RecomputedTypes DEF Finalised
<1>7. AccountOK(account) /\ LedgerAgrees
  BY LedgerSeeded DEF LedgerInv
<1>8. memberCount \in [Shows -> Int] /\ showCompleted \in BOOLEAN
  <2>1. memberCount = [s \in Shows |-> IF s \in library THEN 1 ELSE 0] /\ showCompleted = FALSE
    BY <1>2 DEF SeededLibrary
  <2>2. \A s \in Shows : (IF s \in library THEN 1 ELSE 0) \in Int
    OBVIOUS
  <2> QED BY <2>1, <2>2, Zenon
<1> QED BY <1>3, <1>4, <1>5, <1>6, <1>7, <1>8 DEF TypeInv, TypeOK, LogRows, StreakRow, RowsType

LEMMA TypeStep == TypeInv /\ [Next \/ RecomputeStats]_vars => TypeInv'
<1>1. ASSUME TypeInv, Next PROVE TypeOK'
  <2>1. ASSUME NextDay PROVE TypeOK'
    <3>1. day' \in Days
      BY <1>1, <2>1, DayAssumption DEF NextDay, TypeInv, TypeOK, Days
    <3> QED BY <1>1, <2>1, <3>1 DEF NextDay, TypeInv, TypeOK
  <2> QED BY <1>1, <2>1, NextCases, MarkType, AddType, UnmarkType, RemoveType
<1>2. ASSUME TypeInv, [Next \/ RecomputeStats]_vars PROVE LedgerAgrees'
  <2>1. LedgerInv
    BY <1>2 DEF LedgerInv, TypeInv, TypeOK
  <2> QED BY <1>2, <2>1, LedgerStep DEF LedgerInv
<1>3. ASSUME TypeInv, UNCHANGED vars PROVE TypeOK'
  BY <1>3 DEF vars, TypeInv, TypeOK
<1> QED BY <1>1, <1>2, <1>3, RepairType DEF TypeInv

\* Every counter, cache and log row keeps its column's type, the account's
\* level stays on the curve and nothing unknown is ever paid for, from an empty
\* database or a seeded one and whenever the repair is run.
THEOREM TypeCorrect == SeededSpec => []TypeOK
<1>1. TypeInv => TypeOK
  BY DEF TypeInv
<1> QED BY <1>1, TypeInit, TypeSeeded, TypeStep, PTL DEF SeededSpec

\* The service alone, and the service with its repair, are among these runs.
LEMMA SeededIsMore == (Spec => SeededSpec) /\ (RepairSpec => SeededSpec) /\ (Spec => RepairSpec)
<1>1. [Next]_vars => [Next \/ RecomputeStats]_vars
  OBVIOUS
<1> QED BY <1>1, PTL DEF Spec, RepairSpec, SeededSpec

----------------------------------------------------------------------------
(* The library.                                                            *)

\* The entry row caches what the rows of show s say: ProgressDerived for one show.
Caches(rows, s, row) ==
  LET mine    == Watched(rows) \cap EpisodesOf(s)
      regular == {e \in mine : IsRegular(e)}
  IN  IF row.status # NotInLibrary
      THEN /\ row.episodes = Cardinality(regular)
           /\ row.minutes = Minutes[mine]
           /\ row.seasons = Cardinality(CompletedSeasons(rows, s))
           /\ row.position = IF regular = {} THEN NoEpisode ELSE Last(regular)
      ELSE mine = {} /\ row = Absent

\* CompletedMeansAllWatched for one show.
DoneIfSaid(rows, s, row) == row.status = "COMPLETED" => IsComplete(rows, s)

LEMMA ShowByShow ==
  /\ ProgressDerived <=> \A s \in Shows : Caches(watchedOn, s, userShow[s])
  /\ CompletedMeansAllWatched <=> \A s \in Shows : DoneIfSaid(watchedOn, s, userShow[s])
BY DEF Caches, DoneIfSaid, ProgressDerived, CompletedMeansAllWatched, InLibrary

\* Both depend on the rows of the show itself only.
LEMMA EntriesLocal ==
  ASSUME NEW old, NEW new, NEW s \in Shows, NEW row,
         \A e \in EpisodesOf(s) : old[e] = NotWatched <=> new[e] = NotWatched
  PROVE  /\ Caches(old, s, row) => Caches(new, s, row)
         /\ DoneIfSaid(old, s, row) => DoneIfSaid(new, s, row)
<1>1. Watched(new) \cap EpisodesOf(s) = Watched(old) \cap EpisodesOf(s)
  BY DEF Watched, EpisodesOf
<1>2. Watched(new) \cap RegularEpisodes(s) = Watched(old) \cap RegularEpisodes(s)
  BY <1>1 DEF RegularEpisodes
<1>3. CompletedSeasons(new, s) = CompletedSeasons(old, s)
  <2>1. \A n \in Seasons : SeasonShow[n] = s => SeasonEpisodes(n) \subseteq EpisodesOf(s)
    BY DEF SeasonEpisodes, EpisodesOf, ShowOf
  <2>2. \A n \in Seasons : SeasonShow[n] = s
          => Watched(new) \cap SeasonEpisodes(n) = Watched(old) \cap SeasonEpisodes(n)
    BY <1>1, <2>1
  <2> QED BY <2>2 DEF CompletedSeasons
<1>4. IsComplete(new, s) <=> IsComplete(old, s)
  BY <1>2 DEF IsComplete
<1> QED BY <1>1, <1>3, <1>4 DEF Caches, DoneIfSaid

\* What syncProgress writes fits the rows it read, whatever row it started from.
LEMMA SyncProgressCaches ==
  ASSUME NEW rows, NEW s \in Shows, NEW base,
         base.status \in Statuses, NEW desired \in Statuses \cup {NotInLibrary}
  PROVE  /\ Caches(rows, s, SyncProgress(rows, s, base, desired))
         /\ DoneIfSaid(rows, s, SyncProgress(rows, s, base, desired))
<1> DEFINE now     == SyncProgress(rows, s, base, desired)
           mine    == Watched(rows) \cap EpisodesOf(s)
           regular == Watched(rows) \cap RegularEpisodes(s)
<1>1. {e \in mine : IsRegular(e)} = regular
  BY DEF RegularEpisodes
<1>2. now.status \in Statuses /\ (now.status = "COMPLETED" => IsComplete(rows, s))
  BY SyncProgressType
<1>3. /\ now.episodes = Cardinality(regular)
      /\ now.minutes = Minutes[mine]
      /\ now.seasons = Cardinality(CompletedSeasons(rows, s))
      /\ now.position = IF regular = {} THEN NoEpisode ELSE Last(regular)
  BY DEF SyncProgress
<1> HIDE DEF now
<1>4. Caches(rows, s, now) /\ DoneIfSaid(rows, s, now)
  BY <1>1, <1>2, <1>3, NoEntryIsNoStatus DEF Caches, DoneIfSaid
<1> QED BY <1>4 DEF now

----------------------------------------------------------------------------
(* Counters of entries.                                                    *)

\* Two finite sets that differ at most in x.
LEMMA MoveElement ==
  ASSUME NEW A, NEW B, NEW x, IsFiniteSet(A), A \ {x} = B \ {x}
  PROVE  Cardinality(B) = Cardinality(A) + (IF x \in B THEN 1 ELSE 0)
                                         - (IF x \in A THEN 1 ELSE 0)
<1> DEFINE C == A \ {x}
<1>1. IsFiniteSet(C) /\ Cardinality(C) \in Nat
  BY FS_RemoveElement, FS_CardinalityType
<1>2. (x \in A => A = C \cup {x}) /\ (x \notin A => A = C)
  OBVIOUS
<1>3. (x \in B => B = C \cup {x}) /\ (x \notin B => B = C)
  OBVIOUS
<1>4. Cardinality(C \cup {x}) = Cardinality(C) + 1
  BY <1>1, FS_AddElement
<1> HIDE DEF C
<1>5. Cardinality(A) = Cardinality(C) + (IF x \in A THEN 1 ELSE 0)
  <2>1. CASE x \in A
    BY <1>2, <1>4, <2>1
  <2>2. CASE x \notin A
    BY <1>1, <1>2, <2>2
  <2> QED BY <2>1, <2>2
<1>6. Cardinality(B) = Cardinality(C) + (IF x \in B THEN 1 ELSE 0)
  <2>1. CASE x \in B
    BY <1>3, <1>4, <2>1
  <2>2. CASE x \notin B
    BY <1>1, <1>3, <2>2
  <2> QED BY <2>1, <2>2
<1> QED BY <1>1, <1>5, <1>6

\* The counters after one entry moves from one status to another.
LEMMA CountersMove ==
  ASSUME TypeOK, StatusCountersAgree, NEW s \in Shows, NEW row,
         row.status \in Statuses \cup {NotInLibrary},
         userShow' = [userShow EXCEPT ![s] = row],
         ReconcileStatusCounters(s, userShow[s].status, row.status)
  PROVE  /\ statusCount' = [st \in Statuses |->
                              Cardinality({x \in Shows : userShow'[x].status = st})]
         /\ typeCompleted' = [t \in Types |->
              Cardinality({x \in Shows : /\ userShow'[x].status = "COMPLETED"
                                         /\ ShowType[x] = t})]
<1> DEFINE Having(st)      == {x \in Shows : userShow[x].status = st}
           HavingNext(st)  == {x \in Shows : userShow'[x].status = st}
           Done(t)     == {x \in Shows : userShow[x].status = "COMPLETED" /\ ShowType[x] = t}
           DoneNext(t) == {x \in Shows : userShow'[x].status = "COMPLETED" /\ ShowType[x] = t}
           step(st)    == (IF row.status = st THEN 1 ELSE 0)
                            - (IF userShow[s].status = st THEN 1 ELSE 0)
<1>1. userShow'[s] = row /\ \A x \in Shows \ {s} : userShow'[x] = userShow[x]
  BY DEF TypeOK
<1>2. ASSUME NEW st \in Statuses
      PROVE  Cardinality(HavingNext(st)) = Cardinality(Having(st)) + step(st)
  <2>1. IsFiniteSet(Having(st)) /\ Cardinality(Having(st)) \in Nat
    BY CatalogueAssumption, FS_Subset, FS_CardinalityType
  <2>2. Having(st) \ {s} = HavingNext(st) \ {s}
    BY <1>1
  <2>3. /\ s \in HavingNext(st) <=> row.status = st
        /\ s \in Having(st) <=> userShow[s].status = st
    BY <1>1
  <2> HIDE DEF Having, HavingNext
  <2> QED BY <2>1, <2>2, <2>3, MoveElement
<1>3. ASSUME NEW t \in Types
      PROVE  Cardinality(DoneNext(t))
               = Cardinality(Done(t)) + (IF ShowType[s] = t THEN step("COMPLETED") ELSE 0)
  <2>1. IsFiniteSet(Done(t)) /\ Cardinality(Done(t)) \in Nat
    BY CatalogueAssumption, FS_Subset, FS_CardinalityType
  <2>2. Done(t) \ {s} = DoneNext(t) \ {s}
    BY <1>1
  <2>3. /\ s \in DoneNext(t) <=> row.status = "COMPLETED" /\ ShowType[s] = t
        /\ s \in Done(t) <=> userShow[s].status = "COMPLETED" /\ ShowType[s] = t
    BY <1>1
  <2> HIDE DEF Done, DoneNext
  <2>4. Cardinality(DoneNext(t)) = Cardinality(Done(t))
          + (IF s \in DoneNext(t) THEN 1 ELSE 0) - (IF s \in Done(t) THEN 1 ELSE 0)
    BY <2>1, <2>2, MoveElement
  <2> QED BY <2>1, <2>3, <2>4
<1>4. /\ \A st \in Statuses : statusCount[st] = Cardinality(Having(st))
      /\ \A t \in Types : typeCompleted[t] = Cardinality(Done(t))
  BY DEF StatusCountersAgree, RecomputedStatusCount, RecomputedTypeCompleted
<1>5. statusCount' = [st \in Statuses |-> Cardinality(HavingNext(st))]
  <2>1. statusCount' = [st \in Statuses |-> statusCount[st] + step(st)]
    BY DEF ReconcileStatusCounters
  <2> HIDE DEF Having, HavingNext, step
  <2> QED BY <1>2, <1>4, <2>1
<1>6. typeCompleted' = [t \in Types |-> Cardinality(DoneNext(t))]
  <2>1. typeCompleted' = [typeCompleted EXCEPT ![ShowType[s]] = @ + step("COMPLETED")]
    BY DEF ReconcileStatusCounters
  <2>2. typeCompleted \in [Types -> Int] /\ ShowType[s] \in Types
    BY CatalogueAssumption DEF TypeOK
  <2> HIDE DEF Done, DoneNext, step
  <2>3. typeCompleted' = [t \in Types |->
          typeCompleted[t] + (IF ShowType[s] = t THEN step("COMPLETED") ELSE 0)]
    <3> DEFINE up == step("COMPLETED")
    <3>1. up \in Int
      BY DEF step
    <3> HIDE DEF up
    <3>2. typeCompleted' = [typeCompleted EXCEPT ![ShowType[s]] = typeCompleted[ShowType[s]] + up]
      BY <2>1 DEF up
    <3>3. typeCompleted' = [t \in Types |->
            typeCompleted[t] + (IF ShowType[s] = t THEN up ELSE 0)]
      <4>1. \A t \in Types : typeCompleted[t] \in Int
        BY <2>2
      <4>2. /\ typeCompleted' = [t \in Types |-> typeCompleted'[t]]
            /\ \A t \in Types : typeCompleted'[t]
                 = IF t = ShowType[s] THEN typeCompleted[t] + up ELSE typeCompleted[t]
        BY <2>2, <3>2
      <4>3. \A t \in Types : typeCompleted'[t]
              = typeCompleted[t] + (IF ShowType[s] = t THEN up ELSE 0)
        BY <3>1, <4>1, <4>2
      <4> QED BY <4>2, <4>3
    <3> QED BY <3>3 DEF up
  <2> QED BY <1>3, <1>4, <2>3
<1> QED BY <1>5, <1>6

----------------------------------------------------------------------------
(* The invariant: every transaction replaces one entry and touches the     *)
(* rows of its show alone.  That COMPLETED is true is a part by itself: a  *)
(* catalogue whose totals do not count its episodes lets the seed say so   *)
(* of a show that is not watched to the end.                               *)

EntriesInv ==
  /\ TypeInv
  /\ ProgressDerived
  /\ StatusCountersAgree

LibraryInv == EntriesInv /\ CompletedMeansAllWatched

\* A step that gives show s the entry row and leaves other shows alone.
ChangesEntry(s, row) ==
  /\ userShow' = [userShow EXCEPT ![s] = row]
  /\ row.status \in Statuses \cup {NotInLibrary}
  /\ Caches(watchedOn', s, row) /\ DoneIfSaid(watchedOn', s, row)
  /\ \A e \in Episodes : ShowOf(e) # s
        => (watchedOn[e] = NotWatched <=> watchedOn'[e] = NotWatched)
  /\ ReconcileStatusCounters(s, userShow[s].status, row.status)
  /\ \A x \in Shows \ {s} : memberCount'[x] = memberCount[x]
  /\ memberCount'[s] = IF row.status # NotInLibrary THEN 1 ELSE 0

LEMMA EntryChanged ==
  ASSUME EntriesInv, NEW s \in Shows, NEW row, ChangesEntry(s, row)
  PROVE  /\ ProgressDerived' /\ StatusCountersAgree'
         /\ CompletedMeansAllWatched => CompletedMeansAllWatched'
<1>1. TypeOK
  BY DEF EntriesInv, TypeInv
<1>2. userShow'[s] = row /\ \A x \in Shows \ {s} : userShow'[x] = userShow[x]
  BY <1>1 DEF ChangesEntry, TypeOK
<1>3. ASSUME NEW x \in Shows
      PROVE  /\ Caches(watchedOn', x, userShow'[x])
             /\ DoneIfSaid(watchedOn, x, userShow[x]) => DoneIfSaid(watchedOn', x, userShow'[x])
  <2>1. CASE x = s
    BY <1>2, <2>1 DEF ChangesEntry
  <2>2. CASE x # s
    <3>1. Caches(watchedOn, x, userShow[x])
      BY ShowByShow DEF EntriesInv
    <3>2. \A e \in EpisodesOf(x) : watchedOn[e] = NotWatched <=> watchedOn'[e] = NotWatched
      BY <2>2 DEF ChangesEntry, EpisodesOf
    <3> QED BY <1>2, <2>2, <3>1, <3>2, EntriesLocal
  <2> QED BY <2>1, <2>2
<1>4. ProgressDerived' /\ (CompletedMeansAllWatched => CompletedMeansAllWatched')
  BY <1>3 DEF Caches, DoneIfSaid, ProgressDerived, CompletedMeansAllWatched, InLibrary
<1>5. /\ statusCount' = RecomputedStatusCount'
      /\ typeCompleted' = RecomputedTypeCompleted'
  BY <1>1, CountersMove
  DEF ChangesEntry, EntriesInv, RecomputedStatusCount, RecomputedTypeCompleted
<1>6. ASSUME NEW x \in Shows
      PROVE  memberCount'[x] = IF userShow'[x].status # NotInLibrary THEN 1 ELSE 0
  <2>1. memberCount[x] = IF userShow[x].status # NotInLibrary THEN 1 ELSE 0
    BY DEF EntriesInv, StatusCountersAgree, InLibrary
  <2> QED BY <1>2, <2>1 DEF ChangesEntry
<1> QED BY <1>4, <1>5, <1>6 DEF StatusCountersAgree, InLibrary

LEMMA MarkLibrary ==
  ASSUME EntriesInv, SomeMark
  PROVE  \E s \in Shows, row \in UserShowRow : ChangesEntry(s, row)
<1>0. PICK s \in Shows :
        \E eps \in SUBSET EpisodesOf(s) : \E minutes \in Nat : Mark(s, eps, minutes)
  BY DEF SomeMark
<1>1. PICK eps \in SUBSET EpisodesOf(s), minutes \in Nat : Mark(s, eps, minutes)
  BY <1>0
<1> DEFINE base == EnsureUserShow(s)
           now  == SyncProgress(Insert(eps), s, base, NotInLibrary)
<1>2. TypeOK /\ userShow[s] \in UserShowRow
  BY DEF EntriesInv, TypeInv, TypeOK
<1>3. base.status \in Statuses
  BY <1>2 DEF EnsureUserShow, InLibrary, UserShowRow, Absent, Statuses, NotInLibrary
<1>4. /\ watchedOn' = Insert(eps)
      /\ userShow' = [userShow EXCEPT ![s] = now]
      /\ CountMember(s)
      /\ ReconcileStatusCounters(s, userShow[s].status, now.status)
  BY <1>1 DEF Mark
<1>5. Caches(watchedOn', s, now) /\ DoneIfSaid(watchedOn', s, now) /\ now \in UserShowRow /\ now.status \in Statuses
  BY <1>3, <1>4, SyncProgressCaches, SyncProgressType
<1> HIDE DEF now, base
<1>6. \A e \in Episodes : ShowOf(e) # s
        => (watchedOn[e] = NotWatched <=> watchedOn'[e] = NotWatched)
  BY <1>4 DEF Insert, EpisodesOf
<1>7. /\ \A x \in Shows \ {s} : memberCount'[x] = memberCount[x]
      /\ memberCount'[s] = 1
  BY <1>2, <1>4 DEF CountMember, EntriesInv, StatusCountersAgree, InLibrary, TypeOK
<1>8. ChangesEntry(s, now)
  BY <1>4, <1>5, <1>6, <1>7, NoEntryIsNoStatus DEF ChangesEntry
<1> QED BY <1>5, <1>8

LEMMA AddLibrary ==
  ASSUME EntriesInv, SomeAdd
  PROVE  \E s \in Shows, row \in UserShowRow : ChangesEntry(s, row)
<1>0. PICK s \in Shows :
        \E eps \in SUBSET EpisodesOf(s) : \E status \in Statuses :
          AddToLibrary(s, status, eps)
  BY InputAssumption DEF SomeAdd
<1>1. PICK eps \in SUBSET EpisodesOf(s), status \in Statuses :
        AddToLibrary(s, status, eps)
  BY <1>0
<1> DEFINE base  == IF InLibrary(s) THEN [userShow[s] EXCEPT !.status = status]
                    ELSE [Absent EXCEPT !.status = status]
           added == IF status = "COMPLETED" THEN RegularEpisodes(s) ELSE eps
           now   == SyncProgress(Insert(added), s, base, status)
<1>2. TypeOK /\ userShow[s] \in UserShowRow
  BY DEF EntriesInv, TypeInv, TypeOK
<1>3. base.status \in Statuses
  BY <1>2 DEF UserShowRow, Absent
<1>4. /\ watchedOn' = Insert(added)
      /\ userShow' = [userShow EXCEPT ![s] = now]
      /\ CountMember(s)
      /\ ReconcileStatusCounters(s, userShow[s].status, now.status)
  BY <1>1 DEF AddToLibrary
<1>5. Caches(watchedOn', s, now) /\ DoneIfSaid(watchedOn', s, now) /\ now \in UserShowRow /\ now.status \in Statuses
  BY <1>3, <1>4, SyncProgressCaches, SyncProgressType
<1>6. added \in SUBSET EpisodesOf(s)
  BY CatalogueTypes
<1> HIDE DEF now, base, added
<1>7. \A e \in Episodes : ShowOf(e) # s
        => (watchedOn[e] = NotWatched <=> watchedOn'[e] = NotWatched)
  BY <1>4, <1>6 DEF Insert, EpisodesOf
<1>8. /\ \A x \in Shows \ {s} : memberCount'[x] = memberCount[x]
      /\ memberCount'[s] = 1
  BY <1>2, <1>4 DEF CountMember, EntriesInv, StatusCountersAgree, InLibrary, TypeOK
<1>9. ChangesEntry(s, now)
  BY <1>4, <1>5, <1>7, <1>8, NoEntryIsNoStatus DEF ChangesEntry
<1> QED BY <1>5, <1>9

LEMMA UnmarkLibrary ==
  ASSUME EntriesInv, NEW e \in Episodes, UnmarkEpisodeWatched(e)
  PROVE  \E s \in Shows, row \in UserShowRow : ChangesEntry(s, row)
<1> DEFINE s    == ShowOf(e)
           rows == [watchedOn EXCEPT ![e] = NotWatched]
           now  == SyncProgress(rows, s, userShow[s], NotInLibrary)
<1>1. s \in Shows /\ TypeOK
  BY CatalogueTypes DEF EntriesInv, TypeInv
<1>2. userShow[s].status \in Statuses
  BY <1>1 DEF TypeOK, UserShowRow, UnmarkEpisodeWatched, InLibrary
<1>3. /\ watchedOn' = rows
      /\ userShow' = [userShow EXCEPT ![s] = now]
      /\ InLibrary(s)
      /\ ReconcileStatusCounters(s, userShow[s].status, now.status)
      /\ memberCount' = memberCount
  BY DEF UnmarkEpisodeWatched
<1>4. Caches(watchedOn', s, now) /\ DoneIfSaid(watchedOn', s, now) /\ now \in UserShowRow /\ now.status \in Statuses
  BY <1>1, <1>2, <1>3, SyncProgressCaches, SyncProgressType
<1> HIDE DEF now
<1>5. \A f \in Episodes : ShowOf(f) # s
        => (watchedOn[f] = NotWatched <=> watchedOn'[f] = NotWatched)
  BY <1>1, <1>3 DEF TypeOK
<1> HIDE DEF s, rows
<1>6. /\ \A x \in Shows \ {s} : memberCount'[x] = memberCount[x]
      /\ memberCount'[s] = 1
  BY <1>1, <1>3 DEF EntriesInv, StatusCountersAgree, InLibrary, TypeOK
<1>7. ChangesEntry(s, now)
  BY <1>3, <1>4, <1>5, <1>6, NoEntryIsNoStatus DEF ChangesEntry
<1> QED BY <1>1, <1>4, <1>7

LEMMA RemoveLibrary ==
  ASSUME EntriesInv, NEW s \in Shows, RemoveFromLibrary(s)
  PROVE  ChangesEntry(s, Absent)
<1>1. /\ TypeOK /\ InLibrary(s)
      /\ watchedOn' = [e \in Episodes |-> IF ShowOf(e) = s THEN NotWatched ELSE watchedOn[e]]
      /\ userShow' = [userShow EXCEPT ![s] = Absent]
      /\ memberCount' = [memberCount EXCEPT ![s] = @ - 1]
      /\ ReconcileStatusCounters(s, userShow[s].status, NotInLibrary)
  BY DEF EntriesInv, TypeInv, RemoveFromLibrary
<1>2. Absent.status = NotInLibrary
  BY DEF Absent
<1>3. Caches(watchedOn', s, Absent) /\ DoneIfSaid(watchedOn', s, Absent)
  <2>1. Watched(watchedOn') \cap EpisodesOf(s) = {}
    BY <1>1 DEF Watched, EpisodesOf
  <2>2. NotInLibrary # "COMPLETED"
    BY DEF NotInLibrary
  <2> QED BY <1>2, <2>1, <2>2 DEF Caches, DoneIfSaid
<1>4. \A e \in Episodes : ShowOf(e) # s
        => (watchedOn[e] = NotWatched <=> watchedOn'[e] = NotWatched)
  BY <1>1
<1>5. /\ \A x \in Shows \ {s} : memberCount'[x] = memberCount[x]
      /\ memberCount'[s] = 0
  BY <1>1 DEF EntriesInv, StatusCountersAgree, InLibrary, TypeOK
<1> QED BY <1>1, <1>2, <1>3, <1>4, <1>5 DEF ChangesEntry

LEMMA LibraryInit == Init => LibraryInv
<1> SUFFICES ASSUME Init PROVE LibraryInv
  OBVIOUS
<1>1. TypeInv
  BY TypeInit
<1>2. \A s \in Shows : userShow[s] = Absent /\ Absent.status = NotInLibrary
  BY DEF Init, Absent
<1>3. \A s \in Shows : Watched(watchedOn) \cap EpisodesOf(s) = {}
  BY DEF Init, Watched, EpisodesOf
<1>4. NotInLibrary \notin Statuses /\ NotInLibrary # "COMPLETED"
  BY DEF NotInLibrary, Statuses
<1>5. \A s \in Shows : Caches(watchedOn, s, userShow[s]) /\ DoneIfSaid(watchedOn, s, userShow[s])
  BY <1>2, <1>3, <1>4 DEF Caches, DoneIfSaid
<1>6. statusCount = RecomputedStatusCount
  <2>1. \A st \in Statuses : {s \in Shows : userShow[s].status = st} = {}
    BY <1>2, <1>4
  <2>2. \A st \in Statuses : Cardinality({s \in Shows : userShow[s].status = st}) = 0
    BY <2>1, FS_EmptySet
  <2> QED BY <2>2 DEF Init, RecomputedStatusCount
<1>7. typeCompleted = RecomputedTypeCompleted
  <2>1. \A t \in Types : {s \in Shows : userShow[s].status = "COMPLETED" /\ ShowType[s] = t} = {}
    BY <1>2, <1>4
  <2>2. \A t \in Types :
          Cardinality({s \in Shows : userShow[s].status = "COMPLETED" /\ ShowType[s] = t}) = 0
    BY <2>1, FS_EmptySet
  <2> QED BY <2>2 DEF Init, RecomputedTypeCompleted
<1>8. \A s \in Shows : memberCount[s] = IF InLibrary(s) THEN 1 ELSE 0
  BY <1>2 DEF Init, InLibrary
<1> QED BY <1>1, <1>5, <1>6, <1>7, <1>8, ShowByShow DEF LibraryInv, EntriesInv, StatusCountersAgree

\* The seed computes progress and counters from the rows it wrote.
LEMMA EntriesSeeded == SeedInit => EntriesInv
<1> SUFFICES ASSUME SeedInit PROVE EntriesInv
  OBVIOUS
<1>0. PICK library \in SUBSET Shows : \E status \in [library -> Statuses] : \E paid :
        SeededLibrary(library, status) /\ Finalised(paid)
  BY SeedFacts
<1>1. PICK status \in [library -> Statuses] : \E paid :
        SeededLibrary(library, status) /\ Finalised(paid)
  BY <1>0
<1>2. PICK paid : SeededLibrary(library, status) /\ Finalised(paid)
  BY <1>1
<1>3. ASSUME NEW s \in library
      PROVE  userShow[s].status \in Statuses /\ Caches(watchedOn, s, userShow[s])
  <2> DEFINE mine    == Watched(watchedOn) \cap EpisodesOf(s)
             regular == {e \in mine : IsRegular(e)}
             full    == {n \in Seasons : /\ SeasonShow[n] = s /\ SeasonNumber[n] > 0
                                         /\ EpisodeCount[n] > 0
                                         /\ Cardinality(mine \cap SeasonEpisodes(n))
                                              >= EpisodeCount[n]}
  <2>1. userShow[s] = [status |-> status[s], episodes |-> Cardinality(regular),
                       minutes |-> Minutes[mine], seasons |-> Cardinality(full),
                       position |-> IF mine = {} THEN NoEpisode ELSE Last(mine)]
    BY <1>2 DEF SeededLibrary, RecomputedProgress
  <2>2. mine = regular
    BY <1>2 DEF SeededLibrary, Watched
  <2>3. full = CompletedSeasons(watchedOn, s)
    <3>1. \A n \in Seasons : SeasonShow[n] = s
            => mine \cap SeasonEpisodes(n) = Watched(watchedOn) \cap SeasonEpisodes(n)
      BY DEF SeasonEpisodes, EpisodesOf, ShowOf
    <3> HIDE DEF mine
    <3> QED BY <3>1 DEF CompletedSeasons
  <2> HIDE DEF full
  <2>4. status[s] \in Statuses /\ status[s] # NotInLibrary
    BY NoEntryIsNoStatus
  <2> QED BY <2>1, <2>2, <2>3, <2>4 DEF Caches
<1>4. ASSUME NEW s \in Shows \ library
      PROVE  userShow[s].status = NotInLibrary /\ Caches(watchedOn, s, userShow[s])
  <2>1. userShow[s] = Absent /\ Absent.status = NotInLibrary
    BY <1>2 DEF SeededLibrary, Absent
  <2>2. Watched(watchedOn) \cap EpisodesOf(s) = {}
    BY <1>2 DEF SeededLibrary, Watched, EpisodesOf
  <2> QED BY <2>1, <2>2 DEF Caches
<1>5. ProgressDerived
  BY <1>3, <1>4, ShowByShow
<1>6. \A s \in Shows : memberCount[s] = IF InLibrary(s) THEN 1 ELSE 0
  <2>1. \A s \in Shows : memberCount[s] = IF s \in library THEN 1 ELSE 0
    BY <1>2 DEF SeededLibrary
  <2>2. \A s \in Shows : s \in library <=> InLibrary(s)
    BY <1>3, <1>4, NoEntryIsNoStatus DEF InLibrary
  <2> QED BY <2>1, <2>2
<1> QED BY <1>2, <1>5, <1>6, TypeSeeded DEF EntriesInv, StatusCountersAgree, Finalised

\* Each step of the service moves one entry and its counters, or nothing of the library;
\* the repair changes no counter but those it finds right already.
LEMMA EntriesStep ==
  ASSUME EntriesInv, [Next \/ RecomputeStats]_vars
  PROVE  EntriesInv' /\ (CompletedMeansAllWatched => CompletedMeansAllWatched')
<1>1. TypeInv'
  BY TypeStep DEF EntriesInv
<1> DEFINE Goal == EntriesInv' /\ (CompletedMeansAllWatched => CompletedMeansAllWatched')
<1>2. ASSUME NEW s \in Shows, NEW row, ChangesEntry(s, row) PROVE Goal
  BY <1>1, <1>2, EntryChanged DEF EntriesInv
<1>3. ASSUME UNCHANGED <<watchedOn, userShow, memberCount, statusCount, typeCompleted>>
      PROVE  Goal
  BY <1>1, <1>3
  DEF EntriesInv, ProgressDerived, CompletedMeansAllWatched, StatusCountersAgree, InLibrary,
      RecomputedStatusCount, RecomputedTypeCompleted, IsComplete
<1> HIDE DEF Goal
<1> SUFFICES Goal
  BY DEF Goal
<1>4. CASE Next
  <2>1. CASE SomeMark
    BY <1>2, <2>1, MarkLibrary
  <2>2. CASE \E e \in Episodes : UnmarkEpisodeWatched(e)
    BY <1>2, <2>2, UnmarkLibrary
  <2>3. CASE SomeAdd
    BY <1>2, <2>3, AddLibrary
  <2>4. CASE \E s \in Shows : RemoveFromLibrary(s)
    BY <1>2, <2>4, RemoveLibrary
  <2>5. CASE NextDay
    BY <1>3, <2>5 DEF NextDay
  <2> QED BY <1>4, <2>1, <2>2, <2>3, <2>4, <2>5, NextCases
<1>5. CASE RecomputeStats
  BY <1>3, <1>5 DEF RecomputeStats, EntriesInv, StatusCountersAgree
<1>6. CASE UNCHANGED vars
  BY <1>3, <1>6 DEF vars
<1> QED BY <1>4, <1>5, <1>6

LEMMA EntriesInvariant == SeededSpec => []EntriesInv
<1>1. Init => EntriesInv
  BY LibraryInit DEF LibraryInv
<1>2. EntriesInv /\ [Next \/ RecomputeStats]_vars => EntriesInv'
  BY EntriesStep
<1> QED BY <1>1, <1>2, EntriesSeeded, PTL DEF SeededSpec

LEMMA LibraryInvariant == RepairSpec => []LibraryInv
<1>1. LibraryInv /\ [Next \/ RecomputeStats]_vars => LibraryInv'
  BY EntriesStep DEF LibraryInv
<1> QED BY <1>1, LibraryInit, PTL DEF RepairSpec

\* The progress cached on every entry is what its rows say, and a removed
\* show leaves no row behind, after any sequence of transactions and repairs,
\* from an empty database or a seeded one.
THEOREM ProgressIsDerived == SeededSpec => []ProgressDerived
<1>1. EntriesInv => ProgressDerived
  BY DEF EntriesInv
<1> QED BY <1>1, EntriesInvariant, PTL

\* No sequence of marks, undos and status changes leaves a show COMPLETED with
\* a regular episode unwatched.
THEOREM CompletedIsAllWatched == RepairSpec => []CompletedMeansAllWatched
<1>1. LibraryInv => CompletedMeansAllWatched
  BY DEF LibraryInv
<1> QED BY <1>1, LibraryInvariant, PTL

\* The status counters, the completed shows per type and the member count
\* never drift from the library, whatever database they start from.
THEOREM CountersAgreeAlways == SeededSpec => []StatusCountersAgree
<1>1. EntriesInv => StatusCountersAgree
  BY DEF EntriesInv
<1> QED BY <1>1, EntriesInvariant, PTL

----------------------------------------------------------------------------
(* The awards of completed seasons.                                        *)

\* What applyRewards leaves in the ledger includes every season now complete.
LEMMA RewardsPaySeasons ==
  ASSUME LedgerInv, NEW s \in Shows, NEW rows, NEW was, NEW now,
         NEW fresh \in SUBSET Episodes, NEW minutes,
         ApplyRewards(s, rows, was, now, fresh, minutes)
  PROVE  CompletedSeasons(rows, s) \subseteq account'.paid["season"]
<1> DEFINE seasons == CompletedSeasons(rows, s)
           shows   == IF now.status = "COMPLETED" THEN {s} ELSE {}
           a1 == Award(account, "episode", fresh)
           a2 == Award(a1, "season", seasons)
           a3 == Award(a2, "show", shows)
           a4 == Award(a3, "dailyStreak", {day})
<1>0. /\ "episode" \in Kinds /\ "season" \in Kinds /\ "show" \in Kinds
      /\ "dailyStreak" \in Kinds
  BY DEF Kinds
<1>a. AccountOK(account) /\ Balanced(account) /\ day \in Days
  BY DEF LedgerInv, LedgerAgrees, Balanced
<1>1. Grown(account, a1)
  BY <1>0, <1>a, AwardGrows DEF Subjects
<1> HIDE DEF a1
<1>2. Grown(a1, a2) /\ seasons \subseteq a2.paid["season"]
  <2>1. seasons \in SUBSET Subjects("season")
    BY DEF CompletedSeasons, Subjects
  <2>2. a2.paid = [a1.paid EXCEPT !["season"] = @ \cup seasons]
    BY DEF Award
  <2> HIDE DEF seasons
  <2>3. Grown(a1, a2)
    BY <1>0, <1>1, <2>1, AwardGrows DEF Grown
  <2>4. a1.paid = [k \in Kinds |-> a1.paid[k]]
    BY <1>1 DEF Grown, AccountOK
  <2> HIDE DEF a2
  <2> QED BY <1>0, <2>2, <2>3, <2>4
<1> HIDE DEF a2
<1>3. Grown(a2, a3)
  <2>1. shows \in SUBSET Subjects("show")
    BY DEF Subjects
  <2> HIDE DEF shows
  <2> QED BY <1>0, <1>2, <2>1, AwardGrows DEF Grown
<1> HIDE DEF a3
<1>4. Grown(a3, a4)
  <2>1. {day} \in SUBSET Subjects("dailyStreak")
    BY <1>a DEF Subjects
  <2> QED BY <1>0, <1>3, <2>1, AwardGrows DEF Grown
<1> HIDE DEF a4
<1>5. a3 = Earned(s, rows, now.status, fresh)
  BY DEF a3, a2, a1, Earned, AwardMany
<1>6. PICK x, vol, run, log : /\ x \in {a3, a4}
                              /\ account' = Evaluate(x, vol, run, log)
  <2> HIDE DEF seasons, shows
  <2> QED BY <1>5 DEF ApplyRewards, a4
<1>7. AccountOK(x) /\ Balanced(x) /\ a2.paid["season"] \subseteq x.paid["season"]
  BY <1>0, <1>3, <1>4, <1>6 DEF Grown
<1>8. x.paid["season"] \subseteq account'.paid["season"]
  BY <1>0, <1>6, <1>7, EvaluateGrows DEF Grown
<1> QED BY <1>2, <1>7, <1>8

\* With fewer rows no more seasons are complete.
LEMMA SeasonsShrink ==
  ASSUME NEW old, NEW new, NEW s \in Shows,
         \A e \in EpisodesOf(s) : old[e] = NotWatched => new[e] = NotWatched
  PROVE  CompletedSeasons(new, s) \subseteq CompletedSeasons(old, s)
<1> SUFFICES ASSUME NEW n \in CompletedSeasons(new, s)
             PROVE  n \in CompletedSeasons(old, s)
  OBVIOUS
<1> DEFINE A == Watched(new) \cap SeasonEpisodes(n)
           B == Watched(old) \cap SeasonEpisodes(n)
<1>1. /\ n \in Seasons /\ SeasonShow[n] = s /\ SeasonNumber[n] > 0
      /\ EpisodeCount[n] > 0 /\ Cardinality(A) >= EpisodeCount[n]
  BY DEF CompletedSeasons
<1>2. A \in SUBSET B
  BY <1>1 DEF Watched, SeasonEpisodes, EpisodesOf, ShowOf
<1>3. IsFiniteSet(B)
  BY CatalogueAssumption, FS_Subset DEF SeasonEpisodes
<1> HIDE DEF A, B
<1>4. Cardinality(A) <= Cardinality(B) /\ Cardinality(A) \in Nat /\ Cardinality(B) \in Nat
  BY <1>2, <1>3, FS_Subset, FS_CardinalityType
<1>5. Cardinality(B) >= EpisodeCount[n]
  BY <1>1, <1>4, CatalogueAssumption
<1> QED BY <1>1, <1>5 DEF CompletedSeasons, B

SeasonsInv == LedgerInv /\ CompletedSeasonsPaid

\* A step that pays the seasons of show s that its rows complete, takes nothing
\* out of the ledger and adds no row to another show.
LEMMA SeasonsKept ==
  ASSUME SeasonsInv, LedgerInv', NEW s \in Shows,
         account.paid["season"] \subseteq account'.paid["season"],
         CompletedSeasons(watchedOn', s) \subseteq account'.paid["season"],
         \A e \in Episodes : ShowOf(e) # s /\ watchedOn[e] = NotWatched
                               => watchedOn'[e] = NotWatched
  PROVE  SeasonsInv'
<1> SUFFICES ASSUME NEW x \in Shows
             PROVE  CompletedSeasons(watchedOn', x) \subseteq account'.paid["season"]
  BY DEF SeasonsInv, CompletedSeasonsPaid
<1>1. CASE x = s
  BY <1>1
<1>2. CASE x # s
  <2>1. \A e \in EpisodesOf(x) : watchedOn[e] = NotWatched => watchedOn'[e] = NotWatched
    BY <1>2 DEF EpisodesOf
  <2>2. CompletedSeasons(watchedOn', x) \subseteq CompletedSeasons(watchedOn, x)
    BY <2>1, SeasonsShrink
  <2> QED BY <2>2 DEF SeasonsInv, CompletedSeasonsPaid
<1> QED BY <1>1, <1>2

LEMMA SeasonsStep == SeasonsInv /\ TypeOK /\ [Next]_vars => SeasonsInv'
<1> SUFFICES ASSUME SeasonsInv, TypeOK, [Next]_vars PROVE SeasonsInv'
  OBVIOUS
<1>0. LedgerInv /\ LedgerInv'
  BY LedgerStep DEF SeasonsInv
<1>2. ASSUME NEW s \in Shows, NEW eps \in SUBSET EpisodesOf(s), watchedOn' = Insert(eps)
      PROVE  \A e \in Episodes : ShowOf(e) # s /\ watchedOn[e] = NotWatched
                                   => watchedOn'[e] = NotWatched
  BY <1>2 DEF Insert, EpisodesOf
<1>4. CASE SomeMark
  <2>1. PICK s \in Shows :
          \E eps \in SUBSET EpisodesOf(s) : \E minutes \in Nat : Mark(s, eps, minutes)
    BY <1>4 DEF SomeMark
  <2>2. PICK eps \in SUBSET EpisodesOf(s), minutes \in Nat : Mark(s, eps, minutes)
    BY <2>1
  <2>3. Unwatched(eps) \in SUBSET Episodes /\ watchedOn' = Insert(eps)
    BY <2>2, CatalogueTypes DEF Unwatched, Mark
  <2>4. CompletedSeasons(watchedOn', s) \subseteq account'.paid["season"]
    BY <1>0, <2>2, <2>3, RewardsPaySeasons DEF Mark
  <2>5. account.paid["season"] \subseteq account'.paid["season"]
    BY <1>0, <2>2, CatalogueTypes, MarkGrows DEF Grown, Kinds
  <2> QED BY <1>0, <1>2, <2>3, <2>4, <2>5, SeasonsKept
<1>5. CASE SomeAdd
  <2>1. PICK s \in Shows :
          \E eps \in SUBSET EpisodesOf(s) : \E status \in AddStatuses :
            AddToLibrary(s, status, eps)
    BY <1>5 DEF SomeAdd
  <2>2. PICK eps \in SUBSET EpisodesOf(s), status \in AddStatuses :
          AddToLibrary(s, status, eps)
    BY <2>1
  <2> DEFINE added == IF status = "COMPLETED" THEN RegularEpisodes(s) ELSE eps
  <2>3. added \in SUBSET EpisodesOf(s)
    BY CatalogueTypes
  <2>4. watchedOn' = Insert(added)
    BY <2>2 DEF AddToLibrary
  <2>5. /\ CompletedSeasons(Insert(added), s) \subseteq account'.paid["season"]
        /\ account.paid["season"] \subseteq account'.paid["season"]
    BY <1>0, <2>2, RewardsPaySeasons, RewardsGrow DEF AddToLibrary, Grown, Kinds
  <2> HIDE DEF added
  <2> QED BY <1>0, <1>2, <2>3, <2>4, <2>5, SeasonsKept
<1>6. ASSUME NEW e \in Episodes, UnmarkEpisodeWatched(e) PROVE SeasonsInv'
  <2>1. ShowOf(e) \in Shows /\ account' = account
          /\ watchedOn' = [watchedOn EXCEPT ![e] = NotWatched]
    BY <1>6, CatalogueTypes DEF UnmarkEpisodeWatched
  <2>2. \A f \in Episodes : watchedOn[f] = NotWatched => watchedOn'[f] = NotWatched
    BY <2>1 DEF TypeOK
  <2>3. CompletedSeasons(watchedOn', ShowOf(e)) \subseteq CompletedSeasons(watchedOn, ShowOf(e))
    BY <2>1, <2>2, SeasonsShrink DEF EpisodesOf
  <2> QED BY <1>0, <2>1, <2>2, <2>3, SeasonsKept DEF SeasonsInv, CompletedSeasonsPaid
<1>7. ASSUME NEW s \in Shows, RemoveFromLibrary(s) PROVE SeasonsInv'
  <2>1. account' = account
          /\ \A f \in Episodes : watchedOn[f] = NotWatched => watchedOn'[f] = NotWatched
    BY <1>7 DEF RemoveFromLibrary
  <2>2. CompletedSeasons(watchedOn', s) \subseteq CompletedSeasons(watchedOn, s)
    BY <2>1, SeasonsShrink DEF EpisodesOf
  <2> QED BY <1>0, <2>1, <2>2, SeasonsKept DEF SeasonsInv, CompletedSeasonsPaid
<1>8. ASSUME UNCHANGED <<watchedOn, account>> PROVE SeasonsInv'
  BY <1>0, <1>8 DEF SeasonsInv, CompletedSeasonsPaid
<1>9. CASE NextDay
  BY <1>8, <1>9 DEF NextDay
<1>10. CASE UNCHANGED vars
  BY <1>8, <1>10 DEF vars
<1> QED BY <1>4, <1>5, <1>6, <1>7, <1>9, <1>10, NextCases

\* Whichever call ticked the last episode of a season, and whatever was undone
\* and done again since, the season's award is in the ledger.
THEOREM SeasonsAlwaysPaid == Spec => []CompletedSeasonsPaid
<1>1. Init => SeasonsInv
  <2>1. ASSUME Init, NEW s \in Shows PROVE CompletedSeasons(watchedOn, s) = {}
    <3>1. \A n \in Seasons : Watched(watchedOn) \cap SeasonEpisodes(n) = {}
      BY <2>1 DEF Init, Watched
    <3>2. \A n \in Seasons : Cardinality(Watched(watchedOn) \cap SeasonEpisodes(n)) = 0
      BY <3>1, FS_EmptySet
    <3>3. \A n \in Seasons : EpisodeCount[n] \in Nat
      BY CatalogueAssumption
    <3> QED BY <3>2, <3>3 DEF CompletedSeasons
  <2> QED BY <2>1, LedgerInit DEF SeasonsInv, CompletedSeasonsPaid
<1>2. SeasonsInv => CompletedSeasonsPaid
  BY DEF SeasonsInv
<1> QED BY <1>1, <1>2, SeasonsStep, TypeCorrect, SeededIsMore, PTL DEF Spec

----------------------------------------------------------------------------
(* The dashboard and the library page tell one story: PagesAgree follows   *)
(* from the library's invariant, without an induction of its own.          *)

\* Division with remainder, for a quotient known in advance.
LEMMA QuotientIs100 ==
  ASSUME NEW a \in Nat, NEW b \in Nat \ {0}
  PROVE  a \div b = 100 <=> 100 * b <= a /\ a < 101 * b
<1> DEFINE q == a \div b
           r == a % b
<1>1. q \in Int /\ r \in 0..(b - 1) /\ a = b * q + r
  OBVIOUS
<1> HIDE DEF q, r
<1>2. q = 100 => 100 * b <= a /\ a < 101 * b
  BY <1>1
<1>3. q >= 101 => b * q >= 101 * b
  BY <1>1
<1>4. q <= 99 => b * q <= 99 * b
  BY <1>1
<1>5. 100 * b <= a /\ a < 101 * b => q = 100
  BY <1>1, <1>3, <1>4
<1> QED BY <1>2, <1>5 DEF q

\* In a show of fewer than 200 episodes the rounded percentage is 100 exactly
\* when none is left.
LEMMA RoundsTo100 ==
  ASSUME NEW total \in 1..199, NEW n \in 0..total
  PROVE  /\ RoundedQuotient(100 * n, total) \in Nat
         /\ RoundedQuotient(100 * n, total) <= 100
         /\ RoundedQuotient(100 * n, total) = 100 <=> n = total
<1> DEFINE a == 2 * (100 * n) + total
           b == 2 * total
<1>1. a \in Nat /\ b \in Nat \ {0} /\ RoundedQuotient(100 * n, total) = a \div b
  BY DEF RoundedQuotient
<1>2. a < 101 * b /\ (100 * b <= a <=> n = total)
  OBVIOUS
<1> HIDE DEF a, b
<1>3. a \div b \in Nat
  BY <1>1
<1>4. a \div b <= 100
  <2> DEFINE q == a \div b
             r == a % b
  <2>1. q \in Nat /\ r \in 0..(b - 1) /\ a = b * q + r
    BY <1>1
  <2> HIDE DEF q, r
  <2>2. q >= 101 => b * q >= 101 * b
    BY <1>1, <2>1
  <2>3. q <= 100
    BY <1>1, <1>2, <2>1, <2>2
  <2> QED BY <2>3 DEF q
<1> QED BY <1>1, <1>2, <1>3, <1>4, QuotientIs100

----------------------------------------------------------------------------
(* What is left of a show.                                                 *)

\* Any set of regular episodes of one show has a first one.
LEMMA FirstExists ==
  ASSUME NEW s \in Shows, NEW S \in SUBSET RegularEpisodes(s), S # {}
  PROVE  \E e \in S : IsFirst(e, S)
<1> DEFINE R == {p \in S \X S : Precedes(p[2], p[1])}
<1>0. S \subseteq Episodes
  BY CatalogueTypes
<1>1. \A x, y \in S : <<x, y>> \in R <=> Precedes(y, x)
  OBVIOUS
<1> HIDE DEF R
<1>2. IsFiniteSet(S)
  BY <1>0, CatalogueAssumption, FS_Subset
<1>3. \A x \in S : SeasonNumber[EpisodeSeason[x]] \in Nat /\ EpisodeNumber[x] \in Nat
  BY <1>0, CatalogueAssumption
<1>4. PICK x \in S : \A y \in S : <<x, y>> \notin R
  <2>1. \A x, y, z \in S : <<x, y>> \in R /\ <<y, z>> \in R => <<x, z>> \in R
    BY <1>1, <1>3 DEF Precedes
  <2>2. \A x \in S : <<x, x>> \notin R
    BY <1>1, <1>3 DEF Precedes
  <2> QED BY <1>2, <2>1, <2>2, MaximalElement
<1>5. ASSUME NEW y \in S \ {x} PROVE Precedes(x, y)
  <2>1. SeasonShow[EpisodeSeason[x]] = s /\ SeasonShow[EpisodeSeason[y]] = s
    BY DEF RegularEpisodes, EpisodesOf, ShowOf
  <2>2. ~Precedes(y, x)
    BY <1>1, <1>4
  <2>3. \/ SeasonNumber[EpisodeSeason[x]] # SeasonNumber[EpisodeSeason[y]]
        \/ EpisodeNumber[x] # EpisodeNumber[y]
    BY <1>0, <2>1, NumberingAssumption, CatalogueAssumption
  <2> QED BY <1>3, <2>2, <2>3 DEF Precedes
<1> QED BY <1>5 DEF IsFirst

\* The row offers an episode exactly while one is left.
LEMMA OffersWhatIsLeft ==
  ASSUME NEW s \in Shows
  PROVE  NextEpisode(s) = NoEpisode <=> Unwatched(RegularEpisodes(s)) = {}
<1> DEFINE left == Unwatched(RegularEpisodes(s))
<1>1. left \in SUBSET RegularEpisodes(s) /\ left \subseteq Episodes
  BY CatalogueTypes DEF Unwatched
<1>2. ASSUME left # {} PROVE (CHOOSE e \in left : IsFirst(e, left)) \in left
  <2>1. \E e \in left : IsFirst(e, left)
    BY <1>1, <1>2, FirstExists
  <2> QED BY <2>1
<1> HIDE DEF left
<1>3. (IF left = {} THEN NoEpisode ELSE CHOOSE e \in left : IsFirst(e, left)) = NoEpisode
        <=> left = {}
  BY <1>1, <1>2, RowAssumption
<1> QED BY <1>3 DEF NextEpisode, left

\* An entry's cached progress is a number of the show's episodes, all of them
\* exactly when none is left.
LEMMA CacheKnowsWhatIsLeft ==
  ASSUME LibraryInv, NEW s \in Library
  PROVE  /\ TotalEpisodes[s] \in Nat
         /\ userShow[s].episodes \in 0..TotalEpisodes[s]
         /\ userShow[s].episodes = TotalEpisodes[s] <=> Unwatched(RegularEpisodes(s)) = {}
<1> DEFINE all  == RegularEpisodes(s)
           seen == {e \in Watched(watchedOn) \cap EpisodesOf(s) : IsRegular(e)}
<1>0. s \in Shows /\ InLibrary(s)
  BY DEF Library
<1>1. userShow[s].episodes = Cardinality(seen)
  BY <1>0 DEF LibraryInv, EntriesInv, ProgressDerived
<1>2. TotalEpisodes[s] = Cardinality(all)
  BY <1>0, TotalsAssumption
<1>3. IsFiniteSet(all) /\ seen \in SUBSET all
  <2>1. all \subseteq Episodes
    BY DEF RegularEpisodes, EpisodesOf
  <2> QED BY <2>1, CatalogueAssumption, FS_Subset DEF RegularEpisodes
<1>4. seen = all <=> Unwatched(all) = {}
  BY DEF Unwatched, Watched, RegularEpisodes, EpisodesOf
<1> HIDE DEF all, seen
<1>5. /\ Cardinality(seen) \in Nat /\ Cardinality(all) \in Nat
      /\ Cardinality(seen) <= Cardinality(all)
      /\ Cardinality(all) = Cardinality(seen) => all = seen
  BY <1>3, FS_Subset, FS_CardinalityType
<1>6. Cardinality(seen) = Cardinality(all) <=> Unwatched(all) = {}
  BY <1>4, <1>5
<1> QED BY <1>1, <1>2, <1>5, <1>6 DEF all

----------------------------------------------------------------------------
(* The counts.                                                             *)

Having(st) == {s \in Shows : userShow[s].status = st}

\* Splitting a finite set by one of its properties.
LEMMA SplitCount ==
  ASSUME NEW A, NEW B, IsFiniteSet(A \cup B), A \cap B = {}
  PROVE  /\ IsFiniteSet(A) /\ IsFiniteSet(B)
         /\ Cardinality(A) \in Nat /\ Cardinality(B) \in Nat
         /\ Cardinality(A \cup B) = Cardinality(A) + Cardinality(B)
<1>1. IsFiniteSet(A) /\ IsFiniteSet(B)
  <2>1. A \in SUBSET (A \cup B) /\ B \in SUBSET (A \cup B)
    OBVIOUS
  <2> QED BY <2>1, FS_Subset
<1>2. Cardinality(A \cup B) = Cardinality(A) + Cardinality(B) - Cardinality(A \cap B)
  BY <1>1, FS_Union
<1>3. Cardinality(A) \in Nat /\ Cardinality(B) \in Nat
  BY <1>1, FS_CardinalityType
<1>4. Cardinality(A \cap B) = 0
  BY FS_EmptySet
<1> QED BY <1>1, <1>2, <1>3, <1>4

\* The tabs add up to the entries.
LEMMA TabsCount ==
  ASSUME TypeOK
  PROVE  LibraryPage(Statuses, Types).tracked = Cardinality(Library)
<1> DEFINE s1 == Having("PLAN_TO_WATCH")
           s2 == Having("WATCHING")
           s3 == Having("COMPLETED")
           s4 == Having("ON_HOLD")
           s5 == Having("DROPPED")
           s6 == Having("REWATCHING")
           t1 == Library
           t2 == s2 \cup s3 \cup s4 \cup s5 \cup s6
           t3 == s3 \cup s4 \cup s5 \cup s6
           t4 == s4 \cup s5 \cup s6
           t5 == s5 \cup s6
<1>1. \A s \in Shows : userShow[s].status \in Statuses \cup {NotInLibrary}
  BY DEF TypeOK, UserShowRow
<1>2. t1 = s1 \cup t2 /\ s1 \cap t2 = {}
  BY <1>1 DEF Library, InLibrary, Having, Statuses, NotInLibrary
<1>3. IsFiniteSet(t1)
  BY CatalogueAssumption, FS_Subset DEF Library
<1>5a. t2 = s2 \cup t3 /\ s2 \cap t3 = {}
  BY DEF Having
<1>5b. t3 = s3 \cup t4 /\ s3 \cap t4 = {}
  BY DEF Having
<1>5c. t4 = s4 \cup t5 /\ s4 \cap t5 = {}
  BY DEF Having
<1>5d. t5 = s5 \cup s6 /\ s5 \cap s6 = {}
  BY DEF Having
<1>6. \A st \in Statuses : {s \in Library : userShow[s].status = st} = Having(st)
  BY NoEntryIsNoStatus DEF Library, InLibrary, Having
<1>7. LibraryPage(Statuses, Types).tracked
        = Cardinality(s1) + Cardinality(s2) + Cardinality(s3)
            + Cardinality(s4) + Cardinality(s5) + Cardinality(s6)
  <2>1. GetLibraryCounts = [st \in Statuses |-> Cardinality(Having(st))]
    BY <1>6 DEF GetLibraryCounts
  <2> HIDE DEF s1, s2, s3, s4, s5, s6
  <2> QED BY <2>1 DEF LibraryPage, Statuses, s1, s2, s3, s4, s5, s6
<1> HIDE DEF s1, s2, s3, s4, s5, s6, t1, t2, t3, t4, t5
<1>8. Cardinality(t1) = Cardinality(s1) + Cardinality(t2) /\ IsFiniteSet(t2)
        /\ Cardinality(s1) \in Nat
  BY <1>2, <1>3, SplitCount
<1>9. Cardinality(t2) = Cardinality(s2) + Cardinality(t3) /\ IsFiniteSet(t3)
        /\ Cardinality(s2) \in Nat
  BY <1>5a, <1>8, SplitCount
<1>10. Cardinality(t3) = Cardinality(s3) + Cardinality(t4) /\ IsFiniteSet(t4)
         /\ Cardinality(s3) \in Nat
  BY <1>5b, <1>9, SplitCount
<1>11. Cardinality(t4) = Cardinality(s4) + Cardinality(t5) /\ IsFiniteSet(t5)
         /\ Cardinality(s4) \in Nat
  BY <1>5c, <1>10, SplitCount
<1>12. Cardinality(t5) = Cardinality(s5) + Cardinality(s6)
         /\ Cardinality(s5) \in Nat /\ Cardinality(s6) \in Nat
  BY <1>5d, <1>11, SplitCount
<1> QED BY <1>7, <1>8, <1>9, <1>10, <1>11, <1>12 DEF t1

\* There is one tile per entry.
LEMMA TilesCount ==
  ASSUME TypeOK
  PROVE  Cardinality(LibraryPage(Statuses, Types).tiles) = Cardinality(Library)
<1> DEFINE tile == [s \in Library |-> Entry(s)]
           tiles == {Entry(s) : s \in Library}
<1>1. LibraryPage(Statuses, Types).tiles = tiles
  <2>1. \A s \in Library : userShow[s].status \in Statuses /\ ShowType[s] \in Types
    BY CatalogueAssumption DEF Library, InLibrary, TypeOK, UserShowRow
  <2>2. {s \in Library : userShow[s].status \in Statuses /\ ShowType[s] \in Types} = Library
    BY <2>1
  <2> QED BY <2>2 DEF LibraryPage, GetLibrary
<1>2. tile \in Bijection(Library, tiles)
  <2>1. \A s \in Library : Entry(s).show = s
    BY DEF Entry
  <2>2. tile \in [Library -> tiles]
    OBVIOUS
  <2>3. \A s, t \in Library : tile[s] = tile[t] => s = t
    BY <2>1
  <2>4. \A x \in tiles : \E s \in Library : tile[s] = x
    OBVIOUS
  <2> HIDE DEF tile, tiles
  <2> QED BY <2>2, <2>3, <2>4 DEF Bijection, Injection, Surjection, IsInjective
<1>3. IsFiniteSet(Library)
  BY CatalogueAssumption, FS_Subset DEF Library
<1> HIDE DEF tile, tiles
<1>4. ExistsBijection(Library, tiles)
  BY <1>2 DEF ExistsBijection
<1>5. Cardinality(tiles) = Cardinality(Library)
  BY <1>3, <1>4, FS_Bijection
<1> QED BY <1>1, <1>5

\* The dashboard's counters are the library page's badges, and the two kinds of
\* completed shows add up.
LEMMA CountersAreBadges ==
  ASSUME LibraryInv
  PROVE  /\ \A st \in Statuses : statusCount[st] = GetLibraryCounts[st]
         /\ typeCompleted["ANIME"] + typeCompleted["TV"] = statusCount["COMPLETED"]
<1> DEFINE done    == Having("COMPLETED")
           doneOf(t) == {s \in Shows : userShow[s].status = "COMPLETED" /\ ShowType[s] = t}
<1>1. /\ \A st \in Statuses : statusCount[st] = Cardinality(Having(st))
      /\ \A t \in Types : typeCompleted[t] = Cardinality(doneOf(t))
  BY DEF LibraryInv, EntriesInv, StatusCountersAgree, RecomputedStatusCount, RecomputedTypeCompleted, Having
<1>2. \A st \in Statuses : {s \in Library : userShow[s].status = st} = Having(st)
  BY NoEntryIsNoStatus DEF Library, InLibrary, Having
<1>3. done = doneOf("ANIME") \cup doneOf("TV") /\ doneOf("ANIME") \cap doneOf("TV") = {}
  BY CatalogueAssumption DEF Having, Types
<1>4. IsFiniteSet(done)
  BY CatalogueAssumption, FS_Subset DEF Having
<1>5. "COMPLETED" \in Statuses /\ "ANIME" \in Types /\ "TV" \in Types
  BY DEF Statuses, Types
<1> HIDE DEF doneOf
<1>6. Cardinality(done) = Cardinality(doneOf("ANIME")) + Cardinality(doneOf("TV"))
  BY <1>3, <1>4, SplitCount
<1> QED BY <1>1, <1>2, <1>5, <1>6 DEF GetLibraryCounts

\* With room for every show in progress the row looks at all of them.
LEMMA RowLooksAtAll ==
  ASSUME Cardinality(InProgress) <= RowLimit, NEW row \in ContinueRows
  PROVE  row = {[entry |-> Entry(s), next |-> NextEpisode(s)] :
                  s \in {x \in InProgress : NextEpisode(x) # NoEpisode}}
<1>1. IsFiniteSet(InProgress) /\ Cardinality(InProgress) \in Nat
  BY CatalogueAssumption, FS_Subset, FS_CardinalityType DEF InProgress
<1>2. ASSUME NEW S \in SUBSET InProgress, Cardinality(S) = Cardinality(InProgress)
      PROVE  S = InProgress
  BY <1>1, <1>2, FS_Subset
<1>3. (IF Cardinality(InProgress) < RowLimit THEN Cardinality(InProgress) ELSE RowLimit)
        = Cardinality(InProgress)
  BY <1>1, RowAssumption
<1> QED BY <1>2, <1>3 DEF ContinueRows

\* After any sequence of calls the dashboard and the library page agree: the
\* counters with the entries, the bars and the continue row with what is left.
THEOREM PagesAlwaysAgree == Spec => []PagesAgree
<1>1. ASSUME LibraryInv PROVE PagesAgree
  <2> DEFINE page == LibraryPage(Statuses, Types)
             Shown(row, tile) ==
               LET done == tile.episodes = TotalEpisodes[tile.show]
               IN  /\ /\ tile.show \in InProgress
                      /\ Cardinality(InProgress) <= RowLimit
                      => done = (\A card \in row : card.entry # tile)
                   /\ TotalEpisodes[tile.show] \in 1..199 => done = (tile.progress = 100)
  <2> SUFFICES ASSUME NEW row \in ContinueRows
               PROVE  LET home == Dashboard(row)
                      IN  /\ home.completed = page.badges["COMPLETED"]
                          /\ home.byType["ANIME"] + home.byType["TV"] = home.completed
                          /\ home.watching = page.badges["WATCHING"]
                          /\ home.planned = page.badges["PLAN_TO_WATCH"]
                          /\ page.tracked = Cardinality(page.tiles)
                          /\ \A tile \in page.tiles : Shown(home.row, tile)
    BY DEF PagesAgree
  <2>1. TypeOK
    BY <1>1 DEF LibraryInv, EntriesInv, TypeInv
  <2>2. "COMPLETED" \in Statuses /\ "WATCHING" \in Statuses /\ "PLAN_TO_WATCH" \in Statuses
    BY DEF Statuses
  <2>3. page.tracked = Cardinality(page.tiles)
    BY <2>1, TabsCount, TilesCount
  <2>4. ASSUME NEW tile \in page.tiles PROVE Shown(row, tile)
    <3>1. PICK s \in Library : tile = Entry(s)
      BY <2>4 DEF LibraryPage, GetLibrary
    <3>2. tile.show = s /\ tile.episodes = userShow[s].episodes
            /\ tile.progress = ShownProgress(s)
      BY <3>1 DEF Entry
    <3>3. /\ TotalEpisodes[s] \in Nat
          /\ userShow[s].episodes \in 0..TotalEpisodes[s]
          /\ userShow[s].episodes = TotalEpisodes[s] <=> NextEpisode(s) = NoEpisode
      BY <1>1, CacheKnowsWhatIsLeft, OffersWhatIsLeft DEF Library
    <3>4. ASSUME s \in InProgress, Cardinality(InProgress) <= RowLimit
          PROVE  NextEpisode(s) = NoEpisode <=> \A card \in row : card.entry # tile
      <4>1. row = {[entry |-> Entry(x), next |-> NextEpisode(x)] :
                     x \in {y \in InProgress : NextEpisode(y) # NoEpisode}}
        BY <3>4, RowLooksAtAll
      <4>2. \A x : Entry(x).show = x
        BY DEF Entry
      <4>3. ASSUME NextEpisode(s) # NoEpisode PROVE \E card \in row : card.entry = tile
        <5>1. [entry |-> Entry(s), next |-> NextEpisode(s)] \in row
          BY <3>4, <4>1, <4>3
        <5> QED BY <3>1, <5>1
      <4>4. ASSUME NEW card \in row, card.entry = tile PROVE NextEpisode(s) # NoEpisode
        <5>1. PICK x \in InProgress : NextEpisode(x) # NoEpisode /\ card.entry = Entry(x)
          BY <4>1
        <5>2. Entry(x) = Entry(s)
          BY <3>1, <4>4, <5>1
        <5>3. x = s
          <6>1. Entry(x).show = x /\ Entry(s).show = s
            BY <4>2
          <6> QED BY <5>2, <6>1
        <5> QED BY <5>1, <5>3
      <4> QED BY <4>3, <4>4
    <3>5. ASSUME TotalEpisodes[s] \in 1..199
          PROVE  userShow[s].episodes = TotalEpisodes[s] <=> ShownProgress(s) = 100
      <4>1. TotalEpisodes[s] # 0
        BY <3>5
      <4> DEFINE percent == RoundedQuotient(100 * userShow[s].episodes, TotalEpisodes[s])
      <4>2. /\ percent \in Nat /\ percent <= 100
            /\ percent = 100 <=> userShow[s].episodes = TotalEpisodes[s]
        <5> DEFINE n     == userShow[s].episodes
                   total == TotalEpisodes[s]
        <5>1. total \in 1..199 /\ n \in 0..total
          BY <3>3, <3>5
        <5> HIDE DEF n, total
        <5>2. LET shown == RoundedQuotient(100 * n, total)
              IN  shown \in Nat /\ shown <= 100 /\ (shown = 100 <=> n = total)
          BY <5>1, RoundsTo100
        <5> QED BY <5>2 DEF n, total
      <4>3. ShownProgress(s) = IF percent > 100 THEN 100 ELSE percent
        BY <4>1 DEF ShownProgress
      <4> HIDE DEF percent
      <4> QED BY <4>2, <4>3
    <3> QED BY <3>2, <3>3, <3>4, <3>5
  <2>5. /\ \A st \in Statuses : statusCount[st] = GetLibraryCounts[st]
        /\ typeCompleted["ANIME"] + typeCompleted["TV"] = statusCount["COMPLETED"]
    BY <1>1, CountersAreBadges
  <2>6. page.badges = GetLibraryCounts
    BY DEF LibraryPage
  <2> HIDE DEF page, Shown
  <2> QED BY <2>2, <2>3, <2>4, <2>5, <2>6 DEF Dashboard
<1> QED BY <1>1, LibraryInvariant, SeededIsMore, PTL

----------------------------------------------------------------------------
(* The incremental streak of recordActivity against the daily log: first,  *)
(* the runs of active days.                                                *)

RunStarts(active, d) == {b \in 1..d : b..d \subseteq active}

LEMMA RunStartsFinite ==
  ASSUME NEW active, NEW d \in Nat
  PROVE  IsFiniteSet(RunStarts(active, d)) /\ RunEndingOn(active, d) \in Nat
<1>1. IsFiniteSet(1..d)
  BY FS_Interval
<1>2. RunStarts(active, d) \in SUBSET (1..d)
  BY DEF RunStarts
<1>3. IsFiniteSet(RunStarts(active, d))
  BY <1>1, <1>2, FS_Subset
<1> QED BY <1>3, FS_CardinalityType DEF RunEndingOn, RunStarts

\* A run depends on nothing after its last day and grows with the active days.
LEMMA RunGrows ==
  ASSUME NEW A, NEW B, NEW d \in Nat, A \cap (1..d) \subseteq B
  PROVE  RunEndingOn(A, d) <= RunEndingOn(B, d)
<1>1. RunStarts(A, d) \subseteq RunStarts(B, d)
  <2> SUFFICES ASSUME NEW b \in 1..d, b..d \subseteq A
               PROVE  b..d \subseteq B
    BY DEF RunStarts
  <2>1. b..d \subseteq 1..d
    OBVIOUS
  <2> QED BY <2>1
<1> QED BY <1>1, RunStartsFinite, FS_Subset DEF RunEndingOn, RunStarts

\* One more day makes a run at most one day longer.
LEMMA RunExtends ==
  ASSUME NEW A, NEW d \in Nat
  PROVE  RunEndingOn(A \cup {d + 1}, d + 1) <= 1 + RunEndingOn(A \cup {d}, d)
<1> DEFINE R == RunStarts(A \cup {d}, d)
<1>1. IsFiniteSet(R) /\ Cardinality(R) \in Nat
  BY RunStartsFinite, FS_CardinalityType
<1>2. RunStarts(A \cup {d + 1}, d + 1) \subseteq R \cup {d + 1}
  <2> SUFFICES ASSUME NEW b \in 1..(d + 1), b..(d + 1) \subseteq A \cup {d + 1},
                      b # d + 1
               PROVE  b \in 1..d /\ b..d \subseteq A \cup {d}
    BY DEF RunStarts
  <2>1. b..d \subseteq b..(d + 1) /\ d + 1 \notin b..d
    OBVIOUS
  <2> QED BY <2>1
<1> HIDE DEF R
<1>3. IsFiniteSet(R \cup {d + 1}) /\ Cardinality(R \cup {d + 1}) <= Cardinality(R) + 1
  BY <1>1, FS_AddElement
<1>4. Cardinality(RunStarts(A \cup {d + 1}, d + 1)) <= Cardinality(R \cup {d + 1})
  BY <1>2, <1>3, FS_Subset
<1>5. /\ Cardinality(RunStarts(A \cup {d + 1}, d + 1)) \in Nat
      /\ Cardinality(R \cup {d + 1}) \in Nat
  BY <1>3, RunStartsFinite, FS_CardinalityType
<1>6. /\ RunEndingOn(A \cup {d + 1}, d + 1) = Cardinality(RunStarts(A \cup {d + 1}, d + 1))
      /\ RunEndingOn(A \cup {d}, d) = Cardinality(R)
  BY DEF RunEndingOn, RunStarts, R
<1> QED BY <1>1, <1>3, <1>4, <1>5, <1>6

\* A run cannot reach over a day without activity.
LEMMA RunAlone ==
  ASSUME NEW A, NEW d \in Nat \ {0}, d - 1 \notin A
  PROVE  RunEndingOn(A, d) <= 1
<1>1. RunStarts(A, d) \subseteq {d}
  <2> SUFFICES ASSUME NEW b \in 1..d, b..d \subseteq A, b # d PROVE FALSE
    BY DEF RunStarts
  <2>1. d - 1 \in b..d
    OBVIOUS
  <2> QED BY <2>1
<1>2. IsFiniteSet({d}) /\ Cardinality({d}) = 1
  BY FS_Singleton
<1>3. Cardinality(RunStarts(A, d)) <= 1
  BY <1>1, <1>2, FS_Subset
<1> QED BY <1>3 DEF RunEndingOn, RunStarts

----------------------------------------------------------------------------
(* The streak row k against the active days, today being now.  A day may   *)
(* have been un-marked since: the row still counts its last day.           *)

Covers(k, active, now) ==
  /\ k.last <= now
  /\ \A d \in active : d <= k.last
  /\ now - k.last <= 1 => k.current >= RunEndingOn(active \cup {k.last}, k.last)
  /\ \A d \in active : k.longest >= RunEndingOn(active, d)
  /\ k.current <= k.longest

\* recordActivity keeps up with the day it records.
LEMMA RecordCovers ==
  ASSUME NEW k \in StreakRow, NEW now \in Days,
         NEW active \in SUBSET Days, NEW grown \in SUBSET (active \cup {now}),
         Covers(k, active, now)
  PROVE  Covers(RecordActivity(k, now), grown, now)
<1> DEFINE r == RecordActivity(k, now)
<1>0. /\ now \in Nat \ {0} /\ k.last \in Nat /\ k.current \in Nat /\ k.longest \in Nat
      /\ Days \subseteq Nat
  BY DayAssumption DEF Days, StreakRow, NoDay
<1>1. r.last = now /\ r \in StreakRow
  BY RecordActivityType DEF RecordActivity
<1>2. r.current <= r.longest /\ k.longest <= r.longest
  BY <1>0 DEF RecordActivity, Larger, Covers
<1>3. r.current >= RunEndingOn(active \cup {now}, now)
  <2>1. CASE k.last = now
    <3>1. r = k /\ now - k.last <= 1
      BY <1>0, <2>1 DEF RecordActivity
    <3>2. k.current >= RunEndingOn(active \cup {k.last}, k.last)
      BY <3>1 DEF Covers
    <3>3. RunEndingOn(active \cup {k.last}, k.last) = RunEndingOn(active \cup {now}, now)
      BY <2>1
    <3>4. r.current = k.current
      BY <3>1
    <3> HIDE DEF r
    <3> QED BY <3>2, <3>3, <3>4
  <2>2. CASE k.last = now - 1 /\ k.last # NoDay
    <3>1. r.current = k.current + 1
      BY <1>0, <2>2 DEF RecordActivity
    <3>2. k.current >= RunEndingOn(active \cup {k.last}, k.last)
      BY <1>0, <2>2 DEF Covers
    <3>3. RunEndingOn(active \cup {k.last + 1}, k.last + 1)
            <= 1 + RunEndingOn(active \cup {k.last}, k.last)
      BY <1>0, RunExtends
    <3>4. RunEndingOn(active \cup {k.last + 1}, k.last + 1) = RunEndingOn(active \cup {now}, now)
      <4>1. k.last + 1 = now
        BY <1>0, <2>2
      <4> QED BY <4>1
    <3>5. /\ RunEndingOn(active \cup {k.last}, k.last) \in Nat
          /\ RunEndingOn(active \cup {now}, now) \in Nat
      BY <1>0, RunStartsFinite
    <3> HIDE DEF r
    <3> QED BY <1>0, <3>1, <3>2, <3>3, <3>4, <3>5
  <2>3. CASE k.last # now /\ (k.last # now - 1 \/ k.last = NoDay)
    <3>1. r.current = 1
      BY <1>0, <2>3 DEF RecordActivity
    <3>2. now - 1 \notin active \cup {now}
      <4>1. k.last < now
        BY <1>0, <2>3 DEF Covers
      <4>2. now - 1 \notin active
        BY <1>0, <2>3, <4>1 DEF Covers, Days, NoDay
      <4> QED BY <1>0, <4>2
    <3> QED BY <1>0, <3>1, <3>2, RunAlone, RunStartsFinite
  <2> QED BY <2>1, <2>2, <2>3
<1>4. \A d \in grown : d <= now
  BY <1>0 DEF Covers
<1>5. RunEndingOn(grown \cup {now}, now) <= RunEndingOn(active \cup {now}, now)
  BY <1>0, RunGrows
<1>6. ASSUME NEW d \in grown PROVE RunEndingOn(grown, d) <= r.longest
  <2>1. d \in Nat /\ d <= now
    BY <1>0, <1>4
  <2>2. CASE d = now
    <3>1. RunEndingOn(grown, now) <= RunEndingOn(active \cup {now}, now)
      BY <1>0, RunGrows
    <3>2. RunEndingOn(grown, now) \in Nat /\ RunEndingOn(active \cup {now}, now) \in Nat
      BY <1>0, RunStartsFinite
    <3>3. r.current \in Nat /\ r.longest \in Nat
      BY <1>1 DEF StreakRow
    <3> HIDE DEF r
    <3> QED BY <1>2, <1>3, <2>2, <3>1, <3>2, <3>3
  <2>3. CASE d # now
    <3>1. d \in active /\ grown \cap (1..d) \subseteq active
      BY <1>0, <2>1, <2>3
    <3>2. RunEndingOn(grown, d) <= RunEndingOn(active, d)
      BY <2>1, <3>1, RunGrows
    <3>3. RunEndingOn(active, d) <= k.longest
      BY <3>1 DEF Covers
    <3>4. RunEndingOn(grown, d) \in Nat /\ RunEndingOn(active, d) \in Nat
      BY <2>1, RunStartsFinite
    <3>5. r.longest \in Nat
      BY <1>1 DEF StreakRow
    <3> HIDE DEF r
    <3> QED BY <1>0, <1>2, <3>2, <3>3, <3>4, <3>5
  <2> QED BY <2>2, <2>3
<1>7. r.current >= RunEndingOn(grown \cup {now}, now)
  <2>1. RunEndingOn(grown \cup {now}, now) \in Nat /\ RunEndingOn(active \cup {now}, now) \in Nat
    BY <1>0, RunStartsFinite
  <2>2. r.current \in Nat
    BY <1>1 DEF StreakRow
  <2> HIDE DEF r
  <2> QED BY <1>3, <1>5, <2>1, <2>2
<1>8. ASSUME NEW d \in grown PROVE r.longest >= RunEndingOn(grown, d)
  <2>1. d \in Nat /\ r.longest \in Nat
    BY <1>0, <1>1 DEF StreakRow
  <2> HIDE DEF r
  <2> QED BY <1>6, <2>1, RunStartsFinite
<1> HIDE DEF r
<1>9. Covers(r, grown, now)
  BY <1>0, <1>1, <1>2, <1>4, <1>7, <1>8 DEF Covers
<1> QED BY <1>9 DEF r

\* Un-marking, and midnight, only ask less of the row.
LEMMA FewerDaysCovered ==
  ASSUME NEW k \in StreakRow, NEW now \in Days, NEW later \in Days, now <= later,
         NEW active \in SUBSET Days, NEW fewer \in SUBSET active,
         Covers(k, active, now)
  PROVE  Covers(k, fewer, later)
<1>0. /\ now \in Nat /\ later \in Nat /\ k.last \in Nat /\ k.current \in Nat
      /\ k.longest \in Nat /\ Days \subseteq Nat
  BY DayAssumption DEF Days, StreakRow, NoDay
<1>1. later - k.last <= 1 => now - k.last <= 1
  BY <1>0
<1>2. RunEndingOn(fewer \cup {k.last}, k.last) <= RunEndingOn(active \cup {k.last}, k.last)
  BY <1>0, RunGrows
<1>3. /\ RunEndingOn(fewer \cup {k.last}, k.last) \in Nat
      /\ RunEndingOn(active \cup {k.last}, k.last) \in Nat
  BY <1>0, RunStartsFinite
<1>4. later - k.last <= 1 => k.current >= RunEndingOn(fewer \cup {k.last}, k.last)
  <2>1. now - k.last <= 1 => k.current >= RunEndingOn(active \cup {k.last}, k.last)
    BY DEF Covers
  <2> QED BY <1>0, <1>1, <1>2, <1>3, <2>1
<1>5. ASSUME NEW d \in fewer PROVE k.longest >= RunEndingOn(fewer, d)
  <2>1. d \in Nat /\ d \in active
    BY <1>0
  <2>2. RunEndingOn(fewer, d) <= RunEndingOn(active, d)
    BY <2>1, RunGrows
  <2>3. k.longest >= RunEndingOn(active, d)
    BY <2>1 DEF Covers
  <2>4. RunEndingOn(fewer, d) \in Nat /\ RunEndingOn(active, d) \in Nat
    BY <2>1, RunStartsFinite
  <2> QED BY <1>0, <2>2, <2>3, <2>4
<1>6. k.last <= later /\ k.current <= k.longest /\ \A d \in fewer : d <= k.last
  BY <1>0 DEF Covers
<1> QED BY <1>4, <1>5, <1>6 DEF Covers

\* The repaired row fits the log it was rebuilt from.
LEMMA RecomputeCovers ==
  ASSUME NEW log, NEW now \in Days, \A d \in ActiveDays(log) : d <= now
  PROVE  Covers(Recompute(log, now), ActiveDays(log), now)
<1> DEFINE active == ActiveDays(log)
           last   == LastActive(active)
           runs   == {0} \cup {RunEndingOn(active, d) : d \in active}
           r      == Recompute(log, now)
<1>0. now \in Nat \ {0} /\ Days \subseteq Nat /\ IsFiniteSet(Days)
  BY DayAssumption, FS_Interval DEF Days
<1>1. active \subseteq Days /\ IsFiniteSet(active)
  BY <1>0, FS_Subset DEF ActiveDays
<1>2. /\ r.last = last /\ r.longest = MaxOf(runs)
      /\ r.current = IF last # NoDay /\ now - last <= 1
                     THEN RunEndingOn(active, last) ELSE 0
  BY DEF Recompute
<1>3. \A d \in active : d <= now
  OBVIOUS
<1>4. runs \subseteq Nat /\ IsFiniteSet(runs) /\ runs # {}
  <2>1. runs \subseteq 0..MaxDay
    BY <1>1, RunType, DayAssumption
  <2>2. IsFiniteSet(0..MaxDay) /\ 0..MaxDay \subseteq Nat
    BY FS_Interval, DayAssumption
  <2> HIDE DEF active
  <2>3. 0 \in runs
    OBVIOUS
  <2> HIDE DEF runs
  <2> QED BY <2>1, <2>2, <2>3, FS_Subset
<1> HIDE DEF active, r
<1>5. /\ active = {} => last = NoDay
      /\ active # {} => last \in active /\ \A d \in active : d <= last
  <2>1. active # {} => /\ MaxOf(active) \in active
                       /\ \A d \in active : d <= MaxOf(active)
    BY <1>0, <1>1, MaxOfType
  <2> QED BY <2>1 DEF LastActive
<1>6. 0 <= MaxOf(runs) /\ \A d \in active : RunEndingOn(active, d) <= MaxOf(runs)
  <2>1. \A x \in runs : x <= MaxOf(runs)
    <3> HIDE DEF runs
    <3> QED BY <1>4, MaxOfType
  <2> QED BY <2>1
<1> HIDE DEF runs, last
<1>7. CASE active = {}
  <2>1. last = 0 /\ r.current = 0
    BY <1>2, <1>5, <1>7 DEF NoDay
  <2>2. RunStarts(active \cup {0}, 0) = {}
    BY DEF RunStarts
  <2>3. RunEndingOn(active \cup {last}, last) = 0
    BY <2>1, <2>2, FS_EmptySet DEF RunEndingOn, RunStarts
  <2>4. r.last <= now /\ r.current <= r.longest
    BY <1>0, <1>2, <1>6, <2>1
  <2>5. r.current >= RunEndingOn(active \cup {r.last}, r.last)
    BY <1>2, <2>1, <2>3
  <2>6. Covers(r, active, now)
    BY <1>7, <2>4, <2>5 DEF Covers
  <2> QED BY <2>6 DEF r, active
<1>8. CASE active # {}
  <2>1. last \in active /\ last \in Nat \ {0} /\ last <= now
    <3>1. last \in active
      BY <1>5, <1>8
    <3>2. last \in Days
      BY <1>1, <3>1
    <3>3. last <= now
      BY <1>3, <3>1
    <3> QED BY <3>1, <3>2, <3>3, DayAssumption DEF Days
  <2>2. active \cup {last} = active
    BY <2>1
  <2>3. RunEndingOn(active, last) \in Nat
    BY <2>1, RunStartsFinite
  <2>4. now - last <= 1 => r.current >= RunEndingOn(active \cup {last}, last)
    BY <1>2, <2>1, <2>2, <2>3 DEF NoDay
  <2>5. MaxOf(runs) \in Nat
    BY <1>4, MaxOfType
  <2>6. r.current <= r.longest
    BY <1>2, <1>6, <2>1, <2>3, <2>5
  <2>7. \A d \in active : r.longest >= RunEndingOn(active, d)
    <3>1. \A d \in active : RunEndingOn(active, d) \in Nat
      BY <1>0, <1>1, RunStartsFinite
    <3> QED BY <1>2, <1>6, <2>5, <3>1
  <2>8. Covers(r, active, now)
    BY <1>2, <1>5, <1>8, <2>1, <2>4, <2>6, <2>7 DEF Covers
  <2> QED BY <2>8 DEF r, active
<1> QED BY <1>7, <1>8

----------------------------------------------------------------------------
(* The streak beside the log.                                              *)

\* The part of the types the streak depends on.
StreakTypes ==
  /\ streak \in StreakRow
  /\ day \in Days
  /\ dailyLog \in LogRows
  /\ watchedOn \in RowsType

Mirrored == statStreak = [current |-> streak.current, longest |-> streak.longest]

StreakInv ==
  /\ StreakTypes
  /\ Mirrored
  /\ Covers(streak, ActiveDays(dailyLog), day)

LEMMA InsertType ==
  ASSUME StreakTypes, NEW eps
  PROVE  Insert(eps) \in RowsType
BY DEF StreakTypes, Insert, RowsType

\* The tail of every tracking transaction.
LEMMA RewardsKeepStreak ==
  ASSUME StreakInv, day' = day, watchedOn' \in RowsType,
         NEW s, NEW rows, NEW was, NEW now,
         NEW fresh \in SUBSET Episodes, NEW minutes \in Nat,
         ApplyRewards(s, rows, was, now, fresh, minutes)
  PROVE  StreakInv'
<1> DEFINE active == ActiveDays(dailyLog)
<1>1. streak \in StreakRow /\ day \in Days /\ dailyLog \in LogRows
  BY DEF StreakInv, StreakTypes
<1>2. active \in SUBSET Days
  BY DEF ActiveDays
<1>3. CASE fresh = {}
  <2>1. UNCHANGED <<dailyLog, streak, statStreak>>
    BY <1>3 DEF ApplyRewards
  <2> QED BY <2>1 DEF StreakInv, StreakTypes, Mirrored
<1>4. CASE fresh # {}
  <2> DEFINE count == Cardinality(fresh)
  <2>1. /\ dailyLog' = LogActivity(count, minutes)
        /\ streak' = RecordActivity(streak, day)
        /\ statStreak' = IF streak.last # day
                         THEN [current |-> streak'.current, longest |-> streak'.longest]
                         ELSE statStreak
    BY <1>4 DEF ApplyRewards
  <2>2. count \in Nat
    BY CatalogueAssumption, FS_Subset, FS_CardinalityType
  <2> HIDE DEF count
  <2>3. ActiveDays(dailyLog') \subseteq active \cup {day}
    BY <1>1, <2>1 DEF LogActivity, ActiveDays, LogRows
  <2>4. dailyLog' \in LogRows
    BY <1>1, <2>1, <2>2 DEF LogActivity, LogRows
  <2>5. streak' \in StreakRow
    BY <1>1, <2>1, RecordActivityType
  <2>6. Mirrored'
    BY <2>1 DEF StreakInv, Mirrored, RecordActivity
  <2>7. Covers(streak, active, day)
    BY DEF StreakInv
  <2> HIDE DEF active
  <2>8. Covers(streak', ActiveDays(dailyLog'), day)
    BY <1>1, <1>2, <2>1, <2>3, <2>7, RecordCovers
  <2> QED BY <1>1, <2>4, <2>5, <2>6, <2>8 DEF StreakInv, StreakTypes
<1> QED BY <1>3, <1>4

LEMMA UnmarkKeepsStreak ==
  ASSUME StreakInv, NEW e \in Episodes, UnmarkEpisodeWatched(e)
  PROVE  StreakInv'
<1> DEFINE active == ActiveDays(dailyLog)
<1>1. /\ streak \in StreakRow /\ day \in Days /\ dailyLog \in LogRows
      /\ active \in SUBSET Days /\ Covers(streak, active, day)
  BY DEF StreakInv, StreakTypes, ActiveDays
<1>2. UNCHANGED <<day, streak, statStreak>> /\ watchedOn[e] \in Days /\ Minutes[{e}] \in Nat
  BY MinutesType DEF UnmarkEpisodeWatched, StreakInv, StreakTypes, RowsType
<1>3. dailyLog' \in LogRows /\ watchedOn' \in RowsType
  BY <1>1, <1>2 DEF UnmarkEpisodeWatched, LogRows, RowsType, StreakInv, StreakTypes
<1>4. ActiveDays(dailyLog') \in SUBSET active
  BY <1>1, <1>2 DEF UnmarkEpisodeWatched, ActiveDays, LogRows
<1>5. day <= day
  BY <1>1, DayAssumption DEF Days
<1> HIDE DEF active
<1>6. Covers(streak, ActiveDays(dailyLog'), day)
  BY <1>1, <1>4, <1>5, FewerDaysCovered
<1> QED BY <1>1, <1>2, <1>3, <1>6 DEF StreakInv, StreakTypes, Mirrored

LEMMA RemoveKeepsStreak ==
  ASSUME StreakInv, NEW s \in Shows, RemoveFromLibrary(s)
  PROVE  StreakInv'
<1> DEFINE active == ActiveDays(dailyLog)
<1>1. /\ streak \in StreakRow /\ day \in Days /\ dailyLog \in LogRows
      /\ active \in SUBSET Days /\ Covers(streak, active, day)
  BY DEF StreakInv, StreakTypes, ActiveDays
<1>2. streak' = Recompute(dailyLog, day) /\ UNCHANGED <<day, dailyLog>> /\ Mirrored'
  BY DEF RemoveFromLibrary, Mirrored
<1>3. watchedOn' \in RowsType
  BY DEF RemoveFromLibrary, StreakInv, StreakTypes, RowsType
<1>4. \A d \in active : d <= day
  BY <1>1, DayAssumption DEF Covers, Days, StreakRow, NoDay
<1>5. Covers(Recompute(dailyLog, day), active, day)
  BY <1>1, <1>4, RecomputeCovers
<1>6. streak' \in StreakRow
  BY <1>1, <1>2, RecomputeType
<1> QED BY <1>1, <1>2, <1>3, <1>5, <1>6 DEF StreakInv, StreakTypes

LEMMA StreakStep == StreakInv /\ [Next \/ RecomputeStats]_vars => StreakInv'
<1> SUFFICES ASSUME StreakInv, [Next \/ RecomputeStats]_vars PROVE StreakInv'
  OBVIOUS
<1>1. CASE SomeMark
  <2>1. PICK s \in Shows, eps \in SUBSET Episodes, minutes \in Nat : Mark(s, eps, minutes)
    BY <1>1, CatalogueTypes DEF SomeMark
  <2>2. watchedOn' \in RowsType
    BY <2>1, InsertType DEF Mark, StreakInv
  <2>3. Unwatched(eps) \in SUBSET Episodes
    BY DEF Unwatched
  <2> QED BY <2>1, <2>2, <2>3, RewardsKeepStreak DEF Mark
<1>2. CASE SomeAdd
  <2>1. PICK s \in Shows, eps \in SUBSET Episodes, status \in AddStatuses :
          AddToLibrary(s, status, eps)
    BY <1>2, CatalogueTypes DEF SomeAdd
  <2>2. watchedOn' \in RowsType
    BY <2>1, InsertType DEF AddToLibrary, StreakInv
  <2> QED BY <2>1, <2>2, RewardsKeepStreak DEF AddToLibrary
<1>3. CASE NextDay
  <2>1. /\ UNCHANGED <<streak, statStreak, dailyLog, watchedOn>>
        /\ day' = day + 1 /\ day < MaxDay
    BY <1>3 DEF NextDay
  <2>2. day \in Days /\ day' \in Days /\ day <= day'
    BY <2>1, DayAssumption DEF Days, StreakInv, StreakTypes
  <2>3. ActiveDays(dailyLog) \in SUBSET Days /\ streak \in StreakRow
          /\ Covers(streak, ActiveDays(dailyLog), day)
    BY DEF ActiveDays, StreakInv, StreakTypes
  <2>4. Covers(streak, ActiveDays(dailyLog), day')
    BY <2>2, <2>3, FewerDaysCovered
  <2> QED BY <2>1, <2>2, <2>4 DEF StreakInv, StreakTypes, Mirrored
<1>4. CASE RecomputeStats
  BY <1>4 DEF RecomputeStats, StreakInv, StreakTypes, Mirrored
<1>5. CASE UNCHANGED vars
  BY <1>5 DEF vars, StreakInv, StreakTypes, Mirrored
<1> QED BY <1>1, <1>2, <1>3, <1>4, <1>5, NextCases, UnmarkKeepsStreak, RemoveKeepsStreak

LEMMA StreakInit == Init => StreakInv
<1> SUFFICES ASSUME Init PROVE StreakInv
  OBVIOUS
<1>1. ActiveDays(dailyLog) = {} /\ dailyLog \in LogRows /\ watchedOn \in RowsType
  BY DEF Init, ActiveDays, LogRows, RowsType
<1>2. /\ streak = [current |-> 0, longest |-> 0, last |-> 0] /\ streak \in StreakRow
      /\ day \in Days /\ Mirrored
  BY DayAssumption DEF Init, NewStreak, NoDay, Mirrored, Days, StreakRow
<1>3. RunEndingOn({} \cup {0}, 0) = 0
  <2>1. RunStarts({} \cup {0}, 0) = {}
    BY DEF RunStarts
  <2> QED BY <2>1, FS_EmptySet DEF RunEndingOn, RunStarts
<1> QED BY <1>1, <1>2, <1>3, DayAssumption DEF StreakInv, StreakTypes, Covers, Days

\* The seed dates no row after the day it runs on, and finalise rebuilds the
\* streak from the log it has just rebuilt from the rows.
LEMMA StreakSeeded == SeedInit => StreakInv
<1> SUFFICES ASSUME SeedInit PROVE StreakInv
  OBVIOUS
<1>1. PICK paid : Finalised(paid)
  BY SeedFacts
<1>2. day \in Days /\ watchedOn \in RowsType /\ dailyLog \in LogRows
      /\ \A d \in ActiveDays(dailyLog) : d <= day
  BY SeedTypes
<1>6. streak = Recompute(dailyLog, day) /\ Mirrored
  BY <1>1 DEF Finalised, Mirrored
<1>7. streak \in StreakRow
  BY <1>2, <1>6, RecomputeType
<1>8. Covers(streak, ActiveDays(dailyLog), day)
  BY <1>2, <1>6, RecomputeCovers
<1> QED BY <1>2, <1>6, <1>7, <1>8 DEF StreakInv, StreakTypes

\* From an empty database or a seeded one, with the repair script run at any
\* moment: however the log is written and un-written, the streak row and its
\* mirror in user_stats never sell it short.
THEOREM StreakAlwaysCovers == SeededSpec => []StreakCoversLog
<1>1. StreakInv => StreakCoversLog
  <2> SUFFICES ASSUME StreakInv PROVE StreakCoversLog
    OBVIOUS
  <2> DEFINE active == ActiveDays(dailyLog)
  <2>1. Covers(streak, active, day) /\ Mirrored
    BY DEF StreakInv
  <2>2. streak.last \in active => active \cup {streak.last} = active
    OBVIOUS
  <2> HIDE DEF active
  <2> QED BY <2>1, <2>2 DEF Covers, Mirrored, StreakCoversLog, active
<1> QED BY <1>1, StreakInit, StreakSeeded, StreakStep, PTL DEF SeededSpec

----------------------------------------------------------------------------
(* Recomputing the statistics.                                             *)

\* What keeps the volume counters to the facts: no specials, whose minutes count
\* and whose episodes do not; seasons of equally long episodes, so that the share
\* of a partly watched one is exact; and no episodes entered by addToLibrary,
\* which counts none of them.
NothingMiscounted ==
  /\ \A e \in Episodes : IsRegular(e)
  /\ \A n \in Seasons : \E runtime \in Nat : \A S \in SUBSET SeasonEpisodes(n) :
        Minutes[S] = runtime * Cardinality(S)
  /\ "COMPLETED" \notin AddStatuses /\ AddPositions = {}

VolumeInv == EntriesInv /\ volume = RecomputedVolume

\* In each case, what the entry of a show says of its rows.
LEMMA EntrySays ==
  ASSUME ProgressDerived, NEW s \in Shows
  PROVE  /\ userShow[s].episodes = Cardinality({e \in Watched(watchedOn) \cap EpisodesOf(s) : IsRegular(e)})
         /\ userShow[s].minutes = Minutes[Watched(watchedOn) \cap EpisodesOf(s)]
         /\ userShow[s].seasons = Cardinality(CompletedSeasons(watchedOn, s))
<1> DEFINE mine == Watched(watchedOn) \cap EpisodesOf(s)
<1>1. CASE InLibrary(s)
  BY <1>1 DEF ProgressDerived
<1>2. CASE ~InLibrary(s)
  <2>1. mine = {} /\ userShow[s] = Absent
    BY <1>2 DEF ProgressDerived
  <2>2. CompletedSeasons(watchedOn, s) = {}
    <3>1. \A n \in Seasons : SeasonShow[n] = s
            => Watched(watchedOn) \cap SeasonEpisodes(n) \subseteq mine
      BY DEF SeasonEpisodes, EpisodesOf, ShowOf
    <3> HIDE DEF mine
    <3>2. \A n \in Seasons : SeasonShow[n] = s
            => Cardinality(Watched(watchedOn) \cap SeasonEpisodes(n)) = 0
      BY <2>1, <3>1, FS_EmptySet
    <3>3. \A n \in Seasons : EpisodeCount[n] \in Nat
      BY CatalogueAssumption
    <3> QED BY <3>2, <3>3 DEF CompletedSeasons
  <2>3. {e \in mine : IsRegular(e)} = {}
    BY <2>1
  <2> HIDE DEF mine
  <2>4. Cardinality({}) = 0 /\ Minutes[{}] = 0
    BY FS_EmptySet, MinutesAssumption
  <2> QED BY <2>1, <2>2, <2>3, <2>4 DEF Absent, mine
<1> QED BY <1>1, <1>2

\* A step that moves the volume by what it changes in one entry keeps it the sum.
LEMMA VolumeMoves ==
  ASSUME VolumeInv, NEW s \in Shows, NEW row \in UserShowRow,
         userShow' = [userShow EXCEPT ![s] = row],
         volume' = [episodes |-> volume.episodes + row.episodes - userShow[s].episodes,
                    minutes  |-> volume.minutes + row.minutes - userShow[s].minutes,
                    seasons  |-> volume.seasons + row.seasons - userShow[s].seasons]
  PROVE  volume' = RecomputedVolume'
<1>1. userShow \in [Shows -> UserShowRow] /\ userShow' \in [Shows -> UserShowRow]
  BY DEF VolumeInv, EntriesInv, TypeInv, TypeOK
<1>2. userShow'[s] = row /\ \A x \in Shows \ {s} : userShow'[x] = userShow[x]
  BY <1>1
<1>3. ASSUME NEW u \in [Shows -> UserShowRow]
      PROVE  /\ [x \in Shows |-> u[x].episodes] \in [Shows -> Int]
             /\ [x \in Shows |-> u[x].minutes] \in [Shows -> Int]
             /\ [x \in Shows |-> u[x].seasons] \in [Shows -> Int]
  <2>1. \A x \in Shows : u[x].episodes \in Int /\ u[x].minutes \in Int /\ u[x].seasons \in Int
    BY DEF UserShowRow
  <2> QED BY <2>1
<1>4. ASSUME NEW f \in [Shows -> Int], NEW k \in [Shows -> Int], \A x \in Shows \ {s} : f[x] = k[x]
      PROVE  SumFunction(f) \in Int /\ SumFunction(k) = SumFunction(f) - f[s] + k[s]
  BY <1>4, CatalogueAssumption, SumMoves
<1> DEFINE E(u) == [x \in Shows |-> u[x].episodes]
           M(u) == [x \in Shows |-> u[x].minutes]
           N(u) == [x \in Shows |-> u[x].seasons]
<1>5. /\ E(userShow)[s] = userShow[s].episodes /\ E(userShow')[s] = row.episodes
      /\ M(userShow)[s] = userShow[s].minutes /\ M(userShow')[s] = row.minutes
      /\ N(userShow)[s] = userShow[s].seasons /\ N(userShow')[s] = row.seasons
      /\ \A x \in Shows \ {s} : /\ E(userShow)[x] = E(userShow')[x]
                                /\ M(userShow)[x] = M(userShow')[x]
                                /\ N(userShow)[x] = N(userShow')[x]
  BY <1>2
<1>6. /\ E(userShow) \in [Shows -> Int] /\ E(userShow') \in [Shows -> Int]
      /\ M(userShow) \in [Shows -> Int] /\ M(userShow') \in [Shows -> Int]
      /\ N(userShow) \in [Shows -> Int] /\ N(userShow') \in [Shows -> Int]
  BY <1>1, <1>3
<1>7. /\ volume.episodes = SumFunction(E(userShow))
      /\ volume.minutes = SumFunction(M(userShow))
      /\ volume.seasons = SumFunction(N(userShow))
  BY DEF VolumeInv, RecomputedVolume
<1>8. RecomputedVolume' = [episodes |-> SumFunction(E(userShow')),
                           minutes |-> SumFunction(M(userShow')),
                           seasons |-> SumFunction(N(userShow'))]
  BY DEF RecomputedVolume
<1> HIDE DEF E, M, N
<1>9. /\ SumFunction(E(userShow')) = volume.episodes - userShow[s].episodes + row.episodes
      /\ volume.episodes \in Int
  <2>1. \A x \in Shows \ {s} : E(userShow)[x] = E(userShow')[x]
    BY <1>5
  <2>2. /\ SumFunction(E(userShow)) \in Int
        /\ SumFunction(E(userShow')) = SumFunction(E(userShow)) - E(userShow)[s] + E(userShow')[s]
    BY <2>1, <1>4, <1>6
  <2> QED BY <2>2, <1>5, <1>7
<1>10. /\ SumFunction(M(userShow')) = volume.minutes - userShow[s].minutes + row.minutes
       /\ volume.minutes \in Int
  <2>1. \A x \in Shows \ {s} : M(userShow)[x] = M(userShow')[x]
    BY <1>5
  <2>2. /\ SumFunction(M(userShow)) \in Int
        /\ SumFunction(M(userShow')) = SumFunction(M(userShow)) - M(userShow)[s] + M(userShow')[s]
    BY <2>1, <1>4, <1>6
  <2> QED BY <2>2, <1>5, <1>7
<1>11. /\ SumFunction(N(userShow')) = volume.seasons - userShow[s].seasons + row.seasons
       /\ volume.seasons \in Int
  <2>1. \A x \in Shows \ {s} : N(userShow)[x] = N(userShow')[x]
    BY <1>5
  <2>2. /\ SumFunction(N(userShow)) \in Int
        /\ SumFunction(N(userShow')) = SumFunction(N(userShow)) - N(userShow)[s] + N(userShow')[s]
    BY <2>1, <1>4, <1>6
  <2> QED BY <2>2, <1>5, <1>7
<1>12. /\ userShow[s].episodes \in Int /\ row.episodes \in Int
       /\ userShow[s].minutes \in Int /\ row.minutes \in Int
       /\ userShow[s].seasons \in Int /\ row.seasons \in Int
  BY <1>1 DEF UserShowRow
<1> QED BY <1>8, <1>9, <1>10, <1>11, <1>12

\* The rounded share of a season of equally long episodes is exact.
LEMMA ShareIsExact ==
  ASSUME NothingMiscounted, NEW n \in Seasons
  PROVE  SeasonShare(n) = Minutes[Unwatched(SeasonEpisodes(n))]
<1> DEFINE all   == SeasonEpisodes(n)
           fresh == Unwatched(all)
<1>1. PICK r \in Nat : \A S \in SUBSET all : Minutes[S] = r * Cardinality(S)
  BY DEF NothingMiscounted
<1>2. /\ all \in SUBSET Episodes /\ fresh \in SUBSET all
      /\ IsFiniteSet(all) /\ IsFiniteSet(fresh)
      /\ Cardinality(all) \in Nat /\ Cardinality(fresh) \in Nat
  <2>1. all \in SUBSET Episodes /\ fresh \in SUBSET all
    BY DEF SeasonEpisodes, Unwatched
  <2> QED BY <2>1, CatalogueAssumption, FS_Subset, FS_CardinalityType
<1> HIDE DEF all, fresh
<1>3. CASE fresh = {}
  BY <1>3, MinutesAssumption DEF SeasonShare, all, fresh
<1>4. CASE fresh # {}
  <2> DEFINE a == Cardinality(all)
             f == Cardinality(fresh)
             q == r * f
  <2>1. a \in Nat \ {0} /\ f \in Nat /\ q \in Nat
    BY <1>2, <1>4, FS_EmptySet
  <2>2. SeasonShare(n) = RoundedQuotient(Minutes[all] * f, a)
    BY <1>4 DEF SeasonShare, all, fresh
  <2>3. Minutes[all] = r * a /\ Minutes[fresh] = q
    BY <1>1, <1>2
  <2> HIDE DEF a, f
  <2>4. (r * a) * f = q * a
    BY <2>1
  <2> HIDE DEF q
  <2>5. ASSUME NEW x \in Nat, NEW b \in Nat \ {0} PROVE RoundedQuotient(x * b, b) = x
    <3> DEFINE m == 2 * (x * b) + b
               d == m \div (2 * b)
               rest == m % (2 * b)
    <3>1. x * b \in Nat /\ 2 * b \in Nat \ {0} /\ m \in Nat
      BY <2>5
    <3>2. d \in Int /\ rest \in 0..(2 * b - 1) /\ m = (2 * b) * d + rest
      <4>1. ASSUME NEW c \in Nat \ {0}, NEW k \in Nat
            PROVE  /\ k \div c \in Int /\ k % c \in 0..(c - 1)
                   /\ k = c * (k \div c) + (k % c)
        BY <4>1
      <4> HIDE DEF m
      <4> QED BY <3>1, <4>1
    <3> HIDE DEF d, rest
    <3>3. d >= x + 1 => b * d >= b * (x + 1)
      BY <3>2
    <3>4. d <= x - 1 => b * d <= b * (x - 1)
      BY <3>2
    <3>5. b * (x + 1) = x * b + b /\ b * (x - 1) = x * b - b /\ (2 * b) * d = 2 * (b * d)
          /\ b * d \in Int
      BY <3>2
    <3>6. d = x
      BY <3>1, <3>2, <3>3, <3>4, <3>5
    <3> QED BY <3>6 DEF RoundedQuotient, d
  <2>6. RoundedQuotient(Minutes[all] * f, a) = q
    BY <2>1, <2>3, <2>4, <2>5
  <2> QED BY <2>2, <2>3, <2>6 DEF fresh, all
<1> QED BY <1>3, <1>4

\* What each call may do when nothing is miscounted.
ExactMark ==
  \E s \in Shows : \E eps \in SUBSET EpisodesOf(s) : Mark(s, eps, Minutes[Unwatched(eps)])

PlainAdd ==
  \E s \in Shows : \E status \in Statuses \ {"COMPLETED"} : AddToLibrary(s, status, {})

\* Every call is one of these, its minutes those of the rows it enters.
LEMMA ExactCases ==
  ASSUME NothingMiscounted, Next
  PROVE  \/ ExactMark
         \/ \E e \in Episodes : UnmarkEpisodeWatched(e)
         \/ PlainAdd
         \/ \E s \in Shows : RemoveFromLibrary(s)
         \/ NextDay
<1>1. ASSUME NEW e \in Episodes, MarkEpisodeWatched(e) PROVE ExactMark
  <2>1. ShowOf(e) \in Shows /\ {e} \in SUBSET EpisodesOf(ShowOf(e))
    BY CatalogueTypes DEF EpisodesOf
  <2> QED BY <1>1, <2>1 DEF MarkEpisodeWatched, ExactMark
<1>2. ASSUME NEW n \in Seasons, MarkSeasonWatched(n) PROVE ExactMark
  <2>1. /\ SeasonShow[n] \in Shows
        /\ SeasonEpisodes(n) \in SUBSET EpisodesOf(SeasonShow[n])
    BY CatalogueTypes DEF EpisodesOf, SeasonEpisodes, ShowOf
  <2> QED BY <1>2, <2>1, ShareIsExact DEF MarkSeasonWatched, ExactMark
<1>3. ASSUME NEW e \in Episodes, MarkWatchedUpTo(e) PROVE ExactMark
  <2>1. ShowOf(e) \in Shows /\ UpTo(e) \in SUBSET EpisodesOf(ShowOf(e))
    BY CatalogueTypes
  <2> QED BY <1>3, <2>1 DEF MarkWatchedUpTo, ExactMark
<1>4. ASSUME NEW s \in Shows, ContinueWatching(s)
      PROVE  \E e \in Episodes : MarkEpisodeWatched(e)
  <2>1. Unwatched(RegularEpisodes(s)) \subseteq Episodes
    BY CatalogueTypes DEF Unwatched
  <2> QED BY <1>4, <2>1 DEF ContinueWatching
<1>5. ASSUME NEW s \in Shows, NEW status \in AddStatuses, AddToLibrary(s, status, {})
      PROVE  PlainAdd
  BY <1>5, InputAssumption DEF PlainAdd, NothingMiscounted
<1> QED BY <1>1, <1>2, <1>3, <1>4, <1>5 DEF Next, NothingMiscounted

\* The rows of a show, before and after it gains some.
Gains(old, new, s, fresh) ==
  /\ fresh \in SUBSET EpisodesOf(s)
  /\ \A e \in fresh : old[e] = NotWatched
  /\ \A e \in EpisodesOf(s) : new[e] # NotWatched <=> old[e] # NotWatched \/ e \in fresh

RegularCount(rows, s) == Cardinality({e \in Watched(rows) \cap EpisodesOf(s) : IsRegular(e)})

MinutesIn(rows, s) == Minutes[Watched(rows) \cap EpisodesOf(s)]

LEMMA RowsGain ==
  ASSUME NothingMiscounted, NEW old, NEW new, NEW s \in Shows, NEW fresh,
         Gains(old, new, s, fresh)
  PROVE  /\ RegularCount(new, s) = RegularCount(old, s) + Cardinality(fresh)
         /\ MinutesIn(new, s) = MinutesIn(old, s) + Minutes[fresh]
         /\ RegularCount(old, s) \in Nat /\ Cardinality(fresh) \in Nat
         /\ MinutesIn(old, s) \in Nat /\ Minutes[fresh] \in Nat
<1> DEFINE was == Watched(old) \cap EpisodesOf(s)
           now == Watched(new) \cap EpisodesOf(s)
<1>1. /\ was \in SUBSET Episodes /\ fresh \in SUBSET Episodes
      /\ now = was \cup fresh /\ was \cap fresh = {}
  BY CatalogueTypes DEF Gains, Watched
<1>2. {e \in now : IsRegular(e)} = now /\ {e \in was : IsRegular(e)} = was
  BY DEF NothingMiscounted, Watched
<1> HIDE DEF was, now
<1>3. IsFiniteSet(was) /\ IsFiniteSet(fresh)
  BY <1>1, CatalogueAssumption, FS_Subset
<1>4. Cardinality(was) \in Nat /\ Cardinality(fresh) \in Nat
  BY <1>3, FS_CardinalityType
<1>5. Cardinality(now) = Cardinality(was) + Cardinality(fresh)
  <2>1. Cardinality(was \cup fresh)
          = Cardinality(was) + Cardinality(fresh) - Cardinality(was \cap fresh)
    BY <1>3, FS_Union
  <2>2. Cardinality(was \cap fresh) = 0
    BY <1>1, FS_EmptySet
  <2> QED BY <1>1, <1>4, <2>1, <2>2
<1>6. Minutes[now] = Minutes[was] + Minutes[fresh]
      /\ Minutes[was] \in Nat /\ Minutes[fresh] \in Nat
  BY <1>1, MinutesAssumption, MinutesType
<1> QED BY <1>2, <1>4, <1>5, <1>6 DEF was, now, RegularCount, MinutesIn

\* A mark moves the volume by what it changes in the entry of its show.
LEMMA MarkCounts ==
  ASSUME NothingMiscounted, VolumeInv, ExactMark
  PROVE  volume' = RecomputedVolume'
<1>0. PICK s \in Shows : \E eps \in SUBSET EpisodesOf(s) : Mark(s, eps, Minutes[Unwatched(eps)])
  BY DEF ExactMark
<1>1. PICK eps \in SUBSET EpisodesOf(s) : Mark(s, eps, Minutes[Unwatched(eps)])
  BY <1>0
<1> DEFINE base  == EnsureUserShow(s)
           fresh == Unwatched(eps)
           now   == SyncProgress(Insert(eps), s, base, NotInLibrary)
<1>2. TypeOK /\ userShow[s] \in UserShowRow /\ ProgressDerived
  BY DEF VolumeInv, EntriesInv, TypeInv, TypeOK
<1>3. base.status \in Statuses /\ base.seasons = userShow[s].seasons
  <2>1. CASE InLibrary(s)
    BY <1>2, <2>1 DEF EnsureUserShow, InLibrary, UserShowRow
  <2>2. CASE ~InLibrary(s)
    <3>1. userShow[s] = Absent
      BY <1>2, <2>2 DEF ProgressDerived
    <3> QED BY <2>2, <3>1 DEF EnsureUserShow, Absent, Statuses
  <2> QED BY <2>1, <2>2
<1>4. /\ watchedOn' = Insert(eps)
      /\ userShow' = [userShow EXCEPT ![s] = now]
      /\ ApplyRewards(s, Insert(eps), base, now, fresh, Minutes[fresh])
  BY <1>1 DEF Mark
<1>5. now \in UserShowRow /\ Caches(Insert(eps), s, now) /\ now.status # NotInLibrary
  BY <1>3, SyncProgressType, SyncProgressCaches, NoEntryIsNoStatus
<1>6. volume' = IF fresh # {}
                THEN [episodes |-> volume.episodes + Cardinality(fresh),
                      minutes  |-> volume.minutes + Minutes[fresh],
                      seasons  |-> volume.seasons + now.seasons - base.seasons]
                ELSE volume
  BY <1>4 DEF ApplyRewards
<1>7. /\ fresh \in SUBSET EpisodesOf(s)
      /\ \A e \in fresh : watchedOn[e] = NotWatched
      /\ \A e \in EpisodesOf(s) :
            Insert(eps)[e] # NotWatched <=> watchedOn[e] # NotWatched \/ e \in fresh
      /\ fresh = {} => Insert(eps) = watchedOn
  <2>1. day # NotWatched /\ watchedOn \in [Episodes -> Days \cup {NotWatched}]
    BY <1>2 DEF TypeOK, Days, NotWatched
  <2> QED BY <2>1 DEF Unwatched, Insert, EpisodesOf
<1> HIDE DEF now, base, fresh
<1>8. /\ now.episodes = userShow[s].episodes + Cardinality(fresh)
      /\ now.minutes = userShow[s].minutes + Minutes[fresh]
  <2>1. now.episodes = RegularCount(Insert(eps), s) /\ now.minutes = MinutesIn(Insert(eps), s)
    BY <1>5 DEF Caches, RegularCount, MinutesIn
  <2>2. /\ userShow[s].episodes = RegularCount(watchedOn, s)
        /\ userShow[s].minutes = MinutesIn(watchedOn, s)
    BY <1>2, EntrySays DEF RegularCount, MinutesIn
  <2>3. Gains(watchedOn, Insert(eps), s, fresh)
    BY <1>7 DEF Gains
  <2>4. /\ RegularCount(Insert(eps), s) = RegularCount(watchedOn, s) + Cardinality(fresh)
        /\ MinutesIn(Insert(eps), s) = MinutesIn(watchedOn, s) + Minutes[fresh]
    BY <2>3, RowsGain, ZenonT(40)
  <2> QED BY <2>1, <2>2, <2>4
<1>9. fresh = {} => now.seasons = userShow[s].seasons
  <2>1. now.seasons = Cardinality(CompletedSeasons(Insert(eps), s))
    BY <1>5 DEF Caches
  <2> QED BY <2>1, <1>2, <1>7, EntrySays
<1>10. /\ userShow[s].episodes \in Nat /\ userShow[s].minutes \in Nat /\ userShow[s].seasons \in Nat
       /\ now.seasons \in Nat /\ Cardinality(fresh) \in Nat /\ Minutes[fresh] \in Nat
       /\ volume \in [episodes : Int, minutes : Int, seasons : Int]
  <2>1. fresh \in SUBSET Episodes
    BY <1>7, CatalogueTypes
  <2>2. Cardinality(fresh) \in Nat /\ Minutes[fresh] \in Nat
    BY <2>1, CatalogueAssumption, FS_Subset, FS_CardinalityType, MinutesType
  <2> QED BY <2>2, <1>2, <1>5 DEF UserShowRow, TypeOK
<1>11. volume' = [episodes |-> volume.episodes + now.episodes - userShow[s].episodes,
                  minutes  |-> volume.minutes + now.minutes - userShow[s].minutes,
                  seasons  |-> volume.seasons + now.seasons - userShow[s].seasons]
  <2>1. CASE fresh = {}
    <3>1. Cardinality(fresh) = 0 /\ Minutes[fresh] = 0
      BY <2>1, FS_EmptySet, MinutesAssumption
    <3> QED BY <2>1, <3>1, <1>6, <1>8, <1>9, <1>10
  <2>2. CASE fresh # {}
    BY <2>2, <1>3, <1>6, <1>8, <1>10
  <2> QED BY <2>1, <2>2
<1> QED BY <1>4, <1>5, <1>11, VolumeMoves

\* An add that enters no episode leaves the volume and the sums alone.
LEMMA AddCounts ==
  ASSUME NothingMiscounted, VolumeInv, PlainAdd
  PROVE  volume' = RecomputedVolume'
<1>0. PICK s \in Shows : \E status \in Statuses \ {"COMPLETED"} : AddToLibrary(s, status, {})
  BY DEF PlainAdd
<1>1. PICK status \in Statuses \ {"COMPLETED"} : AddToLibrary(s, status, {})
  BY <1>0
<1> DEFINE base == IF InLibrary(s) THEN [userShow[s] EXCEPT !.status = status]
                   ELSE [Absent EXCEPT !.status = status]
           now  == SyncProgress(Insert({}), s, base, status)
<1>2. TypeOK /\ userShow[s] \in UserShowRow /\ ProgressDerived
  BY DEF VolumeInv, EntriesInv, TypeInv, TypeOK
<1>3. base.status \in Statuses
  BY <1>2 DEF UserShowRow, Absent
<1>4. /\ userShow' = [userShow EXCEPT ![s] = now]
      /\ ApplyRewards(s, Insert({}), base, now, {}, 0)
  BY <1>1 DEF AddToLibrary
<1>5. Insert({}) = watchedOn
  BY <1>2 DEF Insert, TypeOK
<1>6. now \in UserShowRow /\ Caches(watchedOn, s, now) /\ now.status # NotInLibrary
  BY <1>3, <1>5, SyncProgressType, SyncProgressCaches, NoEntryIsNoStatus
<1>7. volume' = volume
  BY <1>4 DEF ApplyRewards
<1> HIDE DEF now, base
<1>8. /\ now.episodes = userShow[s].episodes /\ now.minutes = userShow[s].minutes
      /\ now.seasons = userShow[s].seasons
  BY <1>2, <1>6, EntrySays DEF Caches
<1>9. volume' = [episodes |-> volume.episodes + now.episodes - userShow[s].episodes,
                 minutes  |-> volume.minutes + now.minutes - userShow[s].minutes,
                 seasons  |-> volume.seasons + now.seasons - userShow[s].seasons]
  BY <1>2, <1>6, <1>7, <1>8 DEF TypeOK, UserShowRow
<1> QED BY <1>4, <1>6, <1>9, VolumeMoves

\* An unmark takes back what marking the episode added.
LEMMA UnmarkCounts ==
  ASSUME NothingMiscounted, VolumeInv, NEW e \in Episodes, UnmarkEpisodeWatched(e)
  PROVE  volume' = RecomputedVolume'
<1> DEFINE s    == ShowOf(e)
           rows == [watchedOn EXCEPT ![e] = NotWatched]
           now  == SyncProgress(rows, s, userShow[s], NotInLibrary)
<1>1. s \in Shows /\ TypeOK /\ userShow[s] \in UserShowRow /\ ProgressDerived
  BY CatalogueTypes DEF VolumeInv, EntriesInv, TypeInv, TypeOK
<1>2. userShow[s].status \in Statuses
  BY <1>1 DEF UserShowRow, UnmarkEpisodeWatched, InLibrary
<1>3. /\ userShow' = [userShow EXCEPT ![s] = now]
      /\ volume' = [episodes |-> volume.episodes - 1,
                    minutes  |-> volume.minutes - Minutes[{e}],
                    seasons  |-> volume.seasons + now.seasons - userShow[s].seasons]
      /\ watchedOn[e] # NotWatched
  BY DEF UnmarkEpisodeWatched
<1>4. now \in UserShowRow /\ Caches(rows, s, now) /\ now.status # NotInLibrary
  BY <1>1, <1>2, SyncProgressType, SyncProgressCaches, NoEntryIsNoStatus
<1>5. Gains(rows, watchedOn, s, {e})
  <2>1. watchedOn \in [Episodes -> Days \cup {NotWatched}]
    BY <1>1 DEF TypeOK
  <2> QED BY <1>3, <2>1 DEF Gains, EpisodesOf
<1> HIDE DEF now, rows, s
<1>6. now.episodes = RegularCount(rows, s) /\ now.minutes = MinutesIn(rows, s)
  BY <1>4 DEF Caches, RegularCount, MinutesIn
<1>7. userShow[s].episodes = RegularCount(watchedOn, s) /\ userShow[s].minutes = MinutesIn(watchedOn, s)
  BY <1>1, EntrySays DEF RegularCount, MinutesIn
<1>8. /\ userShow[s].episodes = now.episodes + Cardinality({e})
      /\ userShow[s].minutes = now.minutes + Minutes[{e}]
      /\ Minutes[{e}] \in Nat
  <2>1. /\ RegularCount(watchedOn, s) = RegularCount(rows, s) + Cardinality({e})
        /\ MinutesIn(watchedOn, s) = MinutesIn(rows, s) + Minutes[{e}]
        /\ Minutes[{e}] \in Nat
    <3>1. s \in Shows
      BY <1>1
    <3> QED BY <3>1, <1>5, RowsGain, ZenonT(40)
  <2> QED BY <1>6, <1>7, <2>1
<1>9. Cardinality({e}) = 1
  BY FS_Singleton
<1>10. volume' = [episodes |-> volume.episodes + now.episodes - userShow[s].episodes,
                  minutes  |-> volume.minutes + now.minutes - userShow[s].minutes,
                  seasons  |-> volume.seasons + now.seasons - userShow[s].seasons]
  <2>1. /\ userShow[s].episodes \in Nat /\ userShow[s].minutes \in Nat
        /\ now.episodes \in Nat /\ now.minutes \in Nat
        /\ volume.episodes \in Int /\ volume.minutes \in Int
    BY <1>1, <1>4 DEF TypeOK, UserShowRow
  <2>2. volume.episodes - 1 = volume.episodes + now.episodes - userShow[s].episodes
    BY <1>8, <1>9, <2>1
  <2>3. volume.minutes - Minutes[{e}] = volume.minutes + now.minutes - userShow[s].minutes
    BY <1>8, <2>1
  <2> QED BY <1>3, <2>2, <2>3
<1> QED BY <1>1, <1>3, <1>4, <1>10, VolumeMoves

\* A removal takes out all that the entry counted.
LEMMA RemoveCounts ==
  ASSUME VolumeInv, NEW s \in Shows, RemoveFromLibrary(s)
  PROVE  volume' = RecomputedVolume'
<1>1. /\ TypeOK /\ userShow[s] \in UserShowRow /\ Absent \in UserShowRow
      /\ Absent.episodes = 0 /\ Absent.minutes = 0 /\ Absent.seasons = 0
  BY DEF VolumeInv, EntriesInv, TypeInv, TypeOK, Absent, UserShowRow
<1>2. /\ userShow' = [userShow EXCEPT ![s] = Absent]
      /\ volume' = [episodes |-> volume.episodes - userShow[s].episodes,
                    minutes  |-> volume.minutes - userShow[s].minutes,
                    seasons  |-> volume.seasons - userShow[s].seasons]
  BY DEF RemoveFromLibrary
<1>3. volume' = [episodes |-> volume.episodes + Absent.episodes - userShow[s].episodes,
                 minutes  |-> volume.minutes + Absent.minutes - userShow[s].minutes,
                 seasons  |-> volume.seasons + Absent.seasons - userShow[s].seasons]
  BY <1>1, <1>2 DEF TypeOK, UserShowRow
<1> QED BY <1>1, <1>2, <1>3, VolumeMoves

\* Nothing is counted in an empty database.
LEMMA VolumeInit == Init => VolumeInv
<1> SUFFICES ASSUME Init PROVE VolumeInv
  OBVIOUS
<1>1. \A s \in Shows : userShow[s] = Absent
  BY DEF Init
<1>2. /\ [s \in Shows |-> userShow[s].episodes] = [s \in Shows |-> 0]
      /\ [s \in Shows |-> userShow[s].minutes] = [s \in Shows |-> 0]
      /\ [s \in Shows |-> userShow[s].seasons] = [s \in Shows |-> 0]
  BY <1>1 DEF Absent
<1>3. SumFunction([s \in Shows |-> 0]) = 0
  <2>1. [s \in Shows |-> 0] \in [Shows -> Int] /\ \A s \in Shows : [x \in Shows |-> 0][s] = 0
    OBVIOUS
  <2> QED BY <2>1, CatalogueAssumption, SumOfZeros
<1> QED BY <1>2, <1>3, LibraryInit DEF Init, VolumeInv, LibraryInv, RecomputedVolume

\* The seed sets the volume by the same sums.
LEMMA VolumeSeeded == SeedInit => VolumeInv
<1> SUFFICES ASSUME SeedInit PROVE VolumeInv
  OBVIOUS
<1>1. PICK paid : Finalised(paid)
  BY SeedFacts
<1> QED BY <1>1, EntriesSeeded DEF VolumeInv, Finalised

\* No call and no repair makes the volume differ from the sums.
LEMMA VolumeStep ==
  ASSUME NothingMiscounted, VolumeInv, [Next \/ RecomputeStats]_vars
  PROVE  VolumeInv'
<1>1. EntriesInv'
  BY EntriesStep DEF VolumeInv
<1>2. ASSUME UNCHANGED <<userShow, volume>> PROVE volume' = RecomputedVolume'
  BY <1>2 DEF VolumeInv, RecomputedVolume
<1>3. CASE Next
  <2>1. ASSUME NextDay PROVE volume' = RecomputedVolume'
    BY <1>2, <2>1 DEF NextDay
  <2>2. volume' = RecomputedVolume'
    <3>1. CASE ExactMark
      BY <3>1, MarkCounts
    <3>2. CASE \E e \in Episodes : UnmarkEpisodeWatched(e)
      BY <3>2, UnmarkCounts
    <3>3. CASE PlainAdd
      BY <3>3, AddCounts
    <3>4. CASE \E s \in Shows : RemoveFromLibrary(s)
      BY <3>4, RemoveCounts
    <3>5. CASE NextDay
      BY <2>1, <3>5
    <3> QED BY <1>3, <3>1, <3>2, <3>3, <3>4, <3>5, ExactCases
  <2> QED BY <1>1, <2>2 DEF VolumeInv
<1>4. CASE RecomputeStats
  <2>1. volume' = RecomputedVolume /\ userShow' = userShow
    BY <1>4 DEF RecomputeStats
  <2> QED BY <1>1, <2>1 DEF VolumeInv, RecomputedVolume
<1>5. CASE UNCHANGED vars
  BY <1>1, <1>2, <1>5 DEF vars, VolumeInv
<1> QED BY <1>3, <1>4, <1>5

\* A full recompute of user_stats changes nothing after any calls and repairs,
\* from an empty database or a seeded one, for every catalogue and input that
\* leaves the volume nothing to miscount: the three ways of drifting named in
\* NothingMiscounted are all there are.
THEOREM RecomputeChangesNothing ==
  ASSUME NothingMiscounted
  PROVE  SeededSpec => []RecomputeIsNoOp
<1>1. VolumeInv /\ [Next \/ RecomputeStats]_vars => VolumeInv'
  BY VolumeStep
<1>2. VolumeInv /\ StreakInv => RecomputeIsNoOp
  BY DEF VolumeInv, EntriesInv, TypeInv, StatusCountersAgree, LedgerAgrees, StreakInv, Mirrored,
         RecomputeIsNoOp
<1> QED BY <1>1, <1>2, VolumeInit, VolumeSeeded, StreakInit, StreakSeeded, StreakStep, PTL
        DEF SeededSpec
----------------------------------------------------------------------------
(* The achievements.                                                       *)

\* The achievements the property speaks of, and those that unlocks cascade to.
Gauged  == {h \in Achievements :
              AchMetric[h] \notin {"SHOWS_COMPLETED", "ANIME_COMPLETED", "TV_COMPLETED"}}
OnLevel == {h \in Achievements : AchMetric[h] = "LEVEL"}

\* What the list must be like for three passes to be enough: nothing is due at
\* the start, and what the lower level achievements pay does not carry anyone
\* from one level achievement to the next.
AchievementsSettle ==
  /\ \A h \in Achievements : AchThreshold[h] > 0
  /\ \A h \in OnLevel : AchThreshold[h] > 1
  /\ \A g, h \in OnLevel :
        AchThreshold[g] < AchThreshold[h] /\ AchThreshold[h] <= MaxLevel
          => LevelXp[AchThreshold[g]]
               + RewardOf[{k \in OnLevel : AchThreshold[k] < AchThreshold[h]}]
             < LevelXp[AchThreshold[h]]

\* MetricReaches, for the achievements of Gauged.
Reached(h, vol, run, log, level) ==
  LET n == AchThreshold[h]
  IN  \/ AchMetric[h] = "EPISODES_WATCHED" /\ vol.episodes >= n
      \/ AchMetric[h] = "SEASONS_COMPLETED" /\ vol.seasons >= n
      \/ AchMetric[h] = "MINUTES_WATCHED" /\ vol.minutes >= n
      \/ AchMetric[h] = "EPISODES_IN_ONE_DAY" /\ \E d \in Days : log[d].episodes >= n
      \/ AchMetric[h] = "CURRENT_STREAK" /\ run.current >= n
      \/ AchMetric[h] = "LONGEST_STREAK" /\ run.longest >= n
      \/ h \in OnLevel /\ level >= n

Settled(a, vol, run, log) ==
  \A h \in Gauged \ a.paid["achievement"] : ~Reached(h, vol, run, log, a.level)

\* Of those achievements MetricReaches says just that.
LEMMA ReachedIs ==
  ASSUME AchievementsSettle, NEW h \in Gauged, NEW vol, NEW run, NEW log, NEW level
  PROVE  MetricReaches(AchMetric[h], AchThreshold[h], vol, run, log, level)
           <=> Reached(h, vol, run, log, level)
<1>1. AchThreshold[h] \in Nat /\ AchThreshold[h] > 0 /\ h \in Achievements
  BY AchievementAssumption DEF AchievementsSettle, Gauged
<1> QED BY <1>1 DEF MetricReaches, Reached, Gauged, OnLevel

\* The property, in these terms.
LEMMA UnlocksAre ==
  ASSUME AchievementsSettle
  PROVE  Settled(account, volume, statStreak, dailyLog) => UnlocksUpToDate
BY ReachedIs DEF Settled, UnlocksUpToDate, Gauged

\* A total has reached a level when it has reached the level's threshold.
LEMMA LevelReached ==
  ASSUME NEW x \in Nat, NEW n \in 1..MaxLevel
  PROVE  XpToLevel(x) >= n <=> LevelXp[n] <= x
<1> DEFINE R == {l \in 1..MaxLevel : LevelXp[l] <= x}
<1>1. IsFiniteSet(R) /\ MaxLevel \in Nat /\ n \in Nat /\ n >= 1
  <2>1. IsFiniteSet(1..MaxLevel) /\ R \in SUBSET (1..MaxLevel)
    BY FS_Interval, LevelAssumption
  <2> QED BY <2>1, FS_Subset, LevelAssumption
<1>2. ASSUME LevelXp[n] <= x PROVE Cardinality(R) >= n
  <2>1. \A l \in 1..n : LevelXp[l] <= LevelXp[n] /\ LevelXp[l] \in Nat
    BY LevelAssumption
  <2>2. 1..n \in SUBSET R
    BY <1>1, <1>2, <2>1, LevelAssumption
  <2>3. Cardinality(1..n) = n
    BY <1>1, FS_Interval
  <2> HIDE DEF R
  <2>4. Cardinality(1..n) <= Cardinality(R)
    BY <1>1, <2>2, FS_Subset
  <2> QED BY <2>3, <2>4
<1>3. ASSUME LevelXp[n] > x PROVE Cardinality(R) <= n - 1
  <2>1. \A l \in n..MaxLevel : LevelXp[n] <= LevelXp[l] /\ LevelXp[l] \in Nat
    BY LevelAssumption
  <2>2. R \in SUBSET (1..(n - 1))
    BY <1>1, <1>3, <2>1, LevelAssumption
  <2>3. IsFiniteSet(1..(n - 1)) /\ Cardinality(1..(n - 1)) = n - 1
    BY <1>1, FS_Interval
  <2> HIDE DEF R
  <2>4. Cardinality(R) <= Cardinality(1..(n - 1))
    BY <2>2, <2>3, FS_Subset
  <2> QED BY <2>3, <2>4
<1>4. Cardinality(R) \in Nat /\ LevelXp[n] \in Nat
  BY <1>1, FS_CardinalityType, LevelAssumption
<1> HIDE DEF R
<1>5. Cardinality(R) >= n <=> LevelXp[n] <= x
  BY <1>1, <1>2, <1>3, <1>4
<1> QED BY <1>5 DEF XpToLevel, R

\* What one pass unlocks.
Due(a, vol, run, log) ==
  {h \in Achievements \ a.paid["achievement"] :
     MetricReaches(AchMetric[h], AchThreshold[h], vol, run, log, a.level)}

\* Only the level achievements look at the account.
LEMMA LevelOnly ==
  ASSUME NEW h \in Achievements \ OnLevel, NEW vol, NEW run, NEW log, NEW l, NEW m
  PROVE  MetricReaches(AchMetric[h], AchThreshold[h], vol, run, log, l)
           = MetricReaches(AchMetric[h], AchThreshold[h], vol, run, log, m)
BY DEF MetricReaches, OnLevel

\* A pass pays for what is due and nothing else.
LEMMA PassPays ==
  ASSUME NEW a, AccountOK(a), Balanced(a), NEW vol, NEW run, NEW log
  PROVE  /\ Grown(a, UnlockPass(a, vol, run, log))
         /\ Due(a, vol, run, log) \in SUBSET (Achievements \ a.paid["achievement"])
         /\ UnlockPass(a, vol, run, log).paid["achievement"]
              = a.paid["achievement"] \cup Due(a, vol, run, log)
         /\ UnlockPass(a, vol, run, log).xpTotal = a.xpTotal + RewardOf[Due(a, vol, run, log)]
<1> DEFINE keys == Due(a, vol, run, log)
           b    == Award(a, "achievement", keys)
<1>1. keys \in SUBSET (Achievements \ a.paid["achievement"]) /\ "achievement" \in Kinds
  BY DEF Due, Kinds
<1>2. UnlockPass(a, vol, run, log) = b
  BY DEF UnlockPass, Due
<1> HIDE DEF keys
<1>3. Grown(a, b)
  BY <1>1, AwardGrows DEF Subjects
<1>4. keys \ a.paid["achievement"] = keys
  BY <1>1
<1>5. /\ b.paid = [a.paid EXCEPT !["achievement"] = @ \cup keys]
      /\ b.xpTotal = a.xpTotal + Amount("achievement", keys)
  BY <1>4 DEF Award
<1>6. b.paid["achievement"] = a.paid["achievement"] \cup keys
  BY <1>1, <1>5 DEF AccountOK
<1> QED BY <1>1, <1>2, <1>3, <1>5, <1>6 DEF keys, Amount

\* Rewards add up, so fewer achievements pay no more.
LEMMA RewardGrows ==
  ASSUME NEW S \in SUBSET Achievements, NEW T \in SUBSET S
  PROVE  RewardOf[T] \in Nat /\ RewardOf[S] \in Nat /\ RewardOf[T] <= RewardOf[S]
<1>1. S = T \cup (S \ T) /\ T \cap (S \ T) = {}
  OBVIOUS
<1>2. T \in SUBSET Achievements /\ S \ T \in SUBSET Achievements
  OBVIOUS
<1>3. RewardOf[S] = RewardOf[T] + RewardOf[S \ T]
  BY <1>1, <1>2, AchievementAssumption
<1>4. RewardOf[S] \in Nat /\ RewardOf[T] \in Nat /\ RewardOf[S \ T] \in Nat
  BY <1>2, AchievementAssumption
<1> QED BY <1>3, <1>4

\* MAX_CASCADE_PASSES is enough.  Were a level achievement still due after the
\* third pass, that pass had paid for one the second had not reached, and what
\* the two of them paid had spanned the gap between the two levels.
LEMMA EvaluateSettles ==
  ASSUME AchievementsSettle, NEW a, AccountOK(a), Balanced(a), NEW vol, NEW run, NEW log
  PROVE  Settled(Evaluate(a, vol, run, log), vol, run, log)
<1> DEFINE Pass(x) == UnlockPass(x, vol, run, log)
           Keys(x) == Due(x, vol, run, log)
           Got(x)  == x.paid["achievement"]
           b == Pass(a)
           c == Pass(b)
           d == Pass(c)
           Reaches(h, level) ==
             MetricReaches(AchMetric[h], AchThreshold[h], vol, run, log, level)
<1>1. ASSUME NEW x, AccountOK(x), Balanced(x)
      PROVE  /\ Grown(x, Pass(x))
             /\ Keys(x) \in SUBSET (Achievements \ Got(x))
             /\ Got(Pass(x)) = Got(x) \cup Keys(x)
             /\ Pass(x).xpTotal = x.xpTotal + RewardOf[Keys(x)]
  BY <1>1, PassPays
<1>2. ASSUME NEW x, NEW h \in Achievements
      PROVE  h \in Keys(x) <=> h \notin Got(x) /\ Reaches(h, x.level)
  BY <1>2 DEF Due
<1>3. d = Evaluate(a, vol, run, log)
  BY DEF Evaluate
<1>4. ASSUME NEW h \in Gauged, NEW level
      PROVE  Reaches(h, level) <=> Reached(h, vol, run, log, level)
  BY <1>4, ReachedIs
<1>5. ASSUME NEW h \in Achievements \ OnLevel, NEW l, NEW m
      PROVE  Reaches(h, l) = Reaches(h, m)
  BY <1>5, LevelOnly
<1>6. ASSUME NEW h \in OnLevel, NEW level
      PROVE  Reaches(h, level) <=> level >= AchThreshold[h]
  BY <1>6 DEF MetricReaches, OnLevel
<1> HIDE DEF Pass, Keys, Got, Reaches
<1>7. AccountOK(a) /\ Balanced(a) /\ Grown(a, b)
  BY <1>1
<1>8. AccountOK(b) /\ Balanced(b) /\ Grown(b, c)
  BY <1>1, <1>7 DEF Grown
<1>9. AccountOK(c) /\ Balanced(c) /\ Grown(c, d)
  BY <1>1, <1>8 DEF Grown
<1>10. AccountOK(d) /\ Balanced(d)
  BY <1>9 DEF Grown
<1>11. /\ Keys(a) \in SUBSET Achievements /\ Keys(b) \in SUBSET Achievements
       /\ Keys(c) \in SUBSET (Achievements \ Got(c))
       /\ Got(b) = Got(a) \cup Keys(a) /\ Got(c) = Got(b) \cup Keys(b)
       /\ Got(d) = Got(c) \cup Keys(c)
       /\ c.xpTotal = b.xpTotal + RewardOf[Keys(b)]
       /\ d.xpTotal = c.xpTotal + RewardOf[Keys(c)]
  BY <1>1, <1>7, <1>8, <1>9
<1> HIDE DEF b, c, d
<1>12. \A x \in {b, c, d} : /\ x.xpTotal \in Nat /\ x.level \in 1..MaxLevel
                            /\ x.level = XpToLevel(x.xpTotal)
  BY <1>8, <1>9, <1>10 DEF AccountOK, Balanced
<1>13. b.level <= c.level
  BY <1>8 DEF Grown
<1>a. ASSUME NEW x \in {b, c, d}, NEW l \in 1..MaxLevel
      PROVE  x.level >= l <=> LevelXp[l] <= x.xpTotal
  BY <1>12, <1>a, LevelReached
\* Whatever does not look at the level is unlocked in the first pass.
<1>14. ASSUME NEW h \in Achievements \ OnLevel, NEW level, Reaches(h, level)
       PROVE  h \in Got(b)
  <2>1. Reaches(h, a.level)
    BY <1>5, <1>14
  <2> QED BY <2>1, <1>2, <1>11
<1>15. Keys(b) \subseteq OnLevel /\ Keys(c) \subseteq OnLevel
  BY <1>2, <1>11, <1>14
<1> SUFFICES ASSUME NEW h \in Gauged, h \notin Got(d), Reached(h, vol, run, log, d.level)
             PROVE  FALSE
  BY <1>3 DEF Settled, Got
<1>16. h \in Achievements /\ Reaches(h, d.level)
  BY <1>4 DEF Gauged
<1>17. h \in OnLevel
  BY <1>11, <1>14, <1>16
<1> DEFINE n     == AchThreshold[h]
           lower == {k \in OnLevel : AchThreshold[k] < n}
<1>18. c.level < n /\ n <= d.level /\ n \in 1..MaxLevel
  <2>1. n <= d.level
    BY <1>6, <1>16, <1>17
  <2>2. ~(c.level >= n)
    BY <1>2, <1>6, <1>11, <1>16, <1>17
  <2>3. n \in Nat
    BY <1>16, AchievementAssumption
  <2> QED BY <1>12, <2>1, <2>2, <2>3, LevelAssumption
<1>19. LevelXp[n] <= d.xpTotal /\ ~(LevelXp[n] <= c.xpTotal)
  <2>1. n \in Nat /\ c.level \in Nat /\ d.level \in Nat
    BY <1>12, <1>18, LevelAssumption
  <2>2. d.level >= n /\ ~(c.level >= n)
    BY <1>18, <2>1
  <2> HIDE DEF n
  <2> QED BY <1>18, <2>2, <1>a
<1>20. Keys(c) # {}
  <2>1. LevelXp[n] \in Nat
    BY <1>18, LevelAssumption
  <2> QED BY <1>11, <1>12, <1>19, <2>1, AchievementAssumption
<1>21. PICK g : g \in Keys(c)
  BY <1>20
<1>22. g \in OnLevel /\ g \in Achievements /\ g \notin Got(b) /\ g \notin Keys(b)
  BY <1>11, <1>15, <1>21
<1> DEFINE m == AchThreshold[g]
<1>23. b.level < m /\ m <= c.level /\ m \in 1..MaxLevel
  <2>1. m <= c.level
    BY <1>2, <1>6, <1>21, <1>22
  <2>2. ~(b.level >= m)
    BY <1>2, <1>6, <1>22
  <2>3. m \in Nat
    BY <1>22, AchievementAssumption
  <2> QED BY <1>12, <2>1, <2>2, <2>3, LevelAssumption
<1>24. ~(LevelXp[m] <= b.xpTotal)
  <2>1. m \in Nat /\ b.level \in Nat
    BY <1>12, <1>23, LevelAssumption
  <2>2. ~(b.level >= m)
    BY <1>23, <2>1
  <2> HIDE DEF m
  <2> QED BY <1>23, <2>2, <1>a
<1>25. Keys(b) \cup Keys(c) \in SUBSET lower /\ lower \in SUBSET Achievements
  <2>1. ASSUME NEW k \in Keys(b) \cup Keys(c) PROVE k \in lower
    <3>1. k \in OnLevel /\ k \in Achievements /\ AchThreshold[k] \in Nat
      BY <1>11, <1>15, AchievementAssumption
    <3>2. AchThreshold[k] <= c.level
      <4>1. CASE k \in Keys(b)
        <5>1. AchThreshold[k] <= b.level
          BY <1>2, <1>6, <3>1, <4>1
        <5> QED BY <1>12, <1>13, <3>1, <5>1
      <4>2. CASE k \in Keys(c)
        BY <1>2, <1>6, <3>1, <4>2
      <4> QED BY <4>1, <4>2
    <3>3. AchThreshold[k] < n
      BY <1>12, <1>18, <3>1, <3>2
    <3> QED BY <3>1, <3>3
  <2> QED BY <2>1 DEF OnLevel
<1>26. RewardOf[Keys(b)] + RewardOf[Keys(c)] <= RewardOf[lower]
  <2>1. Keys(b) \cap Keys(c) = {}
    BY <1>11
  <2>2. Keys(b) \in SUBSET Achievements /\ Keys(c) \in SUBSET Achievements
    BY <1>11
  <2>3. RewardOf[Keys(b) \cup Keys(c)] = RewardOf[Keys(b)] + RewardOf[Keys(c)]
    BY <2>1, <2>2, AchievementAssumption
  <2> HIDE DEF lower
  <2>4. RewardOf[Keys(b) \cup Keys(c)] <= RewardOf[lower]
    BY <1>25, RewardGrows
  <2> QED BY <2>3, <2>4
<1>27. LevelXp[m] + RewardOf[lower] < LevelXp[n]
  BY <1>12, <1>17, <1>18, <1>22, <1>23 DEF AchievementsSettle
<1>28. /\ LevelXp[m] \in Nat /\ LevelXp[n] \in Nat /\ RewardOf[lower] \in Nat
       /\ RewardOf[Keys(b)] \in Nat /\ RewardOf[Keys(c)] \in Nat
  BY <1>11, <1>18, <1>23, <1>25, LevelAssumption, AchievementAssumption
<1> HIDE DEF m, n, lower
<1> QED BY <1>11, <1>12, <1>19, <1>24, <1>26, <1>27, <1>28

\* Nothing falls due while the counters only fall.
LEMMA StaySettled ==
  ASSUME NEW a,
         NEW vol \in [episodes : Int, minutes : Int, seasons : Int],
         NEW less \in [episodes : Int, minutes : Int, seasons : Int],
         less.episodes <= vol.episodes, less.minutes <= vol.minutes, less.seasons <= vol.seasons,
         NEW run \in [current : Nat, longest : Nat], NEW short \in [current : Nat, longest : Nat],
         short.current <= run.current, short.longest <= run.longest,
         NEW log \in LogRows, NEW fewer \in LogRows,
         \A d \in Days : fewer[d].episodes <= log[d].episodes,
         Settled(a, vol, run, log)
  PROVE  Settled(a, less, short, fewer)
<1> SUFFICES ASSUME NEW h \in Gauged \ a.paid["achievement"],
                    Reached(h, less, short, fewer, a.level)
             PROVE  Reached(h, vol, run, log, a.level)
  BY DEF Settled
<1> DEFINE n == AchThreshold[h]
<1>1. n \in Nat
  BY AchievementAssumption DEF Gauged
<1>2. /\ less.episodes \in Int /\ less.minutes \in Int /\ less.seasons \in Int
      /\ vol.episodes \in Int /\ vol.minutes \in Int /\ vol.seasons \in Int
      /\ run.current \in Int /\ run.longest \in Int
      /\ short.current \in Int /\ short.longest \in Int
  OBVIOUS
<1>3. ASSUME NEW d \in Days, fewer[d].episodes >= n PROVE log[d].episodes >= n
  <2>1. fewer[d].episodes \in Int /\ log[d].episodes \in Int
    BY DEF LogRows
  <2> QED BY <1>1, <1>3, <2>1
<1>4. /\ less.episodes >= n => vol.episodes >= n
      /\ less.minutes >= n => vol.minutes >= n
      /\ less.seasons >= n => vol.seasons >= n
      /\ short.current >= n => run.current >= n
      /\ short.longest >= n => run.longest >= n
  BY <1>1, <1>2
<1> QED BY <1>3, <1>4 DEF Reached

\* A run that goes on for a day is no shorter.
LEMMA RunContinues ==
  ASSUME NEW A, NEW d \in Nat, NEW next, next = d + 1
  PROVE  RunEndingOn(A, d) <= RunEndingOn(A \cup {next}, next)
<1>1. RunStarts(A, d) \in SUBSET RunStarts(A \cup {d + 1}, d + 1)
  <2> SUFFICES ASSUME NEW b \in 1..d, b..d \subseteq A
               PROVE  b \in 1..(d + 1) /\ b..(d + 1) \subseteq A \cup {d + 1}
    BY DEF RunStarts
  <2>1. \A x \in b..(d + 1) : x \in b..d \/ x = d + 1
    OBVIOUS
  <2> QED BY <2>1
<1>2. d + 1 \in Nat
  OBVIOUS
<1>3. IsFiniteSet(RunStarts(A \cup {d + 1}, d + 1))
  BY <1>2, RunStartsFinite
<1>4. RunEndingOn(A, d) <= RunEndingOn(A \cup {d + 1}, d + 1)
  BY <1>1, <1>3, FS_Subset DEF RunEndingOn, RunStarts
<1> QED BY <1>4

\* The streak rebuilt from the log is no longer than the one kept.
LEMMA RebuiltIsShorter ==
  ASSUME NEW k \in StreakRow, NEW now \in Days, NEW log \in LogRows,
         Covers(k, ActiveDays(log), now)
  PROVE  /\ Recompute(log, now) \in StreakRow
         /\ Recompute(log, now).current <= k.current
         /\ Recompute(log, now).longest <= k.longest
<1> DEFINE active == ActiveDays(log)
           last   == LastActive(active)
           runs   == {0} \cup {RunEndingOn(active, d) : d \in active}
           r      == Recompute(log, now)
<1>0. now \in Nat \ {0} /\ Days \subseteq Nat \ {0} /\ IsFiniteSet(Days)
  BY DayAssumption, FS_Interval DEF Days
<1>1. active \subseteq Days /\ IsFiniteSet(active)
  BY <1>0, FS_Subset DEF ActiveDays
<1>2. /\ r.longest = MaxOf(runs)
      /\ r.current = IF last # NoDay /\ now - last <= 1
                     THEN RunEndingOn(active, last) ELSE 0
  BY DEF Recompute
<1>3. r \in StreakRow
  BY RecomputeType
<1> HIDE DEF r
<1>4. /\ k.last \in Nat /\ k.current \in Nat /\ k.longest \in Nat
      /\ r.current \in Nat /\ r.longest \in Nat
  <2>1. k.last \in Nat /\ k.current \in Nat /\ k.longest \in Nat
    BY DayAssumption DEF Days, StreakRow, NoDay
  <2>2. r.current \in Nat /\ r.longest \in Nat
    BY <1>3 DEF StreakRow
  <2> QED BY <2>1, <2>2
<1>5. /\ k.last <= now
      /\ \A d \in active : d <= k.last
      /\ now - k.last <= 1 => k.current >= RunEndingOn(active \cup {k.last}, k.last)
      /\ \A d \in active : k.longest >= RunEndingOn(active, d)
  BY DEF Covers
<1>6. active # {} => last \in active
  BY <1>0, <1>1, MaxOfType DEF LastActive
<1>7. active = {} => last = NoDay
  BY DEF LastActive
<1> HIDE DEF active
<1>8. r.longest <= k.longest
  <2>1. IsFiniteSet(runs) /\ runs # {} /\ runs \subseteq Nat
    <3>1. runs \subseteq 0..MaxDay
      BY <1>1, RunType, DayAssumption
    <3>2. IsFiniteSet(0..MaxDay) /\ 0..MaxDay \subseteq Nat
      BY FS_Interval, DayAssumption
    <3>3. 0 \in runs
      OBVIOUS
    <3> HIDE DEF runs
    <3> QED BY <3>1, <3>2, <3>3, FS_Subset
  <2>2. \A x \in runs : x <= k.longest
    BY <1>4, <1>5
  <2> HIDE DEF runs
  <2>3. MaxOf(runs) \in runs
    BY <2>1, MaxOfType
  <2> QED BY <1>2, <2>2, <2>3
<1> HIDE DEF last
<1>9. CASE last # NoDay /\ now - last <= 1
  <2>1. last \in active /\ last \in Nat /\ last <= k.last
    BY <1>0, <1>1, <1>5, <1>6, <1>7, <1>9
  <2>2. now - k.last <= 1
    BY <1>0, <1>4, <1>9, <2>1
  <2>3. RunEndingOn(active, last) <= RunEndingOn(active \cup {k.last}, k.last)
    <3>1. CASE k.last = last
      <4>1. active \cup {k.last} = active
        BY <2>1, <3>1
      <4>2. RunEndingOn(active \cup {k.last}, k.last) = RunEndingOn(active, last)
        BY <3>1, <4>1, Zenon
      <4>3. RunEndingOn(active, last) \in Nat
        BY <2>1, RunStartsFinite
      <4> QED BY <4>2, <4>3
    <3>2. CASE k.last # last
      <4>1. k.last = last + 1
        BY <1>0, <1>4, <1>5, <1>9, <2>1, <3>2
      <4>2. \A x : x = last + 1
              => RunEndingOn(active, last) <= RunEndingOn(active \cup {x}, x)
        BY <2>1, RunContinues
      <4> QED BY <4>1, <4>2, Zenon
    <3> QED BY <3>1, <3>2
  <2>4. /\ RunEndingOn(active, last) \in Nat
        /\ RunEndingOn(active \cup {k.last}, k.last) \in Nat
    BY <1>4, <2>1, RunStartsFinite
  <2>5. r.current = RunEndingOn(active, last)
    BY <1>2, <1>9
  <2>6. k.current >= RunEndingOn(active \cup {k.last}, k.last)
    BY <1>5, <2>2
  <2> QED BY <1>3, <1>4, <1>8, <2>3, <2>4, <2>5, <2>6 DEF r
<1>10. CASE ~(last # NoDay /\ now - last <= 1)
  <2>1. r.current = 0
    BY <1>2, <1>10
  <2> QED BY <1>3, <1>4, <1>8, <2>1 DEF r
<1> QED BY <1>9, <1>10

\* No achievement is due in this state.
SettledNow == Settled(account, volume, statStreak, dailyLog)

\* An un-mark moves no counter up.
LEMMA UnmarkSettled ==
  ASSUME EntriesInv, StreakInv, SettledNow, NEW e \in Episodes, UnmarkEpisodeWatched(e)
  PROVE  SettledNow'
<1> DEFINE s    == ShowOf(e)
           rows == [watchedOn EXCEPT ![e] = NotWatched]
           now  == SyncProgress(rows, s, userShow[s], NotInLibrary)
           on   == watchedOn[e]
<1>1. /\ s \in Shows /\ TypeOK /\ userShow[s] \in UserShowRow /\ ProgressDerived
      /\ on \in Days /\ Minutes[{e}] \in Nat
  BY CatalogueTypes, MinutesType DEF EntriesInv, TypeInv, TypeOK, UnmarkEpisodeWatched
<1>2. /\ account' = account /\ statStreak' = statStreak
      /\ volume' = [episodes |-> volume.episodes - 1,
                    minutes  |-> volume.minutes - Minutes[{e}],
                    seasons  |-> volume.seasons + now.seasons - userShow[s].seasons]
      /\ dailyLog' = IF dailyLog[on].episodes > 0
                     THEN [dailyLog EXCEPT
                             ![on] = [episodes |-> @.episodes - 1,
                                      minutes  |-> @.minutes - Minutes[{e}]]]
                     ELSE dailyLog
  BY DEF UnmarkEpisodeWatched
<1>3. userShow[s].status \in Statuses
  BY <1>1 DEF UserShowRow, UnmarkEpisodeWatched, InLibrary
<1>4. now \in UserShowRow /\ now.seasons = Cardinality(CompletedSeasons(rows, s))
  <2>1. now \in UserShowRow /\ Caches(rows, s, now) /\ now.status # NotInLibrary
    BY <1>1, <1>3, SyncProgressType, SyncProgressCaches, NoEntryIsNoStatus
  <2> HIDE DEF now, rows, s
  <2> QED BY <2>1 DEF Caches
<1>5. userShow[s].seasons = Cardinality(CompletedSeasons(watchedOn, s))
  BY <1>1, EntrySays
<1>6. CompletedSeasons(rows, s) \in SUBSET CompletedSeasons(watchedOn, s)
  <2>1. \A f \in EpisodesOf(s) : watchedOn[f] = NotWatched => rows[f] = NotWatched
    BY <1>1 DEF TypeOK, EpisodesOf
  <2> QED BY <1>1, <2>1, SeasonsShrink
<1>7. IsFiniteSet(CompletedSeasons(watchedOn, s))
  BY CatalogueAssumption, FS_Subset DEF CompletedSeasons
<1> HIDE DEF now, rows, s, on
<1>8. now.seasons <= userShow[s].seasons
  BY <1>4, <1>5, <1>6, <1>7, FS_Subset
<1>9. /\ volume \in [episodes : Int, minutes : Int, seasons : Int]
      /\ dailyLog \in LogRows /\ statStreak \in [current : Nat, longest : Nat]
      /\ now.seasons \in Nat /\ userShow[s].seasons \in Nat
  BY <1>1, <1>4 DEF TypeOK, LogRows, UserShowRow
<1>10. /\ volume' \in [episodes : Int, minutes : Int, seasons : Int]
       /\ volume'.episodes <= volume.episodes /\ volume'.minutes <= volume.minutes
       /\ volume'.seasons <= volume.seasons
  BY <1>1, <1>2, <1>8, <1>9
<1>11. dailyLog' \in LogRows /\ \A d \in Days : dailyLog'[d].episodes <= dailyLog[d].episodes
  BY <1>1, <1>2, <1>9 DEF LogRows
<1>12. statStreak.current <= statStreak.current /\ statStreak.longest <= statStreak.longest
  BY <1>9
<1>13. Settled(account, volume', statStreak, dailyLog')
  BY <1>9, <1>10, <1>11, <1>12, StaySettled DEF SettledNow
<1> QED BY <1>2, <1>13 DEF SettledNow

\* Nor does a removal: the streak it rebuilds is no longer than the one kept.
LEMMA RemoveSettled ==
  ASSUME EntriesInv, StreakInv, SettledNow, NEW s \in Shows, RemoveFromLibrary(s)
  PROVE  SettledNow'
<1> DEFINE run   == Recompute(dailyLog, day)
           shown == [current |-> run.current, longest |-> run.longest]
<1>1. /\ TypeOK /\ userShow[s] \in UserShowRow /\ streak \in StreakRow /\ day \in Days
      /\ dailyLog \in LogRows /\ Covers(streak, ActiveDays(dailyLog), day)
      /\ statStreak = [current |-> streak.current, longest |-> streak.longest]
  BY DEF EntriesInv, TypeInv, TypeOK, StreakInv, StreakTypes, Mirrored
<1>2. /\ account' = account /\ dailyLog' = dailyLog /\ statStreak' = shown
      /\ volume' = [episodes |-> volume.episodes - userShow[s].episodes,
                    minutes  |-> volume.minutes - userShow[s].minutes,
                    seasons  |-> volume.seasons - userShow[s].seasons]
  BY DEF RemoveFromLibrary
<1>3. /\ run \in StreakRow /\ run.current <= streak.current /\ run.longest <= streak.longest
  BY <1>1, RebuiltIsShorter
<1> HIDE DEF run
<1>4. /\ shown \in [current : Nat, longest : Nat] /\ statStreak \in [current : Nat, longest : Nat]
      /\ shown.current <= statStreak.current /\ shown.longest <= statStreak.longest
  BY <1>1, <1>3 DEF StreakRow
<1> HIDE DEF shown
<1>5. /\ volume \in [episodes : Int, minutes : Int, seasons : Int]
      /\ volume' \in [episodes : Int, minutes : Int, seasons : Int]
      /\ volume'.episodes <= volume.episodes /\ volume'.minutes <= volume.minutes
      /\ volume'.seasons <= volume.seasons
  BY <1>1, <1>2 DEF TypeOK, UserShowRow
<1>6. \A d \in Days : dailyLog[d].episodes <= dailyLog[d].episodes
  BY <1>1 DEF LogRows
<1>7. Settled(account, volume', shown, dailyLog)
  BY <1>1, <1>4, <1>5, <1>6, StaySettled DEF SettledNow
<1> QED BY <1>2, <1>7 DEF SettledNow

\* Every other call evaluates the achievements as the last thing it does.
LEMMA RewardsSettle ==
  ASSUME AchievementsSettle, LedgerInv, NEW s \in Shows, NEW rows, NEW was, NEW now,
         NEW fresh \in SUBSET Episodes, NEW minutes,
         ApplyRewards(s, rows, was, now, fresh, minutes)
  PROVE  SettledNow'
<1>1. PICK x : Grown(account, x) /\ account' = Evaluate(x, volume', statStreak', dailyLog')
  BY RewardsEvaluate
<1>2. AccountOK(x) /\ Balanced(x)
  BY <1>1 DEF Grown
<1>3. Settled(Evaluate(x, volume', statStreak', dailyLog'), volume', statStreak', dailyLog')
  BY <1>2, EvaluateSettles
<1> QED BY <1>1, <1>3 DEF SettledNow

\* Marks and adds evaluate, un-marks and removals only lower, midnight counts nothing.
LEMMA SettledStep ==
  ASSUME AchievementsSettle, EntriesInv, StreakInv, SettledNow, [Next]_vars
  PROVE  SettledNow'
<1>0. LedgerInv
  BY DEF LedgerInv, EntriesInv, TypeInv, TypeOK
<1>1. ASSUME SomeMark PROVE SettledNow'
  <2>1. PICK s \in Shows, eps \in SUBSET Episodes, minutes \in Nat : Mark(s, eps, minutes)
    BY <1>1, CatalogueTypes DEF SomeMark
  <2>2. Unwatched(eps) \in SUBSET Episodes
    BY DEF Unwatched
  <2> QED BY <1>0, <2>1, <2>2, RewardsSettle DEF Mark
<1>2. ASSUME SomeAdd PROVE SettledNow'
  <2>1. PICK s \in Shows, eps \in SUBSET Episodes, status \in AddStatuses :
          AddToLibrary(s, status, eps)
    BY <1>2, CatalogueTypes DEF SomeAdd
  <2> QED BY <1>0, <2>1, RewardsSettle DEF AddToLibrary
<1>3. ASSUME UNCHANGED <<account, volume, statStreak, dailyLog>> PROVE SettledNow'
  BY <1>3 DEF SettledNow
<1>4. CASE Next
  <2>1. ASSUME NextDay PROVE SettledNow'
    BY <1>3, <2>1 DEF NextDay
  <2> QED BY <1>1, <1>2, <1>4, <2>1, NextCases, UnmarkSettled, RemoveSettled
<1>5. CASE UNCHANGED vars
  BY <1>3, <1>5 DEF vars
<1> QED BY <1>4, <1>5

\* Nothing is due in an empty database.
LEMMA SettledInit ==
  ASSUME AchievementsSettle, Init
  PROVE  SettledNow
<1> SUFFICES ASSUME NEW h \in Gauged, Reached(h, volume, statStreak, dailyLog, account.level)
             PROVE  FALSE
  BY DEF SettledNow, Settled
<1>1. h \in Achievements /\ AchThreshold[h] \in Nat /\ AchThreshold[h] > 0
      /\ (h \in OnLevel => AchThreshold[h] > 1)
  BY AchievementAssumption DEF Gauged, AchievementsSettle
<1>2. /\ volume.episodes = 0 /\ volume.minutes = 0 /\ volume.seasons = 0
      /\ statStreak.current = 0 /\ statStreak.longest = 0 /\ account.level = 1
      /\ \A d \in Days : dailyLog[d].episodes = 0
  BY DEF Init, NewAccount
<1> QED BY <1>1, <1>2 DEF Reached

\* The seed evaluates last, too.
LEMMA SettledSeeded ==
  ASSUME AchievementsSettle, SeedInit
  PROVE  SettledNow
<1>1. PICK a : AccountOK(a) /\ Balanced(a) /\ account = Evaluate(a, volume, statStreak, dailyLog)
  BY SeedEvaluates
<1>2. Settled(Evaluate(a, volume, statStreak, dailyLog), volume, statStreak, dailyLog)
  BY <1>1, EvaluateSettles
<1> QED BY <1>1, <1>2 DEF SettledNow

\* No achievement stays due after any calls, from an empty database or a seeded
\* one, level achievements reached through other unlocks included: three
\* passes are enough for every list whose level achievements lie far enough
\* apart, as those of achievements.ts do.
THEOREM UnlocksNeverPending ==
  ASSUME AchievementsSettle
  PROVE  (Init \/ SeedInit) /\ [][Next]_vars => []UnlocksUpToDate
<1> DEFINE Inv == EntriesInv /\ StreakInv /\ SettledNow
<1>1. Init \/ SeedInit => Inv
  BY LibraryInit, EntriesSeeded, StreakInit, StreakSeeded, SettledInit, SettledSeeded
     DEF LibraryInv
<1>2. Inv /\ [Next]_vars => Inv'
  <2> SUFFICES ASSUME Inv, [Next]_vars PROVE Inv'
    OBVIOUS
  <2>1. [Next \/ RecomputeStats]_vars
    OBVIOUS
  <2>2. EntriesInv'
    BY <2>1, EntriesStep
  <2>3. StreakInv'
    BY <2>1, StreakStep
  <2> QED BY <2>2, <2>3, SettledStep
<1>3. Inv => UnlocksUpToDate
  BY UnlocksAre DEF SettledNow
<1> QED BY <1>1, <1>2, <1>3, PTL
=============================================================================
