------------------------------ MODULE TrackingTx ------------------------------
(***************************************************************************)
(* The tracking transactions of tracking.service.ts statement by           *)
(* statement, for one user and one show of one season, on one day.         *)
(*                                                                         *)
(* The transactions themselves are those of ReadCommitted; the clients are *)
(* concurrent requests of the user: tabs, double clicks.                   *)
(*                                                                         *)
(* Left out: position and minutes (read and written beside the counts      *)
(* modelled), the level (written under the lock of the same UserStats row  *)
(* as xpTotal), streak, achievements and activities.                       *)
(***************************************************************************)
EXTENDS ReadCommitted, WatchStatus, FiniteSets

CONSTANTS
  Episodes,     \* the episodes of the show, all of one regular season
  AddStatuses,  \* the statuses addToLibrary is called with
  MaxCalls      \* bound: calls made in a behaviour

ASSUME TxAssumption ==
  /\ IsFiniteSet(Episodes) /\ Episodes # {}
  /\ Episodes \cap {"season", "show"} = {}
  /\ AddStatuses \subseteq Statuses
  /\ MaxCalls \in Nat

VARIABLES
  calls,    \* calls begun; it serves as the clock watchedAt is read from
  bypassed  \* history: a removal, or an add that inserted rows, committed

vars == <<db, tx, calls, bypassed>>

UserShow       == <<"UserShow">>
UserStats      == <<"UserStats">>
Show           == <<"Show">>
DailyLog       == <<"DailyWatchLog">>
UserEpisode(e) == <<"UserEpisode", e>>
XpEvent(k)     == <<"XpEvent", k>>

XpKeys    == Episodes \cup {"season", "show"}
Amount(k) == CASE k = "season" -> 100 [] k = "show" -> 500 [] OTHER -> 10

Rows == {UserShow, UserStats, Show, DailyLog}
          \cup {UserEpisode(e) : e \in Episodes} \cup {XpEvent(k) : k \in XpKeys}

NoEntry == [status |-> NotInLibrary, episodes |-> 0, seasons |-> 0]
NewStats == [xp |-> 0, episodes |-> 0, seasons |-> 0,
             status |-> [st \in Statuses |-> 0]]

Calls == [kind : {"mark"}, episodes : {{e} : e \in Episodes} \cup {Episodes}]
           \cup [kind : {"unmark"}, episodes : {{e} : e \in Episodes}]
           \cup [kind : {"add"}, status : AddStatuses]
           \cup {[kind |-> "remove"]}

\* UserEpisode rows hold watchedAt, 0 for none; Show holds memberCount.
Init ==
  /\ db = [r \in Rows |-> CASE r = UserShow -> NoEntry
                            [] r = UserStats -> NewStats
                            [] r \in {XpEvent(k) : k \in XpKeys} -> FALSE
                            [] OTHER -> 0]
  /\ tx = [c \in Clients |-> Idle]
  /\ calls = 0
  /\ bypassed = FALSE

----------------------------------------------------------------------------
(* Statements.                                                             *)

Tracked(view)  == {e \in Episodes : view[UserEpisode(e)] # 0}
At(c, kind, statement) ==
  tx[c].pc = statement /\ tx[c].op.kind \in kind
Changing       == {"mark", "add"}
Every          == {"mark", "unmark", "add", "remove"}

Read(c, next)            == Advance(c, next) /\ UNCHANGED <<calls, bypassed>>
Write(c, r, value, next) == Put(c, r, value, next) /\ UNCHANGED <<calls, bypassed>>
Throw(c)                 == Abort(c) /\ UNCHANGED <<calls, bypassed>>

Begin(c) ==
  /\ tx[c].pc = "idle"
  /\ calls < MaxCalls
  /\ calls' = calls + 1
  /\ \E op \in Calls :
       tx' = [tx EXCEPT ![c] =
                [pc |-> "find", op |-> op, at |-> calls + 1, mine |-> <<>>,
                 prev |-> NoEntry, was |-> NoEntry, fresh |-> 0, count |-> 0,
                 status |-> NotInLibrary, seasons |-> 0, todo |-> {}, due |-> {}]]
  /\ UNCHANGED <<db, bypassed>>

Commit(c) ==
  /\ At(c, Every, "commit")
  /\ Publish(c)
  /\ bypassed' = \/ bypassed
                  \/ tx[c].op.kind = "remove"
                  \/ (tx[c].op.kind = "add" /\ tx[c].fresh > 0)
  /\ UNCHANGED calls

\* The transaction timeout, a deadlock Postgres breaks, a lost process.
Rollback(c) == tx[c].pc # "idle" /\ Throw(c)

----------------------------------------------------------------------------
(* Opening statements of the four kinds of call.                           *)

\* ensureUserShow, addToLibrary and removeFromLibrary read the entry.
FindEntry(c) ==
  /\ At(c, {"mark", "add", "remove"}, "find")
  /\ LET entry  == See(c)[UserShow]
         exists == entry.status # NotInLibrary
     IN  Read(c, [prev |-> entry,
                  todo |-> IF tx[c].op.kind = "mark" THEN tx[c].op.episodes ELSE {},
                  pc |-> CASE tx[c].op.kind = "mark" -> IF exists THEN "insert" ELSE "create"
                           [] tx[c].op.kind = "add" -> "upsert"
                           [] OTHER -> IF exists THEN "findRows" ELSE "commit"])

CreateEntry(c) ==
  /\ At(c, {"mark"}, "create")
  /\ Free(c, UserShow)
  /\ IF See(c)[UserShow].status # NotInLibrary
     THEN Throw(c)      \* unique violation: another request created it
     ELSE Write(c, UserShow, [NoEntry EXCEPT !.status = "WATCHING"], [pc |-> "member"])

UpsertEntry(c) ==
  /\ At(c, {"add"}, "upsert")
  /\ Write(c, UserShow, [See(c)[UserShow] EXCEPT !.status = tx[c].op.status],
           [pc |-> IF tx[c].prev.status = NotInLibrary THEN "member" ELSE "findMissing"])

CountMember(c) ==
  /\ At(c, Every, "member")
  /\ Write(c, Show, See(c)[Show] + (IF tx[c].op.kind = "remove" THEN -1 ELSE 1),
           [pc |-> CASE tx[c].op.kind = "mark" -> "insert"
                     [] tx[c].op.kind = "add" -> "findMissing"
                     [] OTHER -> "reconcile"])

\* markAllEpisodes, for status COMPLETED only.
FindMissing(c) ==
  /\ At(c, {"add"}, "findMissing")
  /\ Read(c, [pc |-> "insert",
              todo |-> IF tx[c].op.status = "COMPLETED"
                       THEN Episodes \ Tracked(See(c)) ELSE {}])

\* Faulty variant: every row sent is taken for a row inserted.
InsertedAlways(view, e) == 1

\* ON CONFLICT DO NOTHING: what createMany counts for one row.
Inserted(view, e) == IF view[UserEpisode(e)] = 0 THEN 1 ELSE 0

\* insertEpisodes, one row of the statement at a time.
InsertEpisodes(c) ==
  /\ At(c, Changing, "insert")
  /\ IF tx[c].todo = {} THEN Read(c, [pc |-> "syncRead"])
     ELSE \E e \in tx[c].todo :
            LET next == [todo |-> tx[c].todo \ {e},
                         fresh |-> tx[c].fresh + Inserted(See(c), e)]
            IN  /\ Free(c, UserEpisode(e))
                /\ IF See(c)[UserEpisode(e)] # 0 THEN Read(c, next)
                   ELSE Write(c, UserEpisode(e),
                              IF tx[c].op.kind = "mark" THEN tx[c].at ELSE calls, next)

\* unmarkEpisodeWatched, up to its delete.
FindWatched(c) ==
  /\ At(c, {"unmark"}, "find")
  /\ IF tx[c].op.episodes \subseteq Tracked(See(c))
     THEN Read(c, [pc |-> "previous"]) ELSE Throw(c)

FindPrevious(c) ==
  /\ At(c, {"unmark"}, "previous")
  /\ Read(c, [pc |-> "delete", prev |-> See(c)[UserShow]])

DeleteEpisode(c) ==
  /\ At(c, {"unmark"}, "delete")
  /\ \E e \in tx[c].op.episodes :
       /\ Free(c, UserEpisode(e))
       /\ IF See(c)[UserEpisode(e)] = 0 THEN Throw(c)
          ELSE Write(c, UserEpisode(e), 0, [pc |-> "unlog"])

Unlog(c) ==
  /\ At(c, {"unmark"}, "unlog")
  /\ IF See(c)[DailyLog] = 0 THEN Read(c, [pc |-> "syncRead"])
     ELSE Write(c, DailyLog, See(c)[DailyLog] - 1, [pc |-> "syncRead"])

\* removeFromLibrary deletes the rows it can see, then the entry.
FindRows(c) ==
  /\ At(c, {"remove"}, "findRows")
  /\ Read(c, [pc |-> "deleteRows", todo |-> Tracked(See(c))])

DeleteRows(c) ==
  /\ At(c, {"remove"}, "deleteRows")
  /\ IF tx[c].todo = {} THEN Read(c, [pc |-> "deleteEntry"])
     ELSE \E e \in tx[c].todo :
            Write(c, UserEpisode(e), 0, [todo |-> tx[c].todo \ {e}])

DeleteEntry(c) ==
  /\ At(c, {"remove"}, "deleteEntry")
  /\ Free(c, UserShow)
  /\ IF See(c)[UserShow].status = NotInLibrary THEN Throw(c)
     ELSE Write(c, UserShow, NoEntry, [pc |-> "member"])

----------------------------------------------------------------------------
(* syncProgress: three reads, then a write of what they said.              *)

SyncRead(c) ==
  /\ At(c, {"mark", "unmark", "add"}, "syncRead")
  /\ IF See(c)[UserShow].status = NotInLibrary THEN Throw(c)
     ELSE Read(c, [pc |-> "syncCount", was |-> See(c)[UserShow]])

SyncCount(c) ==
  /\ At(c, Every, "syncCount")
  /\ Read(c, [pc |-> "syncSeasons", count |-> Cardinality(Tracked(See(c)))])

SyncSeasons(c) ==
  /\ At(c, Every, "syncSeasons")
  /\ Read(c, [pc |-> "syncWrite",
              seasons |-> IF Tracked(See(c)) = Episodes THEN 1 ELSE 0])

SyncWrite(c) ==
  LET status == ResolveStatus(tx[c].was.status,
                  IF tx[c].op.kind = "add" THEN tx[c].op.status ELSE NotInLibrary,
                  tx[c].count >= Cardinality(Episodes), tx[c].count)
      whole  == (IF tx[c].seasons = 1 THEN {"season"} ELSE {})
                  \cup (IF status = "COMPLETED" THEN {"show"} ELSE {})
  IN  /\ At(c, Every, "syncWrite")
      /\ Free(c, UserShow)
      /\ IF See(c)[UserShow].status = NotInLibrary THEN Throw(c)
         ELSE Write(c, UserShow,
                    [status |-> status, episodes |-> tx[c].count, seasons |-> tx[c].seasons],
                    [status |-> status,
                     due |-> IF tx[c].op.kind = "unmark" THEN {} ELSE whole,
                     pc |-> CASE tx[c].op.kind = "unmark" -> "reconcile"
                              [] tx[c].op.kind = "mark" /\ tx[c].fresh > 0 -> "recent"
                              [] OTHER -> "award"])

----------------------------------------------------------------------------
(* applyRewards and the counters.                                          *)

\* Faulty variant: rows written at the very moment of the call are missed.
SinceAfter(view, at) == {e \in Tracked(view) : view[UserEpisode(e)] > at}

\* The rows with watchedAt >= at, those of other requests included.
Since(view, at) == {e \in Tracked(view) : view[UserEpisode(e)] >= at}

FindRecent(c) ==
  /\ At(c, {"mark"}, "recent")
  /\ Read(c, [pc |-> "award", due |-> tx[c].due \cup Since(See(c), tx[c].at)])

\* Episodes are awarded before the season, the season before the show.
NextDue(due) ==
  IF due \cap Episodes # {} THEN due \cap Episodes
  ELSE IF "season" \in due THEN {"season"} ELSE due

\* Faulty variant: the count the insert returns is not looked at.
AlreadyPaidIgnored(view, k) == FALSE

AlreadyPaid(view, k) == view[XpEvent(k)]

Award(c) ==
  /\ At(c, Changing, "award")
  /\ IF tx[c].due = {}
     THEN Read(c, [pc |-> IF tx[c].op.kind = "mark" /\ tx[c].fresh > 0
                          THEN "log" ELSE "reconcile"])
     ELSE \E k \in NextDue(tx[c].due) :
            /\ Free(c, XpEvent(k))
            /\ IF AlreadyPaid(See(c), k)
               THEN Read(c, [due |-> tx[c].due \ {k}])
               ELSE Write(c, XpEvent(k), TRUE, [pc |-> "pay", todo |-> {k}])

Pay(c) ==
  /\ At(c, Changing, "pay")
  /\ \E k \in tx[c].todo :
       Write(c, UserStats, [See(c)[UserStats] EXCEPT !.xp = @ + Amount(k)],
             [pc |-> "award", due |-> tx[c].due \ {k}, todo |-> {}])

LogActivity(c) ==
  /\ At(c, {"mark"}, "log")
  /\ Write(c, DailyLog, See(c)[DailyLog] + tx[c].fresh, [pc |-> "delta"])

\* applyDelta with the volume counters, as increments.
ApplyDelta(c) ==
  LET moved == tx[c].seasons - tx[c].was.seasons
      by == CASE tx[c].op.kind = "mark" -> <<tx[c].fresh, moved>>
              [] tx[c].op.kind = "unmark" -> <<-1, moved>>
              [] OTHER -> <<-tx[c].prev.episodes, -tx[c].prev.seasons>>
  IN  /\ At(c, {"mark", "unmark", "remove"}, "delta")
      /\ Write(c, UserStats,
               [See(c)[UserStats] EXCEPT !.episodes = @ + by[1], !.seasons = @ + by[2]],
               [pc |-> IF tx[c].op.kind = "mark" THEN "reconcile" ELSE "commit"])

\* Faulty variant: the counter of the status left is not taken down.
MovedOnlyUp(counts, from, to) ==
  [st \in Statuses |-> counts[st] + (IF st = to /\ from # to THEN 1 ELSE 0)]

Moved(counts, from, to) ==
  [st \in Statuses |-> counts[st] + (IF st = to THEN 1 ELSE 0)
                                  - (IF st = from THEN 1 ELSE 0)]

\* reconcileStatusCounters, from the status read when the call began.
Reconcile(c) ==
  LET next == [pc |-> IF tx[c].op.kind \in Changing THEN "commit" ELSE "delta"]
  IN  /\ At(c, Every, "reconcile")
      /\ IF tx[c].prev.status = tx[c].status THEN Read(c, next)
         ELSE Write(c, UserStats,
                    [See(c)[UserStats] EXCEPT
                       !.status = Moved(@, tx[c].prev.status, tx[c].status)], next)

----------------------------------------------------------------------------
Step(c) ==
  \/ FindEntry(c) \/ CreateEntry(c) \/ UpsertEntry(c) \/ CountMember(c)
  \/ FindMissing(c) \/ InsertEpisodes(c)
  \/ FindWatched(c) \/ FindPrevious(c) \/ DeleteEpisode(c) \/ Unlog(c)
  \/ FindRows(c) \/ DeleteRows(c) \/ DeleteEntry(c)
  \/ SyncRead(c) \/ SyncCount(c) \/ SyncSeasons(c) \/ SyncWrite(c)
  \/ FindRecent(c) \/ Award(c) \/ Pay(c) \/ LogActivity(c)
  \/ ApplyDelta(c) \/ Reconcile(c)

Next == \E c \in Clients : Begin(c) \/ Step(c) \/ Commit(c) \/ Rollback(c)

Spec == Init /\ [][Next]_vars

----------------------------------------------------------------------------
(* Properties.                                                             *)

PaidKeys == {k \in XpKeys : db[XpEvent(k)]}

\* The sum of the amounts of a set of keys.
Worth(keys) ==
  Cardinality(keys \cap Episodes) * 10
    + (IF "season" \in keys THEN Amount("season") ELSE 0)
    + (IF "show" \in keys THEN Amount("show") ELSE 0)

\* The entries that the status counters say there are.
Members(counts) ==
  counts["PLAN_TO_WATCH"] + counts["WATCHING"] + counts["COMPLETED"]
    + counts["ON_HOLD"] + counts["DROPPED"] + counts["REWATCHING"]

\* Two simultaneous marks of one episode cannot both be paid: whatever
\* requests race and whichever are rolled back, xpTotal is the ledger's sum.
XpPaidOnce ==
  db[UserStats].xp = Worth(PaidKeys)

\* Increments are not lost: with rows entering and leaving by marks and
\* un-marks only, the day's log and the episode counter equal the rows,
\* although the two are read and written at different statements.
VolumeExact ==
  ~bypassed => /\ db[UserStats].episodes = Cardinality(Tracked(db))
               /\ db[DailyLog] = Cardinality(Tracked(db))

\* Every row a mark committed has been paid for, even when other requests
\* insert between its insert and its query for recent rows.
RowsPaid == ~bypassed => Tracked(db) \subseteq PaidKeys

\* Rows without an entry, and an entry counted differently by memberCount and
\* by the status counters, need a removal: racing creations make the same
\* error in both counters.
MembersCounted ==
  ~bypassed => /\ db[UserShow].status = NotInLibrary => Tracked(db) = {}
               /\ Members(db[UserStats].status) = db[Show]

\* Nothing drifts: once no call is running, the progress cached on the entry
\* is what its rows say, even without removals and bulk adds.
CacheMatchesRows ==
  ~bypassed /\ (\A c \in Clients : tx[c].pc = "idle") =>
     db[UserShow].episodes = Cardinality(Tracked(db))
=============================================================================
