--------------------------- MODULE TrackingTxProofs ---------------------------
(***************************************************************************)
(* TrackingTx for any number of episodes and of requests at a time.  What  *)
(* an open transaction sees is the committed rows moved by exactly what it *)
(* has done so far, so that its commit moves the database by a whole call. *)
(***************************************************************************)
EXTENDS TrackingTx, ReadCommittedProofs, FiniteSetTheorems, TLAPS

----------------------------------------------------------------------------
(* The inductive invariant.  t is the record of an open call, base the     *)
(* committed rows.                                                         *)

Fields == {"pc", "op", "at", "mine", "prev", "was", "fresh", "count", "status",
           "seasons", "todo", "due"}

Statements ==
  [mark   |-> {"find", "create", "member", "insert", "syncRead", "syncCount", "syncSeasons",
               "syncWrite", "recent", "award", "pay", "log", "delta", "reconcile", "commit"},
   unmark |-> {"find", "previous", "delete", "unlog", "syncRead", "syncCount",
               "syncSeasons", "syncWrite", "reconcile", "delta", "commit"},
   add    |-> {"find", "upsert", "member", "findMissing", "insert", "syncRead", "syncCount",
               "syncSeasons", "syncWrite", "award", "pay", "reconcile", "commit"},
   remove |-> {"find", "findRows", "deleteRows", "deleteEntry", "member", "reconcile",
               "delta", "commit"}]

AfterAward == {"log", "delta", "reconcile", "commit"}
AfterSync  == {"recent", "award", "pay"} \cup AfterAward

Entries == [status : Statuses \cup {NotInLibrary}, episodes : Int, seasons : Int]
Stats   == [xp : Int, episodes : Int, seasons : Int, status : [Statuses -> Int]]

\* v is a value row r may hold.
Typed(r, v) ==
  /\ r = UserShow => v \in Entries
  /\ r = UserStats => v \in Stats
  /\ r \in {Show, DailyLog} => v \in Int
  /\ \A e \in Episodes : r = UserEpisode(e) => v \in Nat
  /\ \A k \in XpKeys : r = XpEvent(k) => v \in BOOLEAN

RowsTyped(rows) == \A r \in DOMAIN rows : Typed(r, rows[r])

CallTyped(t) ==
  /\ DOMAIN t = Fields
  /\ t.op \in Calls
  /\ t.pc \in Statements[t.op.kind]
  /\ t.at \in Nat \ {0}
  /\ DOMAIN t.mine \subseteq Rows /\ RowsTyped(t.mine)
  /\ t.prev \in Entries /\ t.was \in Entries
  /\ t.fresh \in Nat /\ t.count \in Nat /\ t.seasons \in Int
  /\ t.status \in Statuses \cup {NotInLibrary}
  /\ t.due \subseteq XpKeys
  /\ t.pc # "pay" => t.todo \subseteq Episodes

\* What the call sees of a row.
Seen(t, base, r) == IF Wrote(t, r) THEN t.mine[r] ELSE base[r]

\* The keys whose event the call has written, and those of them it has paid.
Awarded(t) == {k \in XpKeys : Wrote(t, XpEvent(k))}
Paid(t)    == Awarded(t) \ (IF t.pc = "pay" THEN t.todo ELSE {})

XpOK(t, base) ==
  /\ \A k \in Awarded(t) : base[XpEvent(k)] = FALSE /\ t.mine[XpEvent(k)] = TRUE
  /\ t.pc = "pay" => \E k \in Awarded(t) : t.todo = {k}
  /\ Seen(t, base, UserStats).xp = base[UserStats].xp + Worth(Paid(t))

\* The rows of episodes the call has inserted or deleted.
Touched(t) == {e \in Episodes : Wrote(t, UserEpisode(e))}

BeforeDelete == {"find", "previous", "delete"}

EpisodesOK(t, base) ==
  /\ t.op.kind \in Changing =>
       /\ t.fresh = Cardinality(Touched(t))
       /\ \A e \in Touched(t) : base[UserEpisode(e)] = 0 /\ t.mine[UserEpisode(e)] # 0
       /\ t.op.kind = "mark" => \A e \in Touched(t) : t.mine[UserEpisode(e)] = t.at
  /\ t.op.kind = "unmark" =>
       /\ Touched(t) = IF t.pc \in BeforeDelete THEN {} ELSE t.op.episodes
       /\ \A e \in Touched(t) : base[UserEpisode(e)] # 0 /\ t.mine[UserEpisode(e)] = 0

\* A mark's rows are paid for, or due to be.
PaidOK(t, base) ==
  /\ t.op.kind = "mark" /\ t.pc \in {"award", "pay"} \cup AfterAward =>
       \A e \in Touched(t) : e \in Awarded(t) \/ base[XpEvent(e)] \/ e \in t.due
  /\ t.op.kind \in Changing /\ t.pc \in AfterAward => t.due = {}

\* Only a removal leaves the show without an entry.
StatusOK(t) ==
  /\ t.pc \in {"syncCount", "syncSeasons", "syncWrite"} => t.was.status \in Statuses
  /\ t.op.kind # "remove" =>
       /\ Wrote(t, UserShow) => t.mine[UserShow].status \in Statuses
       /\ t.pc \in AfterSync => t.status \in Statuses /\ Wrote(t, UserShow)

CallOK(t, base) ==
  /\ CallTyped(t) /\ XpOK(t, base) /\ EpisodesOK(t, base) /\ PaidOK(t, base) /\ StatusOK(t)

\* By how much the call has moved the episode counter and the day's log.
EpisodesMoved(t) ==
  IF t.op.kind = "mark" /\ t.pc \in {"reconcile", "commit"} THEN t.fresh
  ELSE IF t.op.kind = "unmark" /\ t.pc = "commit" THEN -1 ELSE 0
Logged(t) ==
  IF t.op.kind = "mark" /\ t.pc \in {"delta", "reconcile", "commit"} THEN t.fresh
  ELSE IF t.op.kind = "unmark" /\ t.pc \notin BeforeDelete \cup {"unlog"} THEN -1
  ELSE 0

VolumeOK(t, base) ==
  /\ Seen(t, base, UserStats).episodes = base[UserStats].episodes + EpisodesMoved(t)
  /\ Seen(t, base, DailyLog) = base[DailyLog] + Logged(t)

\* 1 when the call has counted a new member of the show, and when it has put
\* that member under a status.
Joined(t) ==
  IF /\ t.op.kind \in Changing /\ t.prev.status = NotInLibrary
     /\ t.pc \notin {"find", "create", "upsert", "member"}
  THEN 1 ELSE 0
Placed(t) == IF t.pc = "commit" THEN Joined(t) ELSE 0

MembersOK(t, base) ==
  /\ Seen(t, base, Show) = base[Show] + Joined(t)
  /\ Members(Seen(t, base, UserStats).status) = Members(base[UserStats].status) + Placed(t)

\* What the call found of the entry when it began.
FoundOK(t, base) ==
  /\ t.op.kind \in Changing /\ t.pc \in {"create", "member"} => t.prev.status = NotInLibrary
  /\ t.op.kind = "unmark" /\ t.pc # "find" => base[UserShow].status # NotInLibrary
  /\ t.op.kind = "unmark" /\ t.pc \notin {"find", "previous"} => t.prev.status # NotInLibrary

\* Of removals nothing is asked: their commit ends the counting.
CountsOK(t, base) ==
  t.op.kind # "remove" => VolumeOK(t, base) /\ MembersOK(t, base) /\ FoundOK(t, base)

CallsOK ==
  /\ tx = [c \in Clients |-> tx[c]]
  /\ \A c \in Clients : tx[c] = Idle \/ (CallOK(tx[c], db) /\ tx[c].at <= calls)
  /\ ~bypassed => \A c \in Clients : tx[c] # Idle => CountsOK(tx[c], db)

BaseOK(base) == DOMAIN base = Rows /\ RowsTyped(base)

TxInv ==
  /\ calls \in Nat /\ BaseOK(db)
  /\ CallsOK
  /\ Locked
  /\ XpPaidOnce /\ VolumeExact /\ RowsPaid /\ MembersCounted

----------------------------------------------------------------------------
(* Rows, sums and calls.                                                   *)

\* Rows of different tables or keys are different rows.
LEMMA RowIds ==
  /\ UserShow # UserStats /\ UserShow # Show /\ UserShow # DailyLog
  /\ UserStats # Show /\ UserStats # DailyLog /\ Show # DailyLog
  /\ \A e, k : /\ UserEpisode(e) = UserEpisode(k) => e = k
               /\ XpEvent(e) = XpEvent(k) => e = k
               /\ UserEpisode(e) # XpEvent(k)
  /\ \A k : /\ UserEpisode(k) \notin {UserShow, UserStats, Show, DailyLog}
            /\ XpEvent(k) \notin {UserShow, UserStats, Show, DailyLog}
BY DEF UserShow, UserStats, Show, DailyLog, UserEpisode, XpEvent

LEMMA RowTypes ==
  /\ {UserShow, UserStats, Show, DailyLog} \subseteq Rows
  /\ \A e \in Episodes : UserEpisode(e) \in Rows
  /\ \A k \in XpKeys : XpEvent(k) \in Rows
<1>1. ASSUME NEW e \in Episodes PROVE UserEpisode(e) \in Rows
  BY DEF Rows
<1>2. ASSUME NEW k \in XpKeys PROVE XpEvent(k) \in Rows
  BY DEF Rows
<1>3. {UserShow, UserStats, Show, DailyLog} \subseteq Rows
  BY DEF Rows
<1> QED BY <1>1, <1>2, <1>3

LEMMA TypedRows ==
  /\ \A v : /\ Typed(UserShow, v) <=> v \in Entries
            /\ Typed(UserStats, v) <=> v \in Stats
            /\ Typed(Show, v) <=> v \in Int
            /\ Typed(DailyLog, v) <=> v \in Int
  /\ \A e \in Episodes : \A v : Typed(UserEpisode(e), v) <=> v \in Nat
  /\ \A k \in XpKeys : \A v : Typed(XpEvent(k), v) <=> v \in BOOLEAN
<1>1. ASSUME NEW v
      PROVE  /\ Typed(UserShow, v) <=> v \in Entries
             /\ Typed(UserStats, v) <=> v \in Stats
             /\ Typed(Show, v) <=> v \in Int
             /\ Typed(DailyLog, v) <=> v \in Int
  BY RowIds DEF Typed
<1>2. ASSUME NEW e \in Episodes, NEW v PROVE Typed(UserEpisode(e), v) <=> v \in Nat
  BY RowIds DEF Typed
<1>3. ASSUME NEW k \in XpKeys, NEW v PROVE Typed(XpEvent(k), v) <=> v \in BOOLEAN
  BY RowIds DEF Typed
<1> QED BY <1>1, <1>2, <1>3

LEMMA OpTypes ==
  ASSUME NEW op \in Calls
  PROVE  /\ op.kind \in {"mark", "unmark", "add", "remove"}
         /\ op.kind = "mark" => op.episodes \subseteq Episodes
         /\ op.kind = "unmark" => \E e \in Episodes : op.episodes = {e}
         /\ op.kind = "add" => op.status \in Statuses
BY TxAssumption DEF Calls

LEMMA NoEntryIsNoStatus == NotInLibrary \notin Statuses
BY DEF Statuses, NotInLibrary

LEMMA EpisodeSets ==
  ASSUME NEW S, S \subseteq Episodes
  PROVE  IsFiniteSet(S) /\ Cardinality(S) \in Nat
BY TxAssumption, FS_Subset, FS_CardinalityType

\* Amounts add up.
LEMMA WorthType ==
  ASSUME NEW S \in SUBSET XpKeys
  PROVE  Worth(S) \in Nat
<1>1. Cardinality(S \cap Episodes) \in Nat
  BY EpisodeSets
<1>2. Amount("season") \in Nat /\ Amount("show") \in Nat
  BY DEF Amount
<1> QED BY <1>1, <1>2 DEF Worth

LEMMA WorthEmpty == Worth({}) = 0
<1>1. Cardinality({} \cap Episodes) = 0
  <2>1. {} \cap Episodes = {}
    OBVIOUS
  <2> QED BY <2>1, FS_EmptySet
<1> QED BY <1>1 DEF Worth

LEMMA WorthOfOne ==
  ASSUME NEW k \in XpKeys
  PROVE  Worth({k}) = Amount(k)
<1>1. CASE k \in Episodes
  <2>1. {k} \cap Episodes = {k} /\ k # "season" /\ k # "show"
    BY <1>1, TxAssumption
  <2>2. Cardinality({k}) = 1
    BY FS_Singleton
  <2> QED BY <2>1, <2>2 DEF Worth, Amount
<1>2. CASE k \in {"season", "show"}
  <2>1. {k} \cap Episodes = {}
    BY <1>2, TxAssumption
  <2>2. Cardinality({}) = 0
    BY FS_EmptySet
  <2> QED BY <1>2, <2>1, <2>2 DEF Worth, Amount
<1> QED BY <1>1, <1>2 DEF XpKeys

LEMMA WorthAdds ==
  ASSUME NEW S \in SUBSET XpKeys, NEW T \in SUBSET XpKeys, S \cap T = {}
  PROVE  Worth(S \cup T) = Worth(S) + Worth(T)
<1> DEFINE A == S \cap Episodes
           B == T \cap Episodes
<1>1. IsFiniteSet(A) /\ IsFiniteSet(B) /\ Cardinality(A) \in Nat /\ Cardinality(B) \in Nat
  BY EpisodeSets
<1>2. Cardinality(A \cup B) = Cardinality(A) + Cardinality(B)
  <2>1. A \cap B = {}
    OBVIOUS
  <2> HIDE DEF A, B
  <2>2. Cardinality(A \cup B) = Cardinality(A) + Cardinality(B) - Cardinality(A \cap B)
    BY <1>1, FS_Union
  <2>3. Cardinality(A \cap B) = 0
    BY <2>1, FS_EmptySet
  <2> QED BY <1>1, <2>2, <2>3
<1>3. (S \cup T) \cap Episodes = A \cup B
  OBVIOUS
<1>4. Amount("season") = 100 /\ Amount("show") = 500
  BY DEF Amount
<1> HIDE DEF A, B
<1>5. /\ Worth(S) = Cardinality(A) * 10 + (IF "season" \in S THEN 100 ELSE 0)
                      + (IF "show" \in S THEN 500 ELSE 0)
      /\ Worth(T) = Cardinality(B) * 10 + (IF "season" \in T THEN 100 ELSE 0)
                      + (IF "show" \in T THEN 500 ELSE 0)
      /\ Worth(S \cup T) = (Cardinality(A) + Cardinality(B)) * 10
                      + (IF "season" \in S \/ "season" \in T THEN 100 ELSE 0)
                      + (IF "show" \in S \/ "show" \in T THEN 500 ELSE 0)
  BY <1>2, <1>3, <1>4 DEF Worth, A, B
<1>6. ~("season" \in S /\ "season" \in T) /\ ~("show" \in S /\ "show" \in T)
  OBVIOUS
<1> QED BY <1>1, <1>5, <1>6

\* A status counter up, another down.
LEMMA MovedEffect ==
  ASSUME NEW counts \in [Statuses -> Int],
         NEW from \in Statuses \cup {NotInLibrary}, NEW to \in Statuses \cup {NotInLibrary}
  PROVE  /\ Moved(counts, from, to) \in [Statuses -> Int]
         /\ Members(counts) \in Int
         /\ Members(Moved(counts, from, to))
              = Members(counts) + (IF to \in Statuses THEN 1 ELSE 0)
                                - (IF from \in Statuses THEN 1 ELSE 0)
<1>1. Moved(counts, from, to) \in [Statuses -> Int]
  BY DEF Moved
<1>2. Members(counts) \in Int
  BY DEF Members, Statuses
<1>3. Members(Moved(counts, from, to))
        = Members(counts) + (IF to \in Statuses THEN 1 ELSE 0)
                          - (IF from \in Statuses THEN 1 ELSE 0)
  <2> DEFINE n(st) == counts[st] + (IF st = to THEN 1 ELSE 0) - (IF st = from THEN 1 ELSE 0)
  <2>1. \A st \in Statuses : Moved(counts, from, to)[st] = n(st) /\ counts[st] \in Int
    BY DEF Moved
  <2> QED BY <2>1 DEF Members, Statuses, NotInLibrary
<1> QED BY <1>1, <1>2, <1>3

LEMMA ResolveStatusType ==
  ASSUME NEW was \in Statuses, NEW desired \in Statuses \cup {NotInLibrary},
         NEW complete \in BOOLEAN, NEW n \in Nat
  PROVE  ResolveStatus(was, desired, complete, n) \in Statuses
BY DEF ResolveStatus, Statuses, NotInLibrary

----------------------------------------------------------------------------
(* What a statement leads to: the call is given up, or goes on as it may.  *)

Onward(c) ==
  /\ Others(c) /\ UNCHANGED <<db, calls, bypassed>>
  /\ \/ tx'[c] = Idle
     \/ /\ tx[c] # Idle /\ tx'[c].at = tx[c].at
        /\ CallOK(tx'[c], db)
        /\ ~bypassed => CountsOK(tx'[c], db)
        /\ \A r \in DOMAIN tx'[c].mine : Wrote(tx[c], r) \/ Free(c, r)

LEMMA OnwardKeeps ==
  ASSUME TxInv, NEW c \in Clients, Onward(c)
  PROVE  TxInv'
<1>1. /\ BaseOK(db)' /\ XpPaidOnce' /\ VolumeExact' /\ RowsPaid' /\ MembersCounted'
      /\ calls' \in Nat
  BY DEF TxInv, Onward, BaseOK, XpPaidOnce, VolumeExact, RowsPaid, MembersCounted, PaidKeys,
         Tracked
<1>2. CallsOK'
  BY DEF TxInv, Onward, CallsOK, Others
<1>3. Locked'
  <2>1. Locked /\ Others(c) /\ \A r \in DOMAIN tx'[c].mine : Wrote(tx[c], r) \/ Free(c, r)
    BY NothingWritten DEF Onward, TxInv
  <2> QED BY <2>1, LockedKept
<1> QED BY <1>1, <1>2, <1>3 DEF TxInv

\* A call that is at some statement, and what it sees there.
LEMMA InHand ==
  ASSUME TxInv, NEW c \in Clients, tx[c].pc # "idle"
  PROVE  /\ tx[c] # Idle /\ CallOK(tx[c], db) /\ tx[c].at <= calls
         /\ ~bypassed => CountsOK(tx[c], db)
         /\ \A r \in Rows : /\ See(c)[r] = Seen(tx[c], db, r)
                            /\ Typed(r, Seen(tx[c], db, r))
                            /\ Typed(r, db[r])
<1>1. /\ tx[c] # Idle /\ CallOK(tx[c], db) /\ tx[c].at <= calls
      /\ ~bypassed => CountsOK(tx[c], db)
  BY NothingWritten DEF TxInv, CallsOK
<1>2. /\ DOMAIN tx[c].mine \subseteq DOMAIN db /\ DOMAIN db = Rows
      /\ RowsTyped(tx[c].mine) /\ RowsTyped(db)
  BY <1>1 DEF TxInv, BaseOK, CallOK, CallTyped
<1>3. \A r \in Rows : See(c)[r] = Seen(tx[c], db, r)
  BY <1>2, SeeEffect DEF Seen
<1>4. \A r \in Rows : Typed(r, db[r]) /\ (Wrote(tx[c], r) => Typed(r, tx[c].mine[r]))
  BY <1>2 DEF RowsTyped, Wrote
<1> QED BY <1>1, <1>3, <1>4 DEF Seen

\* What the call sees of each row, and its type.
LEMMA SeenTypes ==
  ASSUME TxInv, NEW c \in Clients, tx[c].pc # "idle"
  PROVE  /\ \A r \in {UserShow, UserStats, Show, DailyLog} : See(c)[r] = Seen(tx[c], db, r)
         /\ \A e \in Episodes : See(c)[UserEpisode(e)] = Seen(tx[c], db, UserEpisode(e))
         /\ \A k \in XpKeys : See(c)[XpEvent(k)] = Seen(tx[c], db, XpEvent(k))
         /\ See(c)[UserShow] \in Entries /\ See(c)[UserStats] \in Stats
         /\ See(c)[Show] \in Int /\ See(c)[DailyLog] \in Int
         /\ \A e \in Episodes : See(c)[UserEpisode(e)] \in Nat
         /\ \A k \in XpKeys : See(c)[XpEvent(k)] \in BOOLEAN
         /\ db[UserShow] \in Entries /\ db[UserStats] \in Stats
         /\ db[Show] \in Int /\ db[DailyLog] \in Int
         /\ \A e \in Episodes : db[UserEpisode(e)] \in Nat
         /\ \A k \in XpKeys : db[XpEvent(k)] \in BOOLEAN
<1>1. \A r \in Rows : /\ See(c)[r] = Seen(tx[c], db, r)
                      /\ Typed(r, See(c)[r]) /\ Typed(r, db[r])
  BY InHand
<1>2. /\ UserShow \in Rows /\ UserStats \in Rows /\ Show \in Rows /\ DailyLog \in Rows
      /\ \A e \in Episodes : UserEpisode(e) \in Rows
      /\ \A k \in XpKeys : XpEvent(k) \in Rows
  BY RowTypes
<1>3. /\ See(c)[UserShow] \in Entries /\ See(c)[UserStats] \in Stats
      /\ See(c)[Show] \in Int /\ See(c)[DailyLog] \in Int
      /\ db[UserShow] \in Entries /\ db[UserStats] \in Stats
      /\ db[Show] \in Int /\ db[DailyLog] \in Int
  BY <1>1, <1>2, TypedRows
<1>4. \A e \in Episodes : See(c)[UserEpisode(e)] \in Nat /\ db[UserEpisode(e)] \in Nat
  BY <1>1, <1>2, TypedRows
<1>5. \A k \in XpKeys : See(c)[XpEvent(k)] \in BOOLEAN /\ db[XpEvent(k)] \in BOOLEAN
  BY <1>1, <1>2, TypedRows
<1> QED BY <1>1, <1>2, <1>3, <1>4, <1>5

\* s is t gone on to next, its writes aside.
Went(t, s, next) ==
  /\ DOMAIN s = Fields
  /\ \A f \in Fields \ {"mine"} : s[f] = IF f \in DOMAIN next THEN next[f] ELSE t[f]

\* s has written row r as t has.
Same(t, s, r) == Wrote(s, r) = Wrote(t, r) /\ (Wrote(t, r) => s.mine[r] = t.mine[r])

LEMMA ReadEffect ==
  ASSUME TxInv, NEW c \in Clients, tx[c].pc # "idle",
         NEW next, DOMAIN next \subseteq Fields \ {"mine"}, Read(c, next)
  PROVE  /\ Others(c) /\ UNCHANGED <<db, calls, bypassed>>
         /\ Went(tx[c], tx'[c], next)
         /\ tx'[c].mine = tx[c].mine
<1>1. /\ DOMAIN next \subseteq DOMAIN tx[c] /\ "mine" \notin DOMAIN next
      /\ "mine" \in DOMAIN tx[c] /\ tx = [d \in Clients |-> tx[d]] /\ DOMAIN tx[c] = Fields
      /\ Advance(c, next) /\ UNCHANGED <<calls, bypassed>>
  BY InHand DEF Read, TxInv, CallsOK, CallOK, CallTyped, Fields
<1>2. /\ Others(c) /\ UNCHANGED db
      /\ GoneOn(tx[c], tx'[c], next) /\ tx'[c].mine = tx[c].mine
  BY <1>1, AdvanceEffect
<1> QED BY <1>1, <1>2 DEF GoneOn, Went

LEMMA WriteEffect ==
  ASSUME TxInv, NEW c \in Clients, tx[c].pc # "idle", NEW r, NEW v,
         NEW next, DOMAIN next \subseteq Fields \ {"mine"}, Write(c, r, v, next)
  PROVE  /\ Others(c) /\ UNCHANGED <<db, calls, bypassed>> /\ Free(c, r)
         /\ Went(tx[c], tx'[c], next)
         /\ OneRow(tx[c], tx'[c], r, v)
<1>1. /\ DOMAIN next \subseteq DOMAIN tx[c] /\ "mine" \notin DOMAIN next
      /\ "mine" \in DOMAIN tx[c] /\ tx = [d \in Clients |-> tx[d]] /\ DOMAIN tx[c] = Fields
      /\ Put(c, r, v, next) /\ UNCHANGED <<calls, bypassed>>
  BY InHand DEF Write, TxInv, CallsOK, CallOK, CallTyped, Fields
<1>2. /\ Others(c) /\ UNCHANGED db /\ Free(c, r)
      /\ GoneOn(tx[c], tx'[c], next) /\ OneRow(tx[c], tx'[c], r, v)
  BY <1>1, PutEffect
<1> QED BY <1>1, <1>2 DEF GoneOn, Went

\* The locals a statement may leave behind, and the row it writes.
LEMMA ReadOnward ==
  ASSUME TxInv, NEW c \in Clients, tx[c].pc # "idle",
         NEW next, DOMAIN next \subseteq Fields \ {"mine", "op", "at"}, Read(c, next),
         CallOK(tx'[c], db), ~bypassed => CountsOK(tx'[c], db)
  PROVE  Onward(c)
<1>1. /\ Others(c) /\ UNCHANGED <<db, calls, bypassed>> /\ tx'[c].mine = tx[c].mine
      /\ Went(tx[c], tx'[c], next)
  BY ReadEffect
<1>2. tx[c] # Idle
  BY InHand
<1> QED BY <1>1, <1>2 DEF Onward, Wrote, Went, Fields

LEMMA WriteOnward ==
  ASSUME TxInv, NEW c \in Clients, tx[c].pc # "idle", NEW r, NEW v,
         NEW next, DOMAIN next \subseteq Fields \ {"mine", "op", "at"}, Write(c, r, v, next),
         CallOK(tx'[c], db), ~bypassed => CountsOK(tx'[c], db)
  PROVE  Onward(c)
<1>1. /\ Others(c) /\ UNCHANGED <<db, calls, bypassed>> /\ Free(c, r)
      /\ OneRow(tx[c], tx'[c], r, v) /\ Went(tx[c], tx'[c], next)
  BY WriteEffect
<1>2. tx[c] # Idle
  BY InHand
<1>3. \A x \in DOMAIN tx'[c].mine : Wrote(tx[c], x) \/ Free(c, x)
  BY <1>1 DEF OneRow, Wrote
<1>4. tx'[c].at = tx[c].at
  BY <1>1 DEF Went, Fields
<1> QED BY <1>1, <1>2, <1>3, <1>4 DEF Onward

LEMMA RollbackOnward ==
  ASSUME TxInv, NEW c \in Clients, Throw(c)
  PROVE  Onward(c)
<1>1. Others(c) /\ UNCHANGED db /\ tx'[c] = Idle
  BY AbortEffect DEF Throw, TxInv, CallsOK
<1> QED BY <1>1 DEF Throw, Onward

----------------------------------------------------------------------------
(* What a statement that has nothing to do with a part of the invariant    *)
(* does to it: nothing.                                                    *)

LEMMA SeenAfter ==
  ASSUME NEW t, NEW s, NEW base, NEW r, Same(t, s, r)
  PROVE  Seen(s, base, r) = Seen(t, base, r)
BY DEF Same, Seen

LEMMA SeenWritten ==
  ASSUME NEW t, NEW s, NEW r, NEW v, OneRow(t, s, r, v)
  PROVE  /\ Wrote(s, r) /\ s.mine[r] = v
         /\ \A base : Seen(s, base, r) = v
         /\ \A x : x # r => Same(t, s, x)
BY DEF OneRow, Seen, Same

LEMMA RowsTypedKept ==
  ASSUME NEW t, NEW s, NEW r \in Rows, NEW v, OneRow(t, s, r, v), Typed(r, v),
         DOMAIN t.mine \subseteq Rows, RowsTyped(t.mine)
  PROVE  DOMAIN s.mine \subseteq Rows /\ RowsTyped(s.mine)
BY DEF OneRow, RowsTyped, Wrote

LEMMA XpKept ==
  ASSUME NEW t, NEW s, NEW base, XpOK(t, base), t.pc # "pay", s.pc # "pay",
         \A k \in XpKeys : Same(t, s, XpEvent(k)),
         Seen(s, base, UserStats).xp = Seen(t, base, UserStats).xp
  PROVE  XpOK(s, base) /\ Awarded(s) = Awarded(t)
<1>1. Awarded(s) = Awarded(t) /\ Paid(s) = Paid(t)
  BY DEF Awarded, Paid, Same
<1> QED BY <1>1 DEF XpOK, Awarded, Same

LEMMA EpisodesKept ==
  ASSUME NEW t, NEW s, NEW base, EpisodesOK(t, base), s.op = t.op, s.at = t.at,
         s.fresh = t.fresh,
         \A e \in Episodes : Same(t, s, UserEpisode(e)),
         t.op.kind = "unmark" => ((s.pc \in BeforeDelete) <=> (t.pc \in BeforeDelete))
  PROVE  EpisodesOK(s, base) /\ Touched(s) = Touched(t)
<1>1. Touched(s) = Touched(t)
  BY DEF Touched, Same
<1>2. \A e \in Touched(t) : s.mine[UserEpisode(e)] = t.mine[UserEpisode(e)]
  BY DEF Touched, Same
<1> QED BY <1>1, <1>2 DEF EpisodesOK

LEMMA VolumeKept ==
  ASSUME NEW t, NEW s, NEW base, VolumeOK(t, base),
         EpisodesMoved(s) = EpisodesMoved(t), Logged(s) = Logged(t),
         Seen(s, base, UserStats).episodes = Seen(t, base, UserStats).episodes,
         Seen(s, base, DailyLog) = Seen(t, base, DailyLog)
  PROVE  VolumeOK(s, base)
BY DEF VolumeOK

LEMMA MembersKept ==
  ASSUME NEW t, NEW s, NEW base, MembersOK(t, base),
         Joined(s) = Joined(t), Placed(s) = Placed(t),
         Seen(s, base, UserStats).status = Seen(t, base, UserStats).status,
         Seen(s, base, Show) = Seen(t, base, Show)
  PROVE  MembersOK(s, base)
BY DEF MembersOK

\* A statement that reads, or writes the entry, may move the call on.
LEMMA Quiet ==
  ASSUME TxInv, NEW c \in Clients, tx[c].pc # "idle", tx[c].pc # "pay", tx'[c].pc # "pay",
         UNCHANGED db, tx'[c].op = tx[c].op, tx'[c].at = tx[c].at, tx'[c].fresh = tx[c].fresh,
         \A r \in Rows \ {UserShow} : Same(tx[c], tx'[c], r),
         CallTyped(tx'[c]),
         tx[c].op.kind = "unmark" => ((tx'[c].pc \in BeforeDelete) <=> (tx[c].pc \in BeforeDelete)),
         Touched(tx'[c]) = Touched(tx[c]) /\ Awarded(tx'[c]) = Awarded(tx[c])
           => PaidOK(tx'[c], db),
         StatusOK(tx'[c]),
         tx[c].op.kind # "remove" /\ ~bypassed =>
           /\ EpisodesMoved(tx'[c]) = EpisodesMoved(tx[c]) /\ Logged(tx'[c]) = Logged(tx[c])
           /\ Joined(tx'[c]) = Joined(tx[c]) /\ Placed(tx'[c]) = Placed(tx[c])
           /\ FoundOK(tx'[c], db)
  PROVE  CallOK(tx'[c], db) /\ (~bypassed => CountsOK(tx'[c], db))
<1> DEFINE t == tx[c]
           s == tx'[c]
<1>1. CallOK(t, db) /\ (~bypassed => CountsOK(t, db))
  BY InHand
<1>2. /\ Same(t, s, UserStats) /\ Same(t, s, Show) /\ Same(t, s, DailyLog)
      /\ \A e \in Episodes : Same(t, s, UserEpisode(e))
      /\ \A k \in XpKeys : Same(t, s, XpEvent(k))
  BY RowTypes, RowIds
<1>3. /\ Seen(s, db, UserStats) = Seen(t, db, UserStats)
      /\ Seen(s, db, Show) = Seen(t, db, Show)
      /\ Seen(s, db, DailyLog) = Seen(t, db, DailyLog)
  <2> HIDE DEF s, t
  <2> QED BY <1>2, SeenAfter
<1>4. XpOK(s, db) /\ Awarded(s) = Awarded(t)
  <2>1. XpOK(t, db) /\ t.pc # "pay" /\ s.pc # "pay"
    BY <1>1 DEF CallOK
  <2> HIDE DEF s, t
  <2> QED BY <1>2, <1>3, <2>1, XpKept
<1>5. EpisodesOK(s, db) /\ Touched(s) = Touched(t)
  <2>1. /\ EpisodesOK(t, db) /\ s.op = t.op /\ s.at = t.at /\ s.fresh = t.fresh
        /\ t.op.kind = "unmark" => ((s.pc \in BeforeDelete) <=> (t.pc \in BeforeDelete))
    BY <1>1 DEF CallOK
  <2> HIDE DEF s, t
  <2> QED BY <1>2, <2>1, EpisodesKept
<1>6. CallOK(s, db)
  BY <1>4, <1>5 DEF CallOK
<1>7. ASSUME ~bypassed PROVE CountsOK(s, db)
  <2> SUFFICES ASSUME t.op.kind # "remove"
               PROVE  VolumeOK(s, db) /\ MembersOK(s, db) /\ FoundOK(s, db)
    BY DEF CountsOK
  <2>1. /\ EpisodesMoved(s) = EpisodesMoved(t) /\ Logged(s) = Logged(t)
        /\ Joined(s) = Joined(t) /\ Placed(s) = Placed(t)
        /\ FoundOK(s, db) /\ VolumeOK(t, db) /\ MembersOK(t, db)
    BY <1>1, <1>7 DEF CountsOK
  <2> HIDE DEF s, t
  <2> QED BY <1>3, <2>1, VolumeKept, MembersKept
<1> QED BY <1>6, <1>7

\* The same for a statement that only reads, whose locals are in next.
LEMMA QuietRead ==
  ASSUME TxInv, NEW c \in Clients, tx[c].pc # "idle", tx[c].pc # "pay",
         NEW next, DOMAIN next \subseteq Fields \ {"mine", "op", "at"}, Read(c, next),
         tx'[c].pc # "pay", tx'[c].fresh = tx[c].fresh,
         CallTyped(tx'[c]),
         tx[c].op.kind = "unmark" => ((tx'[c].pc \in BeforeDelete) <=> (tx[c].pc \in BeforeDelete)),
         PaidOK(tx'[c], db), StatusOK(tx'[c]),
         tx[c].op.kind # "remove" /\ ~bypassed =>
           /\ EpisodesMoved(tx'[c]) = EpisodesMoved(tx[c]) /\ Logged(tx'[c]) = Logged(tx[c])
           /\ Joined(tx'[c]) = Joined(tx[c]) /\ Placed(tx'[c]) = Placed(tx[c])
           /\ FoundOK(tx'[c], db)
  PROVE  Onward(c)
<1>1. /\ UNCHANGED db /\ tx'[c].mine = tx[c].mine /\ Went(tx[c], tx'[c], next)
  BY ReadEffect
<1>2. tx'[c].op = tx[c].op /\ tx'[c].at = tx[c].at
  BY <1>1 DEF Went, Fields
<1>3. \A r : Same(tx[c], tx'[c], r)
  BY <1>1 DEF Same, Wrote
<1>4. CallOK(tx'[c], db) /\ (~bypassed => CountsOK(tx'[c], db))
  BY <1>1, <1>2, <1>3, Quiet
<1> QED BY <1>4, ReadOnward

\* What a statement that only reads leaves in hand.
LEMMA ReadLeaves ==
  ASSUME TxInv, NEW c \in Clients, tx[c].pc # "idle",
         NEW next, DOMAIN next \subseteq Fields \ {"mine", "op", "at"}, Read(c, next)
  PROVE  /\ \A f \in Fields \ {"mine"} : tx'[c][f] = IF f \in DOMAIN next THEN next[f] ELSE tx[c][f]
         /\ tx'[c].op = tx[c].op /\ tx'[c].at = tx[c].at /\ tx'[c].mine = tx[c].mine
         /\ Touched(tx'[c]) = Touched(tx[c]) /\ Awarded(tx'[c]) = Awarded(tx[c])
         /\ \A r : Wrote(tx'[c], r) = Wrote(tx[c], r)
         /\ DOMAIN tx'[c] = Fields
<1>1. Went(tx[c], tx'[c], next) /\ tx'[c].mine = tx[c].mine
  BY ReadEffect
<1> QED BY <1>1 DEF Went, Fields, Touched, Awarded, Wrote

----------------------------------------------------------------------------
(* Statement by statement.                                                 *)

LEMMA FindMissingOnward ==
  ASSUME TxInv, NEW c \in Clients, FindMissing(c)
  PROVE  Onward(c)
<1> DEFINE t    == tx[c]
           s    == tx'[c]
           next == [pc |-> "insert",
                    todo |-> IF tx[c].op.status = "COMPLETED" THEN Episodes \ Tracked(See(c)) ELSE {}]
<1>1. t.pc = "findMissing" /\ t.op.kind = "add" /\ Read(c, next)
  BY DEF FindMissing, At
<1>2. CallOK(t, db) /\ (~bypassed => CountsOK(t, db))
  BY <1>1, InHand
<1>3. /\ DOMAIN next = {"pc", "todo"}
      /\ next.pc = "insert" /\ next.todo \subseteq Episodes
  OBVIOUS
<1> HIDE DEF next
<1>4. /\ \A f \in Fields \ {"mine"} : s[f] = IF f \in DOMAIN next THEN next[f] ELSE t[f]
      /\ s.op = t.op /\ s.at = t.at /\ s.mine = t.mine
      /\ Touched(s) = Touched(t) /\ Awarded(s) = Awarded(t)
      /\ \A r : Wrote(s, r) = Wrote(t, r)
      /\ DOMAIN s = Fields
  BY <1>1, <1>3, ReadLeaves DEF Fields
<1>5. /\ s.pc = "insert" /\ s.todo \subseteq Episodes
      /\ \A f \in Fields \ {"mine", "pc", "todo"} : s[f] = t[f]
  BY <1>3, <1>4 DEF Fields
<1>6. CallTyped(s)
  BY <1>1, <1>2, <1>4, <1>5 DEF CallOK, CallTyped, Fields, Statements, Every, Changing
<1>7. PaidOK(s, db) /\ StatusOK(s)
  BY <1>1, <1>2, <1>4, <1>5 DEF CallOK, PaidOK, StatusOK, Fields, AfterAward, AfterSync
<1>8. t.op.kind # "remove" /\ ~bypassed =>
        /\ EpisodesMoved(s) = EpisodesMoved(t) /\ Logged(s) = Logged(t)
        /\ Joined(s) = Joined(t) /\ Placed(s) = Placed(t)
        /\ FoundOK(s, db)
  BY <1>1, <1>2, <1>4, <1>5
     DEF CountsOK, FoundOK, EpisodesMoved, Logged, Joined, Placed, Fields, BeforeDelete
<1> QED BY <1>1, <1>3, <1>4, <1>5, <1>6, <1>7, <1>8, QuietRead DEF Fields, BeforeDelete

LEMMA FindRowsOnward ==
  ASSUME TxInv, NEW c \in Clients, FindRows(c)
  PROVE  Onward(c)
<1> DEFINE t    == tx[c]
           s    == tx'[c]
           next == [pc |-> "deleteRows", todo |-> Tracked(See(c))]
<1>1. t.pc = "findRows" /\ t.op.kind = "remove" /\ Read(c, next)
  BY DEF FindRows, At
<1>2. CallOK(t, db) /\ (~bypassed => CountsOK(t, db))
  BY <1>1, InHand
<1>3. /\ DOMAIN next = {"pc", "todo"}
      /\ next.pc = "deleteRows" /\ next.todo \subseteq Episodes
  BY DEF Tracked
<1> HIDE DEF next
<1>4. /\ \A f \in Fields \ {"mine"} : s[f] = IF f \in DOMAIN next THEN next[f] ELSE t[f]
      /\ s.op = t.op /\ s.at = t.at /\ s.mine = t.mine
      /\ Touched(s) = Touched(t) /\ Awarded(s) = Awarded(t)
      /\ \A r : Wrote(s, r) = Wrote(t, r)
      /\ DOMAIN s = Fields
  BY <1>1, <1>3, ReadLeaves DEF Fields
<1>5. /\ s.pc = "deleteRows" /\ s.todo \subseteq Episodes
      /\ \A f \in Fields \ {"mine", "pc", "todo"} : s[f] = t[f]
  BY <1>3, <1>4 DEF Fields
<1>6. CallTyped(s)
  BY <1>1, <1>2, <1>4, <1>5 DEF CallOK, CallTyped, Fields, Statements, Every, Changing
<1>7. PaidOK(s, db) /\ StatusOK(s)
  BY <1>1, <1>2, <1>4, <1>5 DEF CallOK, PaidOK, StatusOK, Fields, AfterAward, AfterSync
<1>8. t.op.kind # "remove" /\ ~bypassed =>
        /\ EpisodesMoved(s) = EpisodesMoved(t) /\ Logged(s) = Logged(t)
        /\ Joined(s) = Joined(t) /\ Placed(s) = Placed(t)
        /\ FoundOK(s, db)
  BY <1>1, <1>2, <1>4, <1>5
     DEF CountsOK, FoundOK, EpisodesMoved, Logged, Joined, Placed, Fields, BeforeDelete
<1> QED BY <1>1, <1>3, <1>4, <1>5, <1>6, <1>7, <1>8, QuietRead DEF Fields, BeforeDelete

LEMMA SyncCountOnward ==
  ASSUME TxInv, NEW c \in Clients, SyncCount(c)
  PROVE  Onward(c)
<1> DEFINE t    == tx[c]
           s    == tx'[c]
           next == [pc |-> "syncSeasons", count |-> Cardinality(Tracked(See(c)))]
<1>1. t.pc = "syncCount" /\ t.op.kind \in Every /\ Read(c, next)
  BY DEF SyncCount, At
<1>2. CallOK(t, db) /\ (~bypassed => CountsOK(t, db))
  BY <1>1, InHand
<1>3. /\ DOMAIN next = {"pc", "count"}
      /\ next.pc = "syncSeasons" /\ next.count \in Nat
  BY EpisodeSets DEF Tracked
<1> HIDE DEF next
<1>4. /\ \A f \in Fields \ {"mine"} : s[f] = IF f \in DOMAIN next THEN next[f] ELSE t[f]
      /\ s.op = t.op /\ s.at = t.at /\ s.mine = t.mine
      /\ Touched(s) = Touched(t) /\ Awarded(s) = Awarded(t)
      /\ \A r : Wrote(s, r) = Wrote(t, r)
      /\ DOMAIN s = Fields
  BY <1>1, <1>3, ReadLeaves DEF Fields
<1>5. /\ s.pc = "syncSeasons" /\ s.count \in Nat
      /\ \A f \in Fields \ {"mine", "pc", "count"} : s[f] = t[f]
  BY <1>3, <1>4 DEF Fields
<1>6. CallTyped(s)
  BY <1>1, <1>2, <1>4, <1>5 DEF CallOK, CallTyped, Fields, Statements, Every, Changing
<1>7. PaidOK(s, db) /\ StatusOK(s)
  BY <1>1, <1>2, <1>4, <1>5 DEF CallOK, PaidOK, StatusOK, Fields, AfterAward, AfterSync
<1>8. t.op.kind # "remove" /\ ~bypassed =>
        /\ EpisodesMoved(s) = EpisodesMoved(t) /\ Logged(s) = Logged(t)
        /\ Joined(s) = Joined(t) /\ Placed(s) = Placed(t)
        /\ FoundOK(s, db)
  BY <1>1, <1>2, <1>4, <1>5
     DEF CountsOK, FoundOK, EpisodesMoved, Logged, Joined, Placed, Fields, BeforeDelete
<1> QED BY <1>1, <1>3, <1>4, <1>5, <1>6, <1>7, <1>8, QuietRead DEF Fields, BeforeDelete

LEMMA SyncSeasonsOnward ==
  ASSUME TxInv, NEW c \in Clients, SyncSeasons(c)
  PROVE  Onward(c)
<1> DEFINE t    == tx[c]
           s    == tx'[c]
           next == [pc |-> "syncWrite", seasons |-> IF Tracked(See(c)) = Episodes THEN 1 ELSE 0]
<1>1. t.pc = "syncSeasons" /\ t.op.kind \in Every /\ Read(c, next)
  BY DEF SyncSeasons, At
<1>2. CallOK(t, db) /\ (~bypassed => CountsOK(t, db))
  BY <1>1, InHand
<1>3. /\ DOMAIN next = {"pc", "seasons"}
      /\ next.pc = "syncWrite" /\ next.seasons \in Int
  OBVIOUS
<1> HIDE DEF next
<1>4. /\ \A f \in Fields \ {"mine"} : s[f] = IF f \in DOMAIN next THEN next[f] ELSE t[f]
      /\ s.op = t.op /\ s.at = t.at /\ s.mine = t.mine
      /\ Touched(s) = Touched(t) /\ Awarded(s) = Awarded(t)
      /\ \A r : Wrote(s, r) = Wrote(t, r)
      /\ DOMAIN s = Fields
  BY <1>1, <1>3, ReadLeaves DEF Fields
<1>5. /\ s.pc = "syncWrite" /\ s.seasons \in Int
      /\ \A f \in Fields \ {"mine", "pc", "seasons"} : s[f] = t[f]
  BY <1>3, <1>4 DEF Fields
<1>6. CallTyped(s)
  BY <1>1, <1>2, <1>4, <1>5 DEF CallOK, CallTyped, Fields, Statements, Every, Changing
<1>7. PaidOK(s, db) /\ StatusOK(s)
  BY <1>1, <1>2, <1>4, <1>5 DEF CallOK, PaidOK, StatusOK, Fields, AfterAward, AfterSync
<1>8. t.op.kind # "remove" /\ ~bypassed =>
        /\ EpisodesMoved(s) = EpisodesMoved(t) /\ Logged(s) = Logged(t)
        /\ Joined(s) = Joined(t) /\ Placed(s) = Placed(t)
        /\ FoundOK(s, db)
  BY <1>1, <1>2, <1>4, <1>5
     DEF CountsOK, FoundOK, EpisodesMoved, Logged, Joined, Placed, Fields, BeforeDelete
<1> QED BY <1>1, <1>3, <1>4, <1>5, <1>6, <1>7, <1>8, QuietRead DEF Fields, BeforeDelete

LEMMA FindPreviousOnward ==
  ASSUME TxInv, NEW c \in Clients, FindPrevious(c)
  PROVE  Onward(c)
<1> DEFINE t    == tx[c]
           s    == tx'[c]
           next == [pc |-> "delete", prev |-> See(c)[UserShow]]
<1>1. t.pc = "previous" /\ t.op.kind = "unmark" /\ Read(c, next)
  BY DEF FindPrevious, At
<1>2. CallOK(t, db) /\ (~bypassed => CountsOK(t, db))
  BY <1>1, InHand
<1>3. /\ See(c)[UserShow] \in Entries
      /\ ~bypassed => See(c)[UserShow].status # NotInLibrary
  <2>1. See(c)[UserShow] = Seen(t, db, UserShow) /\ See(c)[UserShow] \in Entries
    BY <1>1, SeenTypes
  <2>2. ~bypassed => db[UserShow].status # NotInLibrary
    BY <1>1, <1>2 DEF CountsOK, FoundOK
  <2>3. Wrote(t, UserShow) => t.mine[UserShow].status # NotInLibrary
    BY <1>1, <1>2, NoEntryIsNoStatus DEF CallOK, StatusOK
  <2> QED BY <2>1, <2>2, <2>3 DEF Seen
<1>4. /\ DOMAIN next = {"pc", "prev"}
      /\ next.pc = "delete" /\ next.prev = See(c)[UserShow]
  OBVIOUS
<1> HIDE DEF next
<1>5. /\ \A f \in Fields \ {"mine"} : s[f] = IF f \in DOMAIN next THEN next[f] ELSE t[f]
      /\ s.op = t.op /\ s.at = t.at /\ s.mine = t.mine
      /\ Touched(s) = Touched(t) /\ Awarded(s) = Awarded(t)
      /\ \A r : Wrote(s, r) = Wrote(t, r)
      /\ DOMAIN s = Fields
  BY <1>1, <1>4, ReadLeaves DEF Fields
<1>6. /\ s.pc = "delete" /\ s.prev = See(c)[UserShow]
      /\ \A f \in Fields \ {"mine", "pc", "prev"} : s[f] = t[f]
  BY <1>4, <1>5 DEF Fields
<1>7. CallTyped(s)
  BY <1>1, <1>2, <1>3, <1>5, <1>6 DEF CallOK, CallTyped, Fields, Statements, Every, Changing
<1>8. PaidOK(s, db) /\ StatusOK(s)
  BY <1>1, <1>2, <1>5, <1>6 DEF CallOK, PaidOK, StatusOK, Fields, AfterAward, AfterSync
<1>9. t.op.kind # "remove" /\ ~bypassed =>
        /\ EpisodesMoved(s) = EpisodesMoved(t) /\ Logged(s) = Logged(t)
        /\ Joined(s) = Joined(t) /\ Placed(s) = Placed(t)
        /\ FoundOK(s, db)
  BY <1>1, <1>2, <1>3, <1>5, <1>6
     DEF CountsOK, FoundOK, EpisodesMoved, Logged, Joined, Placed, Fields, BeforeDelete,
         Changing
<1> QED BY <1>1, <1>4, <1>5, <1>6, <1>7, <1>8, <1>9, QuietRead DEF Fields, BeforeDelete

LEMMA FindRecentOnward ==
  ASSUME TxInv, NEW c \in Clients, FindRecent(c)
  PROVE  Onward(c)
<1> DEFINE t    == tx[c]
           s    == tx'[c]
           next == [pc |-> "award", due |-> tx[c].due \cup Since(See(c), tx[c].at)]
<1>1. t.pc = "recent" /\ t.op.kind = "mark" /\ Read(c, next)
  BY DEF FindRecent, At
<1>2. CallOK(t, db) /\ (~bypassed => CountsOK(t, db))
  BY <1>1, InHand
<1>3. Since(See(c), t.at) \subseteq XpKeys /\ Touched(t) \subseteq Since(See(c), t.at)
  <2>1. \A e \in Touched(t) : e \in Episodes /\ See(c)[UserEpisode(e)] = t.at
    BY <1>1, <1>2, SeenTypes DEF CallOK, EpisodesOK, Touched, Changing, Seen
  <2>2. t.at \in Nat \ {0}
    BY <1>2 DEF CallOK, CallTyped
  <2> QED BY <2>1, <2>2 DEF Since, Tracked, XpKeys
<1>4. /\ DOMAIN next = {"pc", "due"}
      /\ next.pc = "award" /\ next.due = t.due \cup Since(See(c), t.at)
  OBVIOUS
<1> HIDE DEF next
<1>5. /\ \A f \in Fields \ {"mine"} : s[f] = IF f \in DOMAIN next THEN next[f] ELSE t[f]
      /\ s.op = t.op /\ s.at = t.at /\ s.mine = t.mine
      /\ Touched(s) = Touched(t) /\ Awarded(s) = Awarded(t)
      /\ \A r : Wrote(s, r) = Wrote(t, r)
      /\ DOMAIN s = Fields
  BY <1>1, <1>4, ReadLeaves DEF Fields
<1>6. /\ s.pc = "award" /\ s.due = t.due \cup Since(See(c), t.at)
      /\ \A f \in Fields \ {"mine", "pc", "due"} : s[f] = t[f]
  BY <1>4, <1>5 DEF Fields
<1>7. CallTyped(s)
  BY <1>1, <1>2, <1>3, <1>5, <1>6 DEF CallOK, CallTyped, Fields, Statements, Every, Changing
<1>8. PaidOK(s, db) /\ StatusOK(s)
  BY <1>1, <1>2, <1>3, <1>5, <1>6 DEF CallOK, PaidOK, StatusOK, Fields, AfterAward, AfterSync
<1>9. t.op.kind # "remove" /\ ~bypassed =>
        /\ EpisodesMoved(s) = EpisodesMoved(t) /\ Logged(s) = Logged(t)
        /\ Joined(s) = Joined(t) /\ Placed(s) = Placed(t)
        /\ FoundOK(s, db)
  BY <1>1, <1>2, <1>5, <1>6
     DEF CountsOK, FoundOK, EpisodesMoved, Logged, Joined, Placed, Fields, BeforeDelete
<1> QED BY <1>1, <1>4, <1>5, <1>6, <1>7, <1>8, <1>9, QuietRead DEF Fields, BeforeDelete

LEMMA FindEntryOnward ==
  ASSUME TxInv, NEW c \in Clients, FindEntry(c)
  PROVE  Onward(c)
<1> DEFINE t     == tx[c]
           s     == tx'[c]
           entry == See(c)[UserShow]
           next  == [prev |-> entry,
                     todo |-> IF tx[c].op.kind = "mark" THEN tx[c].op.episodes ELSE {},
                     pc |-> CASE tx[c].op.kind = "mark" ->
                                   IF entry.status # NotInLibrary THEN "insert" ELSE "create"
                              [] tx[c].op.kind = "add" -> "upsert"
                              [] OTHER ->
                                   IF entry.status # NotInLibrary THEN "findRows" ELSE "commit"]
<1>1. t.pc = "find" /\ t.op.kind \in {"mark", "add", "remove"} /\ Read(c, next)
  BY DEF FindEntry, At
<1>2. CallOK(t, db) /\ (~bypassed => CountsOK(t, db))
  BY <1>1, InHand
<1>3. entry \in Entries /\ (t.op.kind = "mark" => t.op.episodes \subseteq Episodes)
  BY <1>1, <1>2, SeenTypes, OpTypes DEF CallOK, CallTyped
<1>4. /\ DOMAIN next = {"pc", "prev", "todo"}
      /\ next.prev = entry /\ next.todo \subseteq Episodes
      /\ t.op.kind = "mark" =>
           next.pc = IF entry.status # NotInLibrary THEN "insert" ELSE "create"
      /\ t.op.kind = "add" => next.pc = "upsert"
      /\ t.op.kind = "remove" =>
           next.pc = IF entry.status # NotInLibrary THEN "findRows" ELSE "commit"
  BY <1>3
<1> HIDE DEF next, entry
<1>5. /\ \A f \in Fields \ {"mine"} : s[f] = IF f \in DOMAIN next THEN next[f] ELSE t[f]
      /\ s.op = t.op /\ s.at = t.at /\ s.mine = t.mine
      /\ Touched(s) = Touched(t) /\ Awarded(s) = Awarded(t)
      /\ \A r : Wrote(s, r) = Wrote(t, r)
      /\ DOMAIN s = Fields
  BY <1>1, <1>4, ReadLeaves DEF Fields
<1>6. /\ s.prev = entry /\ s.todo \subseteq Episodes
      /\ t.op.kind = "mark" =>
           s.pc = IF entry.status # NotInLibrary THEN "insert" ELSE "create"
      /\ t.op.kind = "add" => s.pc = "upsert"
      /\ t.op.kind = "remove" =>
           s.pc = IF entry.status # NotInLibrary THEN "findRows" ELSE "commit"
      /\ \A f \in Fields \ {"mine", "pc", "prev", "todo"} : s[f] = t[f]
  BY <1>4, <1>5 DEF Fields
<1>7. CallTyped(s)
  BY <1>1, <1>2, <1>3, <1>5, <1>6 DEF CallOK, CallTyped, Fields, Statements, Every, Changing
<1>8. PaidOK(s, db) /\ StatusOK(s)
  BY <1>1, <1>2, <1>5, <1>6 DEF CallOK, PaidOK, StatusOK, Fields, AfterAward, AfterSync,
     Changing
<1>9. t.op.kind # "remove" /\ ~bypassed =>
        /\ EpisodesMoved(s) = EpisodesMoved(t) /\ Logged(s) = Logged(t)
        /\ Joined(s) = Joined(t) /\ Placed(s) = Placed(t)
        /\ FoundOK(s, db)
  BY <1>1, <1>2, <1>5, <1>6
     DEF CountsOK, FoundOK, EpisodesMoved, Logged, Joined, Placed, Fields, BeforeDelete
<1> QED BY <1>1, <1>4, <1>5, <1>6, <1>7, <1>8, <1>9, QuietRead DEF Fields, BeforeDelete

LEMMA FindWatchedOnward ==
  ASSUME TxInv, NEW c \in Clients, FindWatched(c)
  PROVE  Onward(c)
<1> DEFINE t    == tx[c]
           s    == tx'[c]
           next == [pc |-> "previous"]
<1>1. t.pc = "find" /\ t.op.kind = "unmark"
  BY DEF FindWatched, At
<1>2. CASE Throw(c)
  BY <1>2, RollbackOnward
<1>3. CASE t.op.episodes \subseteq Tracked(See(c)) /\ Read(c, next)
  <2>1. CallOK(t, db) /\ (~bypassed => CountsOK(t, db))
    BY <1>1, InHand
  <2>2. DOMAIN next = {"pc"} /\ next.pc = "previous"
    OBVIOUS
  <2> HIDE DEF next
  <2>3. /\ \A f \in Fields \ {"mine"} : s[f] = IF f \in DOMAIN next THEN next[f] ELSE t[f]
        /\ s.op = t.op /\ s.at = t.at /\ s.mine = t.mine
        /\ Touched(s) = Touched(t) /\ Awarded(s) = Awarded(t)
        /\ \A r : Wrote(s, r) = Wrote(t, r)
        /\ DOMAIN s = Fields
    BY <1>1, <1>3, <2>2, ReadLeaves DEF Fields
  <2>4. s.pc = "previous" /\ \A f \in Fields \ {"mine", "pc"} : s[f] = t[f]
    BY <2>2, <2>3 DEF Fields
  <2>5. ~bypassed => db[UserShow].status # NotInLibrary
    <3>1. PICK e \in Episodes : t.op.episodes = {e}
      BY <1>1, <2>1, OpTypes DEF CallOK, CallTyped
    <3>2. e \notin Touched(t)
      BY <1>1, <2>1 DEF CallOK, EpisodesOK, BeforeDelete
    <3>3. See(c)[UserEpisode(e)] = db[UserEpisode(e)]
      BY <1>1, <3>2, SeenTypes DEF Touched, Seen
    <3>4. e \in Tracked(db)
      BY <1>3, <3>1, <3>3 DEF Tracked
    <3> QED BY <3>4 DEF TxInv, MembersCounted
  <2>6. CallTyped(s)
    BY <1>1, <2>1, <2>3, <2>4 DEF CallOK, CallTyped, Fields, Statements
  <2>7. PaidOK(s, db) /\ StatusOK(s)
    BY <1>1, <2>1, <2>3, <2>4 DEF CallOK, PaidOK, StatusOK, Fields, AfterAward, AfterSync
  <2>8. t.op.kind # "remove" /\ ~bypassed =>
          /\ EpisodesMoved(s) = EpisodesMoved(t) /\ Logged(s) = Logged(t)
          /\ Joined(s) = Joined(t) /\ Placed(s) = Placed(t)
          /\ FoundOK(s, db)
    BY <1>1, <2>1, <2>3, <2>4, <2>5
       DEF CountsOK, FoundOK, EpisodesMoved, Logged, Joined, Placed, Fields, BeforeDelete,
           Changing
  <2> QED BY <1>1, <1>3, <2>2, <2>3, <2>4, <2>6, <2>7, <2>8, QuietRead DEF Fields, BeforeDelete
<1> QED BY <1>2, <1>3 DEF FindWatched

LEMMA SyncReadOnward ==
  ASSUME TxInv, NEW c \in Clients, SyncRead(c)
  PROVE  Onward(c)
<1> DEFINE t    == tx[c]
           s    == tx'[c]
           was  == See(c)[UserShow]
           next == [pc |-> "syncCount", was |-> was]
<1>1. t.pc = "syncRead" /\ t.op.kind \in {"mark", "unmark", "add"}
  BY DEF SyncRead, At
<1>2. CASE Throw(c)
  BY <1>2, RollbackOnward
<1>3. CASE was.status # NotInLibrary /\ Read(c, next)
  <2>1. CallOK(t, db) /\ (~bypassed => CountsOK(t, db))
    BY <1>1, InHand
  <2>2. was \in Entries /\ was.status \in Statuses
    <3>1. was \in Entries
      BY <1>1, SeenTypes
    <3> QED BY <1>3, <3>1 DEF Entries
  <2>3. DOMAIN next = {"pc", "was"} /\ next.pc = "syncCount" /\ next.was = was
    OBVIOUS
  <2> HIDE DEF next, was
  <2>4. /\ \A f \in Fields \ {"mine"} : s[f] = IF f \in DOMAIN next THEN next[f] ELSE t[f]
        /\ s.op = t.op /\ s.at = t.at /\ s.mine = t.mine
        /\ Touched(s) = Touched(t) /\ Awarded(s) = Awarded(t)
        /\ \A r : Wrote(s, r) = Wrote(t, r)
        /\ DOMAIN s = Fields
    BY <1>1, <1>3, <2>3, ReadLeaves DEF Fields
  <2>5. /\ s.pc = "syncCount" /\ s.was = was
        /\ \A f \in Fields \ {"mine", "pc", "was"} : s[f] = t[f]
    BY <2>3, <2>4 DEF Fields
  <2>6. CallTyped(s)
    BY <1>1, <2>1, <2>2, <2>4, <2>5 DEF CallOK, CallTyped, Fields, Statements
  <2>7. PaidOK(s, db) /\ StatusOK(s)
    BY <1>1, <2>1, <2>2, <2>4, <2>5
       DEF CallOK, PaidOK, StatusOK, Fields, AfterAward, AfterSync
  <2>8. t.op.kind # "remove" /\ ~bypassed =>
          /\ EpisodesMoved(s) = EpisodesMoved(t) /\ Logged(s) = Logged(t)
          /\ Joined(s) = Joined(t) /\ Placed(s) = Placed(t)
          /\ FoundOK(s, db)
    BY <1>1, <2>1, <2>4, <2>5
       DEF CountsOK, FoundOK, EpisodesMoved, Logged, Joined, Placed, Fields, BeforeDelete,
           Changing
  <2> QED BY <1>1, <1>3, <2>3, <2>4, <2>5, <2>6, <2>7, <2>8, QuietRead DEF Fields, BeforeDelete
<1> QED BY <1>2, <1>3 DEF SyncRead

\* s is t gone on to next with v written at r.
Left(t, s, r, v, next) ==
  /\ DOMAIN s = Fields
  /\ \A f \in Fields \ {"mine"} : s[f] = IF f \in DOMAIN next THEN next[f] ELSE t[f]
  /\ s.op = t.op /\ s.at = t.at
  /\ DOMAIN s.mine \subseteq Rows /\ RowsTyped(s.mine)
  /\ Wrote(s, r) /\ s.mine[r] = v
  /\ \A base : Seen(s, base, r) = v
  /\ \A x : x # r => Same(t, s, x)

\* What a statement that writes a row leaves in hand.
LEMMA WriteLeaves ==
  ASSUME TxInv, NEW c \in Clients, tx[c].pc # "idle", NEW r \in Rows, NEW v, Typed(r, v),
         NEW next, DOMAIN next \subseteq Fields \ {"mine", "op", "at"}, Write(c, r, v, next)
  PROVE  Left(tx[c], tx'[c], r, v, next)
<1>1. Went(tx[c], tx'[c], next) /\ OneRow(tx[c], tx'[c], r, v)
  BY WriteEffect
<1>2. DOMAIN tx[c].mine \subseteq Rows /\ RowsTyped(tx[c].mine)
  BY InHand DEF CallOK, CallTyped
<1>3. DOMAIN tx'[c].mine \subseteq Rows /\ RowsTyped(tx'[c].mine)
  BY <1>1, <1>2, RowsTypedKept
<1>4. /\ Wrote(tx'[c], r) /\ tx'[c].mine[r] = v
      /\ \A base : Seen(tx'[c], base, r) = v
      /\ \A x : x # r => Same(tx[c], tx'[c], x)
  BY <1>1, SeenWritten
<1>5. tx'[c].op = tx[c].op /\ tx'[c].at = tx[c].at
  BY <1>1 DEF Went, Fields
<1> QED BY <1>1, <1>3, <1>4, <1>5 DEF Left, Went

\* A statement that writes the entry, no other part of the invariant being
\* about it, may move the call on.
LEMMA EntryOnward ==
  ASSUME TxInv, NEW c \in Clients, tx[c].pc # "idle", tx[c].pc # "pay", NEW v \in Entries,
         NEW next, DOMAIN next \subseteq Fields \ {"mine", "op", "at", "fresh"},
         Write(c, UserShow, v, next),
         tx'[c].pc # "pay",
         CallTyped(tx'[c]),
         tx[c].op.kind = "unmark" => ((tx'[c].pc \in BeforeDelete) <=> (tx[c].pc \in BeforeDelete)),
         Touched(tx'[c]) = Touched(tx[c]) => PaidOK(tx'[c], db),
         StatusOK(tx'[c]),
         tx[c].op.kind # "remove" /\ ~bypassed =>
           /\ EpisodesMoved(tx'[c]) = EpisodesMoved(tx[c]) /\ Logged(tx'[c]) = Logged(tx[c])
           /\ Joined(tx'[c]) = Joined(tx[c]) /\ Placed(tx'[c]) = Placed(tx[c])
           /\ FoundOK(tx'[c], db)
  PROVE  Onward(c)
<1>1. /\ UserShow \in Rows /\ Typed(UserShow, v)
      /\ DOMAIN next \subseteq Fields \ {"mine", "op", "at"}
  BY RowTypes, TypedRows
<1>2. /\ \A f \in Fields \ {"mine"} : tx'[c][f] = IF f \in DOMAIN next THEN next[f] ELSE tx[c][f]
      /\ tx'[c].op = tx[c].op /\ tx'[c].at = tx[c].at
      /\ \A x : x # UserShow => Same(tx[c], tx'[c], x)
      /\ UNCHANGED db
  <2>1. /\ UNCHANGED db /\ Went(tx[c], tx'[c], next) /\ OneRow(tx[c], tx'[c], UserShow, v)
    BY <1>1, WriteEffect
  <2>2. \A x : x # UserShow => Same(tx[c], tx'[c], x)
    BY <2>1, SeenWritten
  <2> QED BY <2>1, <2>2 DEF Went, Fields
<1>3. tx'[c].fresh = tx[c].fresh
  BY <1>2 DEF Fields
<1>4. CallOK(tx'[c], db) /\ (~bypassed => CountsOK(tx'[c], db))
  BY <1>2, <1>3, Quiet
<1> QED BY <1>1, <1>4, WriteOnward

LEMMA CreateEntryOnward ==
  ASSUME TxInv, NEW c \in Clients, CreateEntry(c)
  PROVE  Onward(c)
<1> DEFINE t    == tx[c]
           s    == tx'[c]
           v    == [NoEntry EXCEPT !.status = "WATCHING"]
           next == [pc |-> "member"]
<1>1. t.pc = "create" /\ t.op.kind = "mark"
  BY DEF CreateEntry, At
<1>2. CASE Throw(c)
  BY <1>2, RollbackOnward
<1>3. CASE Write(c, UserShow, v, next)
  <2>1. CallOK(t, db) /\ (~bypassed => CountsOK(t, db))
    BY <1>1, InHand
  <2>2. v \in Entries /\ v.status \in Statuses
    BY DEF NoEntry, Entries, Statuses
  <2>3. DOMAIN next = {"pc"} /\ next.pc = "member"
    OBVIOUS
  <2>4. UserShow \in Rows /\ Typed(UserShow, v)
    BY <2>2, RowTypes, TypedRows
  <2> HIDE DEF next, v
  <2>5. /\ \A f \in Fields \ {"mine"} : s[f] = IF f \in DOMAIN next THEN next[f] ELSE t[f]
        /\ s.op = t.op /\ s.at = t.at /\ DOMAIN s = Fields
        /\ DOMAIN s.mine \subseteq Rows /\ RowsTyped(s.mine)
        /\ Wrote(s, UserShow) /\ s.mine[UserShow] = v
    <3>1. Left(t, s, UserShow, v, next)
      BY <1>1, <1>3, <2>3, <2>4, WriteLeaves DEF Fields
    <3> QED BY <3>1 DEF Left
  <2>6. s.pc = "member" /\ \A f \in Fields \ {"mine", "pc"} : s[f] = t[f]
    BY <2>3, <2>5 DEF Fields
  <2>7. CallTyped(s)
    BY <1>1, <2>1, <2>5, <2>6 DEF CallOK, CallTyped, Fields, Statements
  <2>8. PaidOK(s, db) /\ StatusOK(s)
    BY <1>1, <2>2, <2>5, <2>6 DEF PaidOK, StatusOK, Fields, AfterAward, AfterSync
  <2>9. ~bypassed =>
          /\ EpisodesMoved(s) = EpisodesMoved(t) /\ Logged(s) = Logged(t)
          /\ Joined(s) = Joined(t) /\ Placed(s) = Placed(t)
          /\ FoundOK(s, db)
    BY <1>1, <2>1, <2>5, <2>6
       DEF CountsOK, FoundOK, EpisodesMoved, Logged, Joined, Placed, Fields
  <2> QED BY <1>1, <1>3, <2>2, <2>3, <2>6, <2>7, <2>8, <2>9, EntryOnward DEF Fields
<1> QED BY <1>2, <1>3 DEF CreateEntry

LEMMA UpsertEntryOnward ==
  ASSUME TxInv, NEW c \in Clients, UpsertEntry(c)
  PROVE  Onward(c)
<1> DEFINE t    == tx[c]
           s    == tx'[c]
           v    == [See(c)[UserShow] EXCEPT !.status = tx[c].op.status]
           pc   == IF tx[c].prev.status = NotInLibrary THEN "member" ELSE "findMissing"
           next == [pc |-> pc]
<1>1. t.pc = "upsert" /\ t.op.kind = "add" /\ Write(c, UserShow, v, next)
  BY DEF UpsertEntry, At
<1>2. CallOK(t, db) /\ (~bypassed => CountsOK(t, db))
  BY <1>1, InHand
<1>3. v \in Entries /\ v.status \in Statuses
  <2>1. See(c)[UserShow] \in Entries /\ t.op.status \in Statuses
    BY <1>1, <1>2, SeenTypes, OpTypes DEF CallOK, CallTyped
  <2> QED BY <2>1 DEF Entries
<1>4. DOMAIN next = {"pc"} /\ next.pc = pc
  OBVIOUS
<1>5. UserShow \in Rows /\ Typed(UserShow, v)
  BY <1>3, RowTypes, TypedRows
<1> HIDE DEF next, v
<1>6. /\ \A f \in Fields \ {"mine"} : s[f] = IF f \in DOMAIN next THEN next[f] ELSE t[f]
      /\ s.op = t.op /\ s.at = t.at /\ DOMAIN s = Fields
      /\ DOMAIN s.mine \subseteq Rows /\ RowsTyped(s.mine)
      /\ Wrote(s, UserShow) /\ s.mine[UserShow] = v
  <2>1. Left(t, s, UserShow, v, next)
    BY <1>1, <1>4, <1>5, WriteLeaves DEF Fields
  <2> QED BY <2>1 DEF Left
<1>7. s.pc = pc /\ \A f \in Fields \ {"mine", "pc"} : s[f] = t[f]
  BY <1>4, <1>6 DEF Fields
<1>8. CallTyped(s)
  BY <1>1, <1>2, <1>6, <1>7 DEF CallOK, CallTyped, Fields, Statements
<1>9. PaidOK(s, db) /\ StatusOK(s)
  BY <1>1, <1>3, <1>6, <1>7 DEF PaidOK, StatusOK, Fields, AfterAward, AfterSync
<1>10. ~bypassed =>
         /\ EpisodesMoved(s) = EpisodesMoved(t) /\ Logged(s) = Logged(t)
         /\ Joined(s) = Joined(t) /\ Placed(s) = Placed(t)
         /\ FoundOK(s, db)
  BY <1>1, <1>2, <1>6, <1>7
     DEF CountsOK, FoundOK, EpisodesMoved, Logged, Joined, Placed, Fields
<1> QED BY <1>1, <1>3, <1>4, <1>7, <1>8, <1>9, <1>10, EntryOnward DEF Fields

LEMMA DeleteEntryOnward ==
  ASSUME TxInv, NEW c \in Clients, DeleteEntry(c)
  PROVE  Onward(c)
<1> DEFINE t    == tx[c]
           s    == tx'[c]
           v    == NoEntry
           next == [pc |-> "member"]
<1>1. t.pc = "deleteEntry" /\ t.op.kind = "remove"
  BY DEF DeleteEntry, At
<1>2. CASE Throw(c)
  BY <1>2, RollbackOnward
<1>3. CASE Write(c, UserShow, v, next)
  <2>1. CallOK(t, db)
    BY <1>1, InHand
  <2>2. v \in Entries
    BY DEF NoEntry, Entries
  <2>3. DOMAIN next = {"pc"} /\ next.pc = "member"
    OBVIOUS
  <2>4. UserShow \in Rows /\ Typed(UserShow, v)
    BY <2>2, RowTypes, TypedRows
  <2> HIDE DEF next, v
  <2>5. /\ \A f \in Fields \ {"mine"} : s[f] = IF f \in DOMAIN next THEN next[f] ELSE t[f]
        /\ s.op = t.op /\ s.at = t.at /\ DOMAIN s = Fields
        /\ DOMAIN s.mine \subseteq Rows /\ RowsTyped(s.mine)
    <3>1. Left(t, s, UserShow, v, next)
      BY <1>1, <1>3, <2>3, <2>4, WriteLeaves DEF Fields
    <3> QED BY <3>1 DEF Left
  <2>6. s.pc = "member" /\ \A f \in Fields \ {"mine", "pc"} : s[f] = t[f]
    BY <2>3, <2>5 DEF Fields
  <2>7. CallTyped(s)
    BY <1>1, <2>1, <2>5, <2>6 DEF CallOK, CallTyped, Fields, Statements
  <2>8. PaidOK(s, db) /\ StatusOK(s)
    BY <1>1, <2>5, <2>6 DEF PaidOK, StatusOK, Fields, Changing
  <2> QED BY <1>1, <1>3, <2>2, <2>3, <2>6, <2>7, <2>8, EntryOnward DEF Fields
<1> QED BY <1>2, <1>3 DEF DeleteEntry

LEMMA SyncWriteOnward ==
  ASSUME TxInv, NEW c \in Clients, SyncWrite(c)
  PROVE  Onward(c)
<1> DEFINE t      == tx[c]
           s      == tx'[c]
           asked  == IF tx[c].op.kind = "add" THEN tx[c].op.status ELSE NotInLibrary
           status == ResolveStatus(tx[c].was.status, asked,
                                   tx[c].count >= Cardinality(Episodes), tx[c].count)
           whole  == (IF tx[c].seasons = 1 THEN {"season"} ELSE {})
                       \cup (IF status = "COMPLETED" THEN {"show"} ELSE {})
           v      == [status |-> status, episodes |-> tx[c].count, seasons |-> tx[c].seasons]
           due    == IF tx[c].op.kind = "unmark" THEN {} ELSE whole
           pc     == CASE tx[c].op.kind = "unmark" -> "reconcile"
                       [] tx[c].op.kind = "mark" /\ tx[c].fresh > 0 -> "recent"
                       [] OTHER -> "award"
           next   == [status |-> status, due |-> due, pc |-> pc]
<1>1. t.pc = "syncWrite" /\ t.op.kind \in Every
  BY DEF SyncWrite, At
<1>2. CallOK(t, db) /\ (~bypassed => CountsOK(t, db))
  BY <1>1, InHand
<1>3. t.op.kind # "remove"
  BY <1>1, <1>2 DEF CallOK, CallTyped, Statements
<1>4. CASE Throw(c)
  BY <1>4, RollbackOnward
<1>5. CASE Write(c, UserShow, v, next)
  <2>1. status \in Statuses
    <3>1. /\ t.was.status \in Statuses /\ t.count \in Nat
          /\ asked \in Statuses \cup {NotInLibrary}
      BY <1>1, <1>2, OpTypes DEF CallOK, CallTyped, StatusOK
    <3>2. (t.count >= Cardinality(Episodes)) \in BOOLEAN
      OBVIOUS
    <3> QED BY <3>1, <3>2, ResolveStatusType
  <2>2. due \subseteq XpKeys
    BY DEF XpKeys
  <2> HIDE DEF status, due
  <2>3. v \in Entries /\ v.status = status
    BY <1>2, <2>1 DEF CallOK, CallTyped, Entries
  <2>4. /\ pc \in {"reconcile", "recent", "award"}
        /\ t.op.kind = "unmark" => pc = "reconcile"
        /\ t.op.kind # "unmark" => pc \in {"recent", "award"}
        /\ pc = "recent" => t.op.kind = "mark"
        /\ t.op.kind = "mark" /\ pc = "award" => ~(t.fresh > 0)
    OBVIOUS
  <2>5. DOMAIN next = {"status", "due", "pc"} /\ next.status = status /\ next.due = due /\ next.pc = pc
    OBVIOUS
  <2>6. UserShow \in Rows /\ Typed(UserShow, v)
    BY <2>3, RowTypes, TypedRows
  <2> HIDE DEF next, v, pc
  <2>7. /\ \A f \in Fields \ {"mine"} : s[f] = IF f \in DOMAIN next THEN next[f] ELSE t[f]
        /\ s.op = t.op /\ s.at = t.at /\ DOMAIN s = Fields
        /\ DOMAIN s.mine \subseteq Rows /\ RowsTyped(s.mine)
        /\ Wrote(s, UserShow) /\ s.mine[UserShow] = v
    <3>1. Left(t, s, UserShow, v, next)
      BY <1>1, <1>5, <2>5, <2>6, WriteLeaves DEF Fields
    <3> QED BY <3>1 DEF Left
  <2>8. /\ s.status = status /\ s.due = due /\ s.pc = pc
        /\ \A f \in Fields \ {"mine", "status", "due", "pc"} : s[f] = t[f]
    BY <2>5, <2>7 DEF Fields
  <2>9. CallTyped(s)
    BY <1>1, <1>2, <1>3, <2>1, <2>2, <2>4, <2>7, <2>8
       DEF CallOK, CallTyped, Fields, Statements, Every
  <2>10. StatusOK(s)
    BY <2>1, <2>3, <2>4, <2>7, <2>8 DEF StatusOK
  <2>11. ASSUME Touched(s) = Touched(t) PROVE PaidOK(s, db)
    <3>1. t.op.kind = "mark" /\ pc = "award" => Touched(s) = {}
      <4>1. IsFiniteSet(Touched(t)) /\ t.fresh \in Nat
        BY <1>2, EpisodeSets DEF Touched, CallOK, CallTyped
      <4>2. t.op.kind = "mark" => t.fresh = Cardinality(Touched(t))
        BY <1>2 DEF CallOK, EpisodesOK, Changing
      <4> QED BY <2>4, <2>11, <4>1, <4>2, FS_EmptySet
    <3> QED BY <2>4, <2>7, <2>8, <3>1 DEF PaidOK, AfterAward, Changing
  <2>12. ~bypassed =>
           /\ EpisodesMoved(s) = EpisodesMoved(t) /\ Logged(s) = Logged(t)
           /\ Joined(s) = Joined(t) /\ Placed(s) = Placed(t)
           /\ FoundOK(s, db)
    BY <1>1, <1>2, <1>3, <2>4, <2>7, <2>8
       DEF CountsOK, FoundOK, EpisodesMoved, Logged, Joined, Placed, Fields, BeforeDelete,
           Every, Changing
  <2>13. (s.pc \in BeforeDelete) <=> (t.pc \in BeforeDelete)
    BY <1>1, <2>4, <2>8 DEF BeforeDelete
  <2> QED BY <1>1, <1>5, <2>3, <2>4, <2>5, <2>8, <2>9, <2>10, <2>11, <2>12, <2>13, EntryOnward
          DEF Fields
<1> QED BY <1>4, <1>5 DEF SyncWrite

\* A statement that writes none of the counters, and moves none.
LEMMA CountsKept ==
  ASSUME NEW t, NEW s, NEW base, CountsOK(t, base), s.op = t.op,
         Same(t, s, UserStats), Same(t, s, DailyLog), Same(t, s, Show),
         t.op.kind # "remove" =>
           /\ EpisodesMoved(s) = EpisodesMoved(t) /\ Logged(s) = Logged(t)
           /\ Joined(s) = Joined(t) /\ Placed(s) = Placed(t)
           /\ FoundOK(s, base)
  PROVE  CountsOK(s, base)
<1>1. /\ Seen(s, base, UserStats) = Seen(t, base, UserStats)
      /\ Seen(s, base, DailyLog) = Seen(t, base, DailyLog)
      /\ Seen(s, base, Show) = Seen(t, base, Show)
  BY SeenAfter
<1>2. ASSUME t.op.kind # "remove"
      PROVE  VolumeOK(s, base) /\ MembersOK(s, base) /\ FoundOK(s, base)
  BY <1>1, <1>2, VolumeKept, MembersKept DEF CountsOK
<1> QED BY <1>2 DEF CountsOK

LEMMA InsertOnward ==
  ASSUME TxInv, NEW c \in Clients, tx[c].pc = "insert", tx[c].op.kind \in Changing,
         NEW e \in tx[c].todo, See(c)[UserEpisode(e)] = 0,
         NEW v \in Nat \ {0}, tx[c].op.kind = "mark" => v = tx[c].at,
         NEW next, DOMAIN next = {"todo", "fresh"},
         next.todo = tx[c].todo \ {e}, next.fresh = tx[c].fresh + 1,
         Write(c, UserEpisode(e), v, next)
  PROVE  Onward(c)
<1> DEFINE t == tx[c]
           s == tx'[c]
           r == UserEpisode(e)
<1>1. CallOK(t, db) /\ (~bypassed => CountsOK(t, db)) /\ e \in Episodes
  BY InHand DEF CallOK, CallTyped
<1>2. r \in Rows /\ Typed(r, v) /\ DOMAIN next \subseteq Fields \ {"mine", "op", "at"}
  BY <1>1, RowTypes, TypedRows DEF Fields
<1>3. /\ \A f \in Fields \ {"mine"} : s[f] = IF f \in DOMAIN next THEN next[f] ELSE t[f]
      /\ s.op = t.op /\ s.at = t.at /\ DOMAIN s = Fields
      /\ DOMAIN s.mine \subseteq Rows /\ RowsTyped(s.mine)
      /\ Wrote(s, r) /\ s.mine[r] = v
      /\ \A x : x # r => Same(t, s, x)
  <2>1. Went(t, s, next) /\ OneRow(t, s, r, v)
    BY <1>2, WriteEffect
  <2>2. /\ Wrote(s, r) /\ s.mine[r] = v
        /\ \A x : x # r => Same(t, s, x)
    BY <2>1, SeenWritten
  <2>3. DOMAIN s.mine \subseteq Rows /\ RowsTyped(s.mine)
    <3>1. DOMAIN t.mine \subseteq Rows /\ RowsTyped(t.mine)
      BY <1>1 DEF CallOK, CallTyped
    <3> HIDE DEF s, t, r
    <3> QED BY <1>2, <2>1, <3>1, RowsTypedKept
  <2> QED BY <2>1, <2>2, <2>3 DEF Went, Fields
<1>4. /\ s.todo = t.todo \ {e} /\ s.fresh = t.fresh + 1
      /\ \A f \in Fields \ {"mine", "todo", "fresh"} : s[f] = t[f]
  BY <1>3 DEF Fields
<1>5. CallTyped(s)
  BY <1>1, <1>3, <1>4 DEF CallOK, CallTyped, Fields
<1>6. /\ Same(t, s, UserStats) /\ Same(t, s, DailyLog) /\ Same(t, s, Show)
      /\ Same(t, s, UserShow) /\ \A k \in XpKeys : Same(t, s, XpEvent(k))
      /\ \A x \in Episodes \ {e} : Same(t, s, UserEpisode(x))
  BY <1>3, RowIds
<1>7. s.pc = "insert" /\ s.status = t.status /\ s.prev = t.prev /\ t.pc = "insert"
  BY <1>4 DEF Fields
<1>8. XpOK(s, db)
  <2>1. Seen(s, db, UserStats) = Seen(t, db, UserStats)
    BY <1>6, SeenAfter
  <2>2. XpOK(t, db) /\ t.pc # "pay" /\ s.pc # "pay"
    BY <1>1, <1>7 DEF CallOK
  <2> HIDE DEF s, t
  <2> QED BY <1>6, <2>1, <2>2, XpKept
<1>9. EpisodesOK(s, db)
  <2>1. e \notin Touched(t) /\ db[r] = 0
    <3>1. See(c)[r] = Seen(t, db, r)
      BY <1>1, SeenTypes
    <3> QED BY <1>1, <3>1 DEF CallOK, EpisodesOK, Touched, Seen
  <2>2. Touched(s) = Touched(t) \cup {e}
    BY <1>1, <1>3, <1>6 DEF Touched, Same
  <2>3. s.fresh = Cardinality(Touched(s))
    <3>1. IsFiniteSet(Touched(t)) /\ t.fresh = Cardinality(Touched(t)) /\ t.fresh \in Nat
      BY <1>1, EpisodeSets DEF CallOK, EpisodesOK, CallTyped, Touched
    <3>2. Cardinality(Touched(t) \cup {e}) = Cardinality(Touched(t)) + 1
      <4> HIDE DEF t
      <4> QED BY <2>1, <3>1, FS_AddElement
    <3> QED BY <1>4, <2>2, <3>1, <3>2
  <2>4. \A x \in Touched(t) : /\ db[UserEpisode(x)] = 0 /\ s.mine[UserEpisode(x)] # 0
                              /\ t.op.kind = "mark" => s.mine[UserEpisode(x)] = t.at
    BY <1>1, <1>6, <2>1 DEF CallOK, EpisodesOK, Touched, Same
  <2> QED BY <1>3, <2>1, <2>2, <2>3, <2>4 DEF EpisodesOK, Changing
<1>10. PaidOK(s, db) /\ StatusOK(s)
  <2>1. StatusOK(t)
    BY <1>1 DEF CallOK
  <2> QED BY <1>3, <1>6, <1>7, <2>1 DEF PaidOK, StatusOK, AfterAward, AfterSync, Same
<1>11. ~bypassed => CountsOK(s, db)
  <2>1. /\ EpisodesMoved(s) = EpisodesMoved(t) /\ Logged(s) = Logged(t)
        /\ Joined(s) = Joined(t) /\ Placed(s) = Placed(t)
    BY <1>3, <1>7 DEF EpisodesMoved, Logged, Joined, Placed, BeforeDelete, Changing
  <2>2. FoundOK(s, db)
    BY <1>3, <1>7 DEF FoundOK, Changing
  <2> HIDE DEF s, t
  <2> QED BY <1>1, <1>3, <1>6, <2>1, <2>2, CountsKept
<1>12. CallOK(s, db)
  BY <1>5, <1>8, <1>9, <1>10 DEF CallOK
<1> QED
  <2>1. t.pc # "idle"
    OBVIOUS
  <2> HIDE DEF r
  <2> QED BY <1>2, <1>11, <1>12, <2>1, WriteOnward DEF r

LEMMA InsertEpisodesOnward ==
  ASSUME TxInv, NEW c \in Clients, InsertEpisodes(c)
  PROVE  Onward(c)
<1> DEFINE t == tx[c]
           s == tx'[c]
<1>1. t.pc = "insert" /\ t.op.kind \in Changing
  BY DEF InsertEpisodes, At
<1>2. CallOK(t, db) /\ (~bypassed => CountsOK(t, db)) /\ t.at <= calls
  BY <1>1, InHand
<1>3. ASSUME NEW next, Read(c, next), DOMAIN next \subseteq {"pc", "todo", "fresh"},
             "fresh" \in DOMAIN next => next.fresh = t.fresh,
             "pc" \in DOMAIN next => next.pc = "syncRead",
             "todo" \in DOMAIN next => next.todo \subseteq Episodes
      PROVE  Onward(c)
  <2>1. DOMAIN next \subseteq Fields \ {"mine", "op", "at"}
    BY <1>3 DEF Fields
  <2>2. /\ \A f \in Fields \ {"mine"} : s[f] = IF f \in DOMAIN next THEN next[f] ELSE t[f]
        /\ s.op = t.op /\ s.at = t.at /\ s.mine = t.mine
        /\ Touched(s) = Touched(t) /\ Awarded(s) = Awarded(t)
        /\ \A r : Wrote(s, r) = Wrote(t, r)
        /\ DOMAIN s = Fields
    BY <1>1, <1>3, <2>1, ReadLeaves
  <2>3. t.todo \subseteq Episodes
    BY <1>1, <1>2 DEF CallOK, CallTyped
  <2>4. /\ s.pc \in {"insert", "syncRead"} /\ s.todo \subseteq Episodes /\ s.fresh = t.fresh
        /\ \A f \in Fields \ {"mine", "pc", "todo"} : s[f] = t[f]
    BY <1>1, <1>3, <2>2, <2>3 DEF Fields
  <2>5. CallTyped(s)
    BY <1>1, <1>2, <2>2, <2>4 DEF CallOK, CallTyped, Fields, Statements, Changing
  <2>6. PaidOK(s, db) /\ StatusOK(s)
    BY <1>1, <1>2, <2>2, <2>4 DEF CallOK, PaidOK, StatusOK, Fields, AfterAward, AfterSync
  <2>7. ~bypassed =>
          /\ EpisodesMoved(s) = EpisodesMoved(t) /\ Logged(s) = Logged(t)
          /\ Joined(s) = Joined(t) /\ Placed(s) = Placed(t)
          /\ FoundOK(s, db)
    BY <1>1, <1>2, <2>2, <2>4
       DEF CountsOK, FoundOK, EpisodesMoved, Logged, Joined, Placed, Fields, Changing
  <2> QED BY <1>1, <1>3, <2>1, <2>2, <2>4, <2>5, <2>6, <2>7, QuietRead DEF Changing
<1>4. CASE t.todo = {}
  <2> DEFINE next == [pc |-> "syncRead"]
  <2>1. Read(c, next)
    BY <1>4 DEF InsertEpisodes
  <2>2. DOMAIN next = {"pc"} /\ next.pc = "syncRead"
    OBVIOUS
  <2> HIDE DEF next
  <2> QED BY <1>3, <2>1, <2>2
<1>5. CASE t.todo # {}
  <2>1. PICK e \in t.todo :
          LET next == [todo |-> tx[c].todo \ {e}, fresh |-> tx[c].fresh + Inserted(See(c), e)]
          IN  IF See(c)[UserEpisode(e)] # 0 THEN Read(c, next)
              ELSE Write(c, UserEpisode(e),
                         IF tx[c].op.kind = "mark" THEN tx[c].at ELSE calls, next)
    BY <1>5 DEF InsertEpisodes
  <2> DEFINE next == [todo |-> tx[c].todo \ {e}, fresh |-> tx[c].fresh + Inserted(See(c), e)]
             v    == IF tx[c].op.kind = "mark" THEN tx[c].at ELSE calls
  <2>2. e \in Episodes /\ t.todo \subseteq Episodes /\ t.fresh \in Nat /\ t.at \in Nat \ {0}
    BY <1>1, <1>2 DEF CallOK, CallTyped
  <2>3. /\ DOMAIN next = {"todo", "fresh"}
        /\ next.todo = t.todo \ {e}
        /\ next.fresh = IF See(c)[UserEpisode(e)] # 0 THEN t.fresh ELSE t.fresh + 1
    BY <2>2 DEF Inserted
  <2>4. v \in Nat \ {0} /\ (t.op.kind = "mark" => v = t.at)
    BY <1>2, <2>2 DEF TxInv
  <2>5. IF See(c)[UserEpisode(e)] # 0 THEN Read(c, next) ELSE Write(c, UserEpisode(e), v, next)
    BY <2>1
  <2> HIDE DEF next, v
  <2>6. CASE See(c)[UserEpisode(e)] # 0
    BY <1>3, <2>2, <2>3, <2>5, <2>6
  <2>7. CASE See(c)[UserEpisode(e)] = 0
    BY <1>1, <2>3, <2>4, <2>5, <2>7, InsertOnward
  <2> QED BY <2>6, <2>7
<1> QED BY <1>4, <1>5

LEMMA DeleteEpisodeOnward ==
  ASSUME TxInv, NEW c \in Clients, DeleteEpisode(c)
  PROVE  Onward(c)
<1> DEFINE t    == tx[c]
           s    == tx'[c]
           next == [pc |-> "unlog"]
<1>1. t.pc = "delete" /\ t.op.kind = "unmark"
  BY DEF DeleteEpisode, At
<1>2. CallOK(t, db) /\ (~bypassed => CountsOK(t, db))
  BY <1>1, InHand
<1>3. PICK e \in t.op.episodes :
        \/ Throw(c)
        \/ See(c)[UserEpisode(e)] # 0 /\ Write(c, UserEpisode(e), 0, next)
  BY DEF DeleteEpisode
<1>4. e \in Episodes /\ t.op.episodes = {e}
  BY <1>1, <1>2, <1>3, OpTypes DEF CallOK, CallTyped
<1>5. CASE Throw(c)
  BY <1>5, RollbackOnward
<1>6. CASE See(c)[UserEpisode(e)] # 0 /\ Write(c, UserEpisode(e), 0, next)
  <2> DEFINE r == UserEpisode(e)
  <2>1. DOMAIN next = {"pc"} /\ next.pc = "unlog"
    OBVIOUS
  <2>2. r \in Rows /\ Typed(r, 0) /\ Write(c, r, 0, next) /\ See(c)[r] # 0
    BY <1>4, <1>6, RowTypes, TypedRows
  <2>3. See(c)[r] = Seen(t, db, r)
    BY <1>1, <1>4, SeenTypes
  <2> HIDE DEF next
  <2>4. /\ Same(t, s, UserStats) /\ Same(t, s, DailyLog) /\ Same(t, s, Show)
        /\ Same(t, s, UserShow) /\ \A k \in XpKeys : Same(t, s, XpEvent(k))
        /\ \A x \in Episodes \ {e} : Same(t, s, UserEpisode(x))
        /\ Wrote(s, r) /\ s.mine[r] = 0
        /\ \A f \in Fields \ {"mine"} : s[f] = IF f \in DOMAIN next THEN next[f] ELSE t[f]
        /\ s.op = t.op /\ s.at = t.at /\ DOMAIN s = Fields
        /\ DOMAIN s.mine \subseteq Rows /\ RowsTyped(s.mine)
    <3>1. \A x : /\ x # e => UserEpisode(x) # r
                 /\ XpEvent(x) # r /\ r \notin {UserShow, UserStats, Show, DailyLog}
      BY RowIds
    <3> HIDE DEF r
    <3>2. /\ \A x : x # r => Same(t, s, x)
          /\ Wrote(s, r) /\ s.mine[r] = 0
          /\ \A f \in Fields \ {"mine"} : s[f] = IF f \in DOMAIN next THEN next[f] ELSE t[f]
          /\ s.op = t.op /\ s.at = t.at /\ DOMAIN s = Fields
          /\ DOMAIN s.mine \subseteq Rows /\ RowsTyped(s.mine)
      <4>1. Left(t, s, r, 0, next)
        BY <1>1, <2>1, <2>2, WriteLeaves DEF Fields
      <4> QED BY <4>1 DEF Left
    <3> QED BY <3>1, <3>2
  <2>5. s.pc = "unlog" /\ \A f \in Fields \ {"mine", "pc"} : s[f] = t[f]
    BY <2>1, <2>4 DEF Fields
  <2>6. CallTyped(s)
    BY <1>1, <1>2, <2>4, <2>5 DEF CallOK, CallTyped, Fields, Statements
  <2>7. XpOK(s, db)
    <3>1. Seen(s, db, UserStats) = Seen(t, db, UserStats)
      BY <2>4, SeenAfter
    <3>2. XpOK(t, db) /\ t.pc # "pay" /\ s.pc # "pay"
      BY <1>1, <1>2, <2>5 DEF CallOK
    <3> HIDE DEF s, t
    <3> QED BY <2>4, <3>1, <3>2, XpKept
  <2>8. EpisodesOK(s, db)
    <3>1. Touched(t) = {}
      BY <1>1, <1>2 DEF CallOK, EpisodesOK, BeforeDelete
    <3>2. Touched(s) = {e} /\ db[r] # 0
      BY <1>4, <2>2, <2>3, <2>4, <3>1 DEF Touched, Same, Seen
    <3> QED BY <1>1, <1>4, <2>4, <2>5, <3>2 DEF EpisodesOK, Changing, BeforeDelete
  <2>9. PaidOK(s, db) /\ StatusOK(s)
    BY <1>1, <1>2, <2>4, <2>5 DEF CallOK, PaidOK, StatusOK, AfterAward, AfterSync, Same, Changing
  <2>10. ~bypassed => CountsOK(s, db)
    <3>1. /\ EpisodesMoved(s) = EpisodesMoved(t) /\ Logged(s) = Logged(t)
          /\ Joined(s) = Joined(t) /\ Placed(s) = Placed(t)
      BY <1>1, <2>4, <2>5 DEF EpisodesMoved, Logged, Joined, Placed, BeforeDelete, Changing
    <3>2. ~bypassed => FoundOK(s, db)
      BY <1>1, <1>2, <2>4, <2>5 DEF CountsOK, FoundOK, Changing, Fields
    <3> HIDE DEF s, t
    <3> QED BY <1>2, <2>4, <3>1, <3>2, CountsKept
  <2>11. CallOK(s, db)
    BY <2>6, <2>7, <2>8, <2>9 DEF CallOK
  <2> HIDE DEF r
  <2> QED BY <1>1, <2>1, <2>2, <2>10, <2>11, WriteOnward DEF Fields
<1> QED BY <1>3, <1>5, <1>6

LEMMA DeleteRowsOnward ==
  ASSUME TxInv, NEW c \in Clients, DeleteRows(c)
  PROVE  Onward(c)
<1> DEFINE t == tx[c]
           s == tx'[c]
<1>1. t.pc = "deleteRows" /\ t.op.kind = "remove"
  BY DEF DeleteRows, At
<1>2. CallOK(t, db) /\ t.todo \subseteq Episodes
  BY <1>1, InHand DEF CallOK, CallTyped
<1>3. CASE t.todo = {}
  <2> DEFINE next == [pc |-> "deleteEntry"]
  <2>1. Read(c, next)
    BY <1>3 DEF DeleteRows
  <2>2. DOMAIN next = {"pc"} /\ next.pc = "deleteEntry"
    OBVIOUS
  <2> HIDE DEF next
  <2>3. /\ \A f \in Fields \ {"mine"} : s[f] = IF f \in DOMAIN next THEN next[f] ELSE t[f]
        /\ s.op = t.op /\ s.at = t.at /\ s.mine = t.mine
        /\ \A r : Wrote(s, r) = Wrote(t, r)
        /\ DOMAIN s = Fields
    BY <1>1, <2>1, <2>2, ReadLeaves DEF Fields
  <2>4. s.pc = "deleteEntry" /\ \A f \in Fields \ {"mine", "pc"} : s[f] = t[f]
    BY <2>2, <2>3 DEF Fields
  <2>5. CallTyped(s)
    BY <1>1, <1>2, <2>3, <2>4 DEF CallOK, CallTyped, Fields, Statements
  <2>6. PaidOK(s, db) /\ StatusOK(s)
    BY <1>1, <2>3, <2>4 DEF PaidOK, StatusOK, Changing
  <2> QED BY <1>1, <2>1, <2>2, <2>3, <2>4, <2>5, <2>6, QuietRead DEF Fields
<1>4. CASE t.todo # {}
  <2>1. PICK e \in t.todo : Write(c, UserEpisode(e), 0, [todo |-> t.todo \ {e}])
    BY <1>4 DEF DeleteRows
  <2> DEFINE r    == UserEpisode(e)
             next == [todo |-> t.todo \ {e}]
  <2>2. DOMAIN next = {"todo"} /\ next.todo \subseteq Episodes
    BY <1>2
  <2>3. r \in Rows /\ Typed(r, 0) /\ Write(c, r, 0, next)
    BY <1>2, <2>1, RowTypes, TypedRows
  <2>4. \A k : XpEvent(k) # r /\ r # UserStats
    BY RowIds
  <2> HIDE DEF next, r
  <2>5. /\ \A f \in Fields \ {"mine"} : s[f] = IF f \in DOMAIN next THEN next[f] ELSE t[f]
        /\ s.op = t.op /\ s.at = t.at /\ DOMAIN s = Fields
        /\ DOMAIN s.mine \subseteq Rows /\ RowsTyped(s.mine)
        /\ \A x : x # r => Same(t, s, x)
    <3>1. Left(t, s, r, 0, next)
      BY <1>1, <2>2, <2>3, WriteLeaves DEF Fields
    <3> QED BY <3>1 DEF Left
  <2>6. s.todo \subseteq Episodes /\ \A f \in Fields \ {"mine", "todo"} : s[f] = t[f]
    BY <2>2, <2>5 DEF Fields
  <2>7. CallTyped(s)
    BY <1>1, <1>2, <2>5, <2>6 DEF CallOK, CallTyped, Fields
  <2>8. XpOK(s, db)
    <3>1. Seen(s, db, UserStats) = Seen(t, db, UserStats)
      BY <2>4, <2>5, SeenAfter
    <3>2. XpOK(t, db) /\ t.pc # "pay" /\ s.pc # "pay"
      BY <1>1, <1>2, <2>6 DEF CallOK, Fields
    <3> HIDE DEF s, t
    <3> QED BY <2>4, <2>5, <3>1, <3>2, XpKept
  <2>9. EpisodesOK(s, db) /\ PaidOK(s, db) /\ StatusOK(s) /\ CountsOK(s, db)
    BY <1>1, <2>5, <2>6 DEF EpisodesOK, PaidOK, StatusOK, CountsOK, Changing, Fields
  <2>10. CallOK(s, db)
    BY <2>7, <2>8, <2>9 DEF CallOK
  <2> QED BY <1>1, <2>2, <2>3, <2>9, <2>10, WriteOnward DEF Fields
<1> QED BY <1>3, <1>4

LEMMA CountMemberOnward ==
  ASSUME TxInv, NEW c \in Clients, CountMember(c)
  PROVE  Onward(c)
<1> DEFINE t    == tx[c]
           s    == tx'[c]
           step == IF tx[c].op.kind = "remove" THEN -1 ELSE 1
           v    == See(c)[Show] + step
           pc   == CASE tx[c].op.kind = "mark" -> "insert"
                     [] tx[c].op.kind = "add" -> "findMissing"
                     [] OTHER -> "reconcile"
           next == [pc |-> pc]
<1>1. t.pc = "member" /\ t.op.kind \in Every /\ Write(c, Show, v, next)
  BY DEF CountMember, At
<1>2. CallOK(t, db) /\ (~bypassed => CountsOK(t, db))
  BY <1>1, InHand
<1>3. t.op.kind \in {"mark", "add", "remove"}
  BY <1>1, <1>2 DEF CallOK, CallTyped, Statements, Every
<1>4. See(c)[Show] = Seen(t, db, Show) /\ See(c)[Show] \in Int /\ db[Show] \in Int
  BY <1>1, SeenTypes
<1>5. Show \in Rows /\ Typed(Show, v)
  BY <1>4, RowTypes, TypedRows
<1>6. DOMAIN next = {"pc"} /\ next.pc = pc
  OBVIOUS
<1> HIDE DEF next, v
<1>7. /\ \A f \in Fields \ {"mine"} : s[f] = IF f \in DOMAIN next THEN next[f] ELSE t[f]
      /\ s.op = t.op /\ s.at = t.at /\ DOMAIN s = Fields
      /\ DOMAIN s.mine \subseteq Rows /\ RowsTyped(s.mine)
      /\ Seen(s, db, Show) = v
      /\ \A x : x # Show => Same(t, s, x)
  <2>1. Left(t, s, Show, v, next)
    BY <1>1, <1>5, <1>6, WriteLeaves DEF Fields
  <2> QED BY <2>1 DEF Left
<1>8. s.pc = pc /\ \A f \in Fields \ {"mine", "pc"} : s[f] = t[f]
  BY <1>6, <1>7 DEF Fields
<1>9. /\ t.op.kind = "mark" => s.pc = "insert"
      /\ t.op.kind = "add" => s.pc = "findMissing"
      /\ t.op.kind = "remove" => s.pc = "reconcile"
  BY <1>8
<1> HIDE DEF pc
<1>10. CallTyped(s)
  BY <1>1, <1>2, <1>3, <1>7, <1>8, <1>9 DEF CallOK, CallTyped, Fields, Statements
<1>11. /\ Same(t, s, UserStats) /\ Same(t, s, DailyLog) /\ Same(t, s, UserShow)
       /\ \A k \in XpKeys : Same(t, s, XpEvent(k))
       /\ \A e \in Episodes : Same(t, s, UserEpisode(e))
  BY <1>7, RowIds
<1>12. /\ Seen(s, db, UserStats) = Seen(t, db, UserStats)
       /\ Seen(s, db, DailyLog) = Seen(t, db, DailyLog)
  <2> HIDE DEF s, t
  <2> QED BY <1>11, SeenAfter
<1>13. XpOK(s, db)
  <2>1. XpOK(t, db) /\ t.pc # "pay" /\ s.pc # "pay"
    BY <1>1, <1>2, <1>3, <1>9 DEF CallOK
  <2> HIDE DEF s, t
  <2> QED BY <1>11, <1>12, <2>1, XpKept
<1>14. EpisodesOK(s, db)
  <2>1. EpisodesOK(t, db) /\ s.fresh = t.fresh /\ t.op.kind # "unmark"
    BY <1>2, <1>3, <1>8 DEF CallOK, Fields
  <2> HIDE DEF s, t
  <2> QED BY <1>7, <1>11, <2>1, EpisodesKept
<1>15. PaidOK(s, db) /\ StatusOK(s)
  BY <1>1, <1>2, <1>3, <1>7, <1>9, <1>11
     DEF CallOK, PaidOK, StatusOK, AfterAward, AfterSync, Same, Changing
<1>16. ASSUME ~bypassed PROVE CountsOK(s, db)
  <2> SUFFICES ASSUME t.op.kind # "remove"
               PROVE  VolumeOK(s, db) /\ MembersOK(s, db) /\ FoundOK(s, db)
    BY <1>7 DEF CountsOK
  <2>1. /\ t.op.kind \in {"mark", "add"} /\ s.op = t.op /\ s.prev = t.prev
        /\ t.pc = "member" /\ s.pc \in {"insert", "findMissing"}
    BY <1>1, <1>3, <1>7, <1>8, <1>9 DEF Fields
  <2>2. VolumeOK(t, db) /\ MembersOK(t, db) /\ FoundOK(t, db)
    BY <1>2, <1>16 DEF CountsOK
  <2>3. /\ EpisodesMoved(s) = EpisodesMoved(t) /\ Logged(s) = Logged(t)
        /\ Placed(s) = 0 /\ Placed(t) = 0
        /\ Joined(t) = 0 /\ Joined(s) = 1
    BY <2>1, <2>2 DEF EpisodesMoved, Logged, Placed, Joined, FoundOK, Changing
  <2>4. FoundOK(s, db)
    BY <2>1 DEF FoundOK, Changing
  <2>5. Seen(s, db, Show) = db[Show] + Joined(s)
    <3>1. v = See(c)[Show] + 1
      BY <2>1 DEF v
    <3> QED BY <1>4, <1>7, <2>2, <2>3, <3>1 DEF MembersOK
  <2>6. MembersOK(s, db)
    BY <1>12, <2>2, <2>3, <2>5 DEF MembersOK
  <2>7. VolumeOK(s, db)
    BY <1>12, <2>2, <2>3 DEF VolumeOK
  <2> QED BY <2>4, <2>6, <2>7
<1>17. CallOK(s, db)
  BY <1>10, <1>13, <1>14, <1>15 DEF CallOK
<1> QED BY <1>1, <1>5, <1>6, <1>16, <1>17, WriteOnward DEF Fields

LEMMA UnlogOnward ==
  ASSUME TxInv, NEW c \in Clients, Unlog(c)
  PROVE  Onward(c)
<1> DEFINE t    == tx[c]
           s    == tx'[c]
           v    == See(c)[DailyLog] - 1
           next == [pc |-> "syncRead"]
<1>1. t.pc = "unlog" /\ t.op.kind = "unmark"
  BY DEF Unlog, At
<1>2. CallOK(t, db) /\ (~bypassed => CountsOK(t, db))
  BY <1>1, InHand
<1>3. See(c)[DailyLog] = Seen(t, db, DailyLog) /\ See(c)[DailyLog] \in Int /\ db[DailyLog] \in Int
  BY <1>1, SeenTypes
<1>4. DOMAIN next = {"pc"} /\ next.pc = "syncRead"
  OBVIOUS
<1>5. DailyLog \in Rows /\ Typed(DailyLog, v)
  BY <1>3, RowTypes, TypedRows
<1> HIDE DEF next, v
\* The row deleted was there to count: the log holds it.
<1>6. CASE See(c)[DailyLog] = 0 /\ Read(c, next)
  <2>1. bypassed
    <3> SUFFICES ASSUME ~bypassed PROVE FALSE
      OBVIOUS
    <3>1. PICK e \in Episodes : t.op.episodes = {e}
      BY <1>1, <1>2, OpTypes DEF CallOK, CallTyped
    <3>2. db[UserEpisode(e)] # 0
      BY <1>1, <1>2, <3>1 DEF CallOK, EpisodesOK, BeforeDelete
    <3>3. e \in Tracked(db) /\ IsFiniteSet(Tracked(db)) /\ Cardinality(Tracked(db)) \in Nat
      BY <3>1, <3>2, EpisodeSets DEF Tracked
    <3>4. Cardinality(Tracked(db)) # 0
      BY <3>3, FS_EmptySet
    <3>5. db[DailyLog] = Cardinality(Tracked(db))
      BY DEF TxInv, VolumeExact
    <3>6. VolumeOK(t, db) /\ Logged(t) = 0
      BY <1>1, <1>2 DEF CountsOK, Logged, BeforeDelete
    <3>7. Seen(t, db, DailyLog) = db[DailyLog]
      BY <1>3, <3>6 DEF VolumeOK
    <3>8. See(c)[DailyLog] = 0
      BY <1>6
    <3> QED BY <1>3, <3>4, <3>5, <3>7, <3>8
  <2>2. /\ \A f \in Fields \ {"mine"} : s[f] = IF f \in DOMAIN next THEN next[f] ELSE t[f]
        /\ s.op = t.op /\ s.at = t.at /\ s.mine = t.mine
        /\ Touched(s) = Touched(t) /\ Awarded(s) = Awarded(t)
        /\ \A r : Wrote(s, r) = Wrote(t, r)
        /\ DOMAIN s = Fields
    BY <1>1, <1>4, <1>6, ReadLeaves DEF Fields
  <2>3. s.pc = "syncRead" /\ \A f \in Fields \ {"mine", "pc"} : s[f] = t[f]
    BY <1>4, <2>2 DEF Fields
  <2>4. CallTyped(s)
    BY <1>1, <1>2, <2>2, <2>3 DEF CallOK, CallTyped, Fields, Statements
  <2>5. PaidOK(s, db) /\ StatusOK(s)
    BY <1>1, <1>2, <2>2, <2>3 DEF CallOK, PaidOK, StatusOK, AfterAward, AfterSync, Changing
  <2> QED BY <1>1, <1>4, <1>6, <2>1, <2>2, <2>3, <2>4, <2>5, QuietRead DEF Fields, BeforeDelete
<1>7. CASE Write(c, DailyLog, v, next)
  <2>1. /\ \A f \in Fields \ {"mine"} : s[f] = IF f \in DOMAIN next THEN next[f] ELSE t[f]
        /\ s.op = t.op /\ s.at = t.at /\ DOMAIN s = Fields
        /\ DOMAIN s.mine \subseteq Rows /\ RowsTyped(s.mine)
        /\ Seen(s, db, DailyLog) = v
        /\ \A x : x # DailyLog => Same(t, s, x)
    <3>1. Left(t, s, DailyLog, v, next)
      BY <1>1, <1>4, <1>5, <1>7, WriteLeaves DEF Fields
    <3> QED BY <3>1 DEF Left
  <2>2. s.pc = "syncRead" /\ \A f \in Fields \ {"mine", "pc"} : s[f] = t[f]
    BY <1>4, <2>1 DEF Fields
  <2>3. CallTyped(s)
    BY <1>1, <1>2, <2>1, <2>2 DEF CallOK, CallTyped, Fields, Statements
  <2>4. /\ Same(t, s, UserStats) /\ Same(t, s, Show) /\ Same(t, s, UserShow)
        /\ \A k \in XpKeys : Same(t, s, XpEvent(k))
        /\ \A e \in Episodes : Same(t, s, UserEpisode(e))
    BY <2>1, RowIds
  <2>5. Seen(s, db, UserStats) = Seen(t, db, UserStats) /\ Seen(s, db, Show) = Seen(t, db, Show)
    <3> HIDE DEF s, t
    <3> QED BY <2>4, SeenAfter
  <2>6. XpOK(s, db)
    <3>1. XpOK(t, db) /\ t.pc # "pay" /\ s.pc # "pay"
      BY <1>1, <1>2, <2>2 DEF CallOK
    <3> HIDE DEF s, t
    <3> QED BY <2>4, <2>5, <3>1, XpKept
  <2>7. EpisodesOK(s, db)
    <3>1. EpisodesOK(t, db) /\ s.fresh = t.fresh /\ t.pc \notin BeforeDelete /\ s.pc \notin BeforeDelete
      BY <1>1, <1>2, <2>2 DEF CallOK, Fields, BeforeDelete
    <3> HIDE DEF s, t
    <3> QED BY <2>1, <2>4, <3>1, EpisodesKept
  <2>8. PaidOK(s, db) /\ StatusOK(s)
    BY <1>1, <1>2, <2>1, <2>2, <2>4
       DEF CallOK, PaidOK, StatusOK, AfterAward, AfterSync, Same, Changing
  <2>9. ASSUME ~bypassed PROVE CountsOK(s, db)
    <3>1. VolumeOK(t, db) /\ MembersOK(t, db) /\ FoundOK(t, db)
      BY <1>1, <1>2, <2>9 DEF CountsOK
    <3>2. /\ EpisodesMoved(s) = EpisodesMoved(t)
          /\ Logged(t) = 0 /\ Logged(s) = -1
          /\ Joined(s) = Joined(t) /\ Placed(s) = Placed(t)
      BY <1>1, <2>1, <2>2 DEF EpisodesMoved, Logged, Joined, Placed, BeforeDelete, Changing
    <3>3. FoundOK(s, db)
      BY <1>1, <2>1, <2>2, <3>1 DEF FoundOK, Fields, Changing
    <3>4. VolumeOK(s, db)
      BY <1>3, <2>1, <2>5, <3>1, <3>2 DEF VolumeOK, v
    <3>5. MembersOK(s, db)
      BY <2>5, <3>1, <3>2 DEF MembersOK
    <3> QED BY <3>3, <3>4, <3>5 DEF CountsOK
  <2>10. CallOK(s, db)
    BY <2>3, <2>6, <2>7, <2>8 DEF CallOK
  <2> QED BY <1>1, <1>4, <1>5, <1>7, <2>9, <2>10, WriteOnward DEF Fields
<1> QED BY <1>6, <1>7 DEF Unlog, next, v

LEMMA LogActivityOnward ==
  ASSUME TxInv, NEW c \in Clients, LogActivity(c)
  PROVE  Onward(c)
<1> DEFINE t    == tx[c]
           s    == tx'[c]
           v    == See(c)[DailyLog] + tx[c].fresh
           next == [pc |-> "delta"]
<1>1. t.pc = "log" /\ t.op.kind = "mark" /\ Write(c, DailyLog, v, next)
  BY DEF LogActivity, At
<1>2. CallOK(t, db) /\ (~bypassed => CountsOK(t, db)) /\ t.fresh \in Nat
  BY <1>1, InHand DEF CallOK, CallTyped
<1>3. See(c)[DailyLog] = Seen(t, db, DailyLog) /\ See(c)[DailyLog] \in Int /\ db[DailyLog] \in Int
  BY <1>1, SeenTypes
<1>4. DOMAIN next = {"pc"} /\ next.pc = "delta"
  OBVIOUS
<1>5. DailyLog \in Rows /\ Typed(DailyLog, v)
  BY <1>2, <1>3, RowTypes, TypedRows
<1> HIDE DEF next, v
<1>6. /\ \A f \in Fields \ {"mine"} : s[f] = IF f \in DOMAIN next THEN next[f] ELSE t[f]
      /\ s.op = t.op /\ s.at = t.at /\ DOMAIN s = Fields
      /\ DOMAIN s.mine \subseteq Rows /\ RowsTyped(s.mine)
      /\ Seen(s, db, DailyLog) = v
      /\ \A x : x # DailyLog => Same(t, s, x)
  <2>1. Left(t, s, DailyLog, v, next)
    BY <1>1, <1>4, <1>5, WriteLeaves DEF Fields
  <2> QED BY <2>1 DEF Left
<1>7. s.pc = "delta" /\ \A f \in Fields \ {"mine", "pc"} : s[f] = t[f]
  BY <1>4, <1>6 DEF Fields
<1>8. CallTyped(s)
  BY <1>1, <1>2, <1>6, <1>7 DEF CallOK, CallTyped, Fields, Statements
<1>9. /\ Same(t, s, UserStats) /\ Same(t, s, Show) /\ Same(t, s, UserShow)
      /\ \A k \in XpKeys : Same(t, s, XpEvent(k))
      /\ \A e \in Episodes : Same(t, s, UserEpisode(e))
  BY <1>6, RowIds
<1>10. Seen(s, db, UserStats) = Seen(t, db, UserStats) /\ Seen(s, db, Show) = Seen(t, db, Show)
  <2> HIDE DEF s, t
  <2> QED BY <1>9, SeenAfter
<1>11. XpOK(s, db) /\ Awarded(s) = Awarded(t)
  <2>1. XpOK(t, db) /\ t.pc # "pay" /\ s.pc # "pay"
    BY <1>1, <1>2, <1>7 DEF CallOK
  <2> HIDE DEF s, t
  <2> QED BY <1>9, <1>10, <2>1, XpKept
<1>12. EpisodesOK(s, db) /\ Touched(s) = Touched(t)
  <2>1. EpisodesOK(t, db) /\ s.fresh = t.fresh /\ t.op.kind # "unmark"
    BY <1>1, <1>2, <1>7 DEF CallOK, Fields
  <2> HIDE DEF s, t
  <2> QED BY <1>6, <1>9, <2>1, EpisodesKept
<1>13. PaidOK(s, db) /\ StatusOK(s)
  <2>1. s.due = t.due /\ s.status = t.status
    BY <1>7 DEF Fields
  <2> QED BY <1>1, <1>2, <1>6, <1>7, <1>9, <1>11, <1>12, <2>1
          DEF CallOK, PaidOK, StatusOK, AfterAward, AfterSync, Same, Changing
<1>14. ASSUME ~bypassed PROVE CountsOK(s, db)
  <2>1. VolumeOK(t, db) /\ MembersOK(t, db) /\ FoundOK(t, db)
    BY <1>1, <1>2, <1>14 DEF CountsOK
  <2>2. /\ EpisodesMoved(s) = EpisodesMoved(t)
        /\ Logged(t) = 0 /\ Logged(s) = t.fresh
        /\ Joined(s) = Joined(t) /\ Placed(s) = Placed(t)
    BY <1>1, <1>6, <1>7 DEF EpisodesMoved, Logged, Joined, Placed, Changing, Fields
  <2>3. FoundOK(s, db)
    BY <1>1, <1>6, <1>7 DEF FoundOK
  <2>4. VolumeOK(s, db)
    BY <1>2, <1>3, <1>6, <1>10, <2>1, <2>2 DEF VolumeOK, v
  <2>5. MembersOK(s, db)
    BY <1>10, <2>1, <2>2 DEF MembersOK
  <2> QED BY <2>3, <2>4, <2>5 DEF CountsOK
<1>15. CallOK(s, db)
  BY <1>8, <1>11, <1>12, <1>13 DEF CallOK
<1> QED BY <1>1, <1>4, <1>5, <1>14, <1>15, WriteOnward DEF Fields

\* Award with nothing due, or with a key some other call has paid.
LEMMA AwardReads ==
  ASSUME TxInv, NEW c \in Clients, tx[c].pc = "award", tx[c].op.kind \in Changing,
         NEW next, Read(c, next),
         \/ /\ tx[c].due = {} /\ DOMAIN next = {"pc"}
            /\ next.pc = IF tx[c].op.kind = "mark" /\ tx[c].fresh > 0 THEN "log" ELSE "reconcile"
         \/ /\ DOMAIN next = {"due"}
            /\ \E k \in tx[c].due : See(c)[XpEvent(k)] /\ next.due = tx[c].due \ {k}
  PROVE  Onward(c)
<1> DEFINE t == tx[c]
           s == tx'[c]
<1>1. CallOK(t, db) /\ (~bypassed => CountsOK(t, db)) /\ t.due \subseteq XpKeys /\ t.fresh \in Nat
  BY InHand DEF CallOK, CallTyped
<1>2. DOMAIN next \subseteq Fields \ {"mine", "op", "at"}
  BY DEF Fields
<1>3. /\ \A f \in Fields \ {"mine"} : s[f] = IF f \in DOMAIN next THEN next[f] ELSE t[f]
      /\ s.op = t.op /\ s.at = t.at /\ s.mine = t.mine
      /\ Touched(s) = Touched(t) /\ Awarded(s) = Awarded(t)
      /\ \A r : Wrote(s, r) = Wrote(t, r)
      /\ DOMAIN s = Fields
  BY <1>2, ReadLeaves
<1>4. /\ s.pc \in {"log", "reconcile", "award"}
      /\ s.pc # "award" => t.due = {} /\ s.due = {}
      /\ s.pc = "log" => t.op.kind = "mark"
      /\ s.pc = "reconcile" /\ t.op.kind = "mark" => t.fresh = 0
      /\ s.due \subseteq t.due
      /\ s.pc = "award" => \A k \in t.due \ s.due : See(c)[XpEvent(k)]
      /\ \A f \in Fields \ {"mine", "pc", "due"} : s[f] = t[f]
  BY <1>1, <1>3 DEF Fields
<1>5. CallTyped(s)
  BY <1>1, <1>3, <1>4 DEF CallOK, CallTyped, Fields, Statements, Changing
<1>6. PaidOK(s, db)
  <2>1. \A e \in Touched(t) : e \in Awarded(t) \/ db[XpEvent(e)] \/ e \in s.due \/ t.op.kind # "mark"
    <3> SUFFICES ASSUME NEW e \in Touched(t), t.op.kind = "mark", e \in t.due, e \notin s.due
                 PROVE  e \in Awarded(t) \/ db[XpEvent(e)]
      BY <1>1 DEF CallOK, PaidOK
    <3>1. See(c)[XpEvent(e)] /\ e \in XpKeys
      BY <1>1, <1>4
    <3>2. See(c)[XpEvent(e)] = Seen(t, db, XpEvent(e))
      BY <3>1, SeenTypes
    <3> QED BY <3>1, <3>2 DEF Seen, Awarded
  <2> QED BY <1>3, <1>4, <2>1 DEF PaidOK, AfterAward
<1>7. StatusOK(s)
  BY <1>1, <1>3, <1>4 DEF CallOK, StatusOK, AfterAward, AfterSync, Fields
<1>8. ~bypassed =>
        /\ EpisodesMoved(s) = EpisodesMoved(t) /\ Logged(s) = Logged(t)
        /\ Joined(s) = Joined(t) /\ Placed(s) = Placed(t)
        /\ FoundOK(s, db)
  BY <1>1, <1>3, <1>4
     DEF CountsOK, FoundOK, EpisodesMoved, Logged, Joined, Placed, Fields, Changing
<1> QED BY <1>2, <1>3, <1>4, <1>5, <1>6, <1>7, <1>8, QuietRead DEF Fields, Changing

\* Award with a key nobody has paid: the call takes its event.
LEMMA AwardWrites ==
  ASSUME TxInv, NEW c \in Clients, tx[c].pc = "award", tx[c].op.kind \in Changing,
         NEW k \in tx[c].due, ~See(c)[XpEvent(k)], NEW v \in BOOLEAN, v = TRUE,
         NEW next, DOMAIN next = {"pc", "todo"}, next.pc = "pay", next.todo = {k},
         Write(c, XpEvent(k), v, next)
  PROVE  Onward(c)
<1> DEFINE t == tx[c]
           s == tx'[c]
           r == XpEvent(k)
<1>1. CallOK(t, db) /\ (~bypassed => CountsOK(t, db)) /\ k \in XpKeys
  BY InHand DEF CallOK, CallTyped
<1>2. r \in Rows /\ Typed(r, v) /\ DOMAIN next \subseteq Fields \ {"mine", "op", "at"}
  BY <1>1, RowTypes, TypedRows DEF Fields
<1>3. /\ \A f \in Fields \ {"mine"} : s[f] = IF f \in DOMAIN next THEN next[f] ELSE t[f]
      /\ s.op = t.op /\ s.at = t.at /\ DOMAIN s = Fields
      /\ DOMAIN s.mine \subseteq Rows /\ RowsTyped(s.mine)
      /\ Wrote(s, r) /\ s.mine[r] = v
      /\ \A x : x # r => Same(t, s, x)
  <2>1. Left(t, s, r, v, next)
    BY <1>2, WriteLeaves
  <2> QED BY <2>1 DEF Left
<1>4. /\ s.pc = "pay" /\ s.todo = {k}
      /\ \A f \in Fields \ {"mine", "pc", "todo"} : s[f] = t[f]
  BY <1>3 DEF Fields
<1>5. CallTyped(s)
  BY <1>1, <1>3, <1>4 DEF CallOK, CallTyped, Fields, Statements, Changing
<1>6. /\ Same(t, s, UserStats) /\ Same(t, s, DailyLog) /\ Same(t, s, Show)
      /\ Same(t, s, UserShow) /\ \A x \in XpKeys \ {k} : Same(t, s, XpEvent(x))
      /\ \A e \in Episodes : Same(t, s, UserEpisode(e))
  BY <1>3, RowIds
<1>7. k \notin Awarded(t) /\ db[r] = FALSE /\ t.pc = "award"
  <2>1. See(c)[r] = Seen(t, db, r) /\ db[r] \in BOOLEAN
    BY <1>1, SeenTypes
  <2>2. Wrote(t, r) => t.mine[r] = TRUE
    BY <1>1 DEF CallOK, XpOK, Awarded
  <2> QED BY <2>1, <2>2 DEF Seen, Awarded
<1>8. Awarded(s) = Awarded(t) \cup {k}
  BY <1>1, <1>3, <1>6 DEF Awarded, Same
<1>9. XpOK(s, db)
  <2>1. Paid(s) = Paid(t)
    BY <1>4, <1>7, <1>8 DEF Paid
  <2>2. Seen(s, db, UserStats) = Seen(t, db, UserStats)
    BY <1>6, SeenAfter
  <2>3. \A x \in Awarded(s) : db[XpEvent(x)] = FALSE /\ s.mine[XpEvent(x)] = TRUE
    BY <1>1, <1>3, <1>6, <1>7, <1>8 DEF CallOK, XpOK, Awarded, Same
  <2>4. Seen(t, db, UserStats).xp = db[UserStats].xp + Worth(Paid(t))
    BY <1>1 DEF CallOK, XpOK
  <2> QED BY <1>4, <1>8, <2>1, <2>2, <2>3, <2>4 DEF XpOK
<1>10. EpisodesOK(s, db) /\ Touched(s) = Touched(t)
  <2>1. EpisodesOK(t, db) /\ s.fresh = t.fresh /\ t.op.kind # "unmark"
    BY <1>1, <1>4 DEF CallOK, Fields, Changing
  <2> HIDE DEF s, t
  <2> QED BY <1>3, <1>6, <2>1, EpisodesKept
<1>11. PaidOK(s, db) /\ StatusOK(s)
  <2>1. s.due = t.due /\ s.status = t.status
    BY <1>4 DEF Fields
  <2> QED BY <1>1, <1>3, <1>4, <1>6, <1>7, <1>8, <1>10, <2>1
          DEF CallOK, PaidOK, StatusOK, AfterAward, AfterSync, Same
<1>12. ~bypassed => CountsOK(s, db)
  <2>1. /\ EpisodesMoved(s) = EpisodesMoved(t) /\ Logged(s) = Logged(t)
        /\ Joined(s) = Joined(t) /\ Placed(s) = Placed(t)
    BY <1>3, <1>4, <1>7 DEF EpisodesMoved, Logged, Joined, Placed, Changing, Fields
  <2>2. FoundOK(s, db)
    BY <1>3, <1>4 DEF FoundOK, Changing
  <2> HIDE DEF s, t
  <2> QED BY <1>1, <1>3, <1>6, <2>1, <2>2, CountsKept
<1>13. CallOK(s, db)
  BY <1>5, <1>9, <1>10, <1>11 DEF CallOK
<1> QED
  <2>1. t.pc # "idle"
    OBVIOUS
  <2> HIDE DEF r
  <2> QED BY <1>2, <1>12, <1>13, <2>1, WriteOnward DEF r

LEMMA AwardOnward ==
  ASSUME TxInv, NEW c \in Clients, Award(c)
  PROVE  Onward(c)
<1> DEFINE t == tx[c]
<1>1. t.pc = "award" /\ t.op.kind \in Changing
  BY DEF Award, At
<1>2. CASE t.due = {}
  <2> DEFINE pc   == IF tx[c].op.kind = "mark" /\ tx[c].fresh > 0 THEN "log" ELSE "reconcile"
             next == [pc |-> pc]
  <2>1. Read(c, next)
    BY <1>2 DEF Award
  <2>2. DOMAIN next = {"pc"} /\ next.pc = pc
    OBVIOUS
  <2> HIDE DEF next
  <2> QED BY <1>1, <1>2, <2>1, <2>2, AwardReads
<1>3. CASE t.due # {}
  <2>1. PICK k \in NextDue(t.due) :
          IF AlreadyPaid(See(c), k) THEN Read(c, [due |-> t.due \ {k}])
          ELSE Write(c, XpEvent(k), TRUE, [pc |-> "pay", todo |-> {k}])
    BY <1>3 DEF Award
  <2>2. k \in t.due
    BY DEF NextDue
  <2>3. CASE See(c)[XpEvent(k)]
    <3> DEFINE next == [due |-> t.due \ {k}]
    <3>1. Read(c, next)
      BY <2>1, <2>3 DEF AlreadyPaid
    <3>2. DOMAIN next = {"due"} /\ next.due = t.due \ {k}
      OBVIOUS
    <3> HIDE DEF next
    <3> QED BY <1>1, <2>2, <2>3, <3>1, <3>2, AwardReads
  <2>4. CASE ~See(c)[XpEvent(k)]
    <3> DEFINE v    == TRUE
               next == [pc |-> "pay", todo |-> {k}]
    <3>1. Write(c, XpEvent(k), v, next)
      BY <2>1, <2>4 DEF AlreadyPaid
    <3>2. /\ DOMAIN next = {"pc", "todo"} /\ next.pc = "pay" /\ next.todo = {k}
          /\ v \in BOOLEAN /\ v = TRUE
      OBVIOUS
    <3> HIDE DEF next, v
    <3> QED BY <1>1, <2>2, <2>4, <3>1, <3>2, AwardWrites
  <2> QED BY <2>3, <2>4
<1> QED BY <1>2, <1>3

LEMMA AmountType == \A k : Amount(k) \in Nat
BY DEF Amount

LEMMA PayOnward ==
  ASSUME TxInv, NEW c \in Clients, Pay(c)
  PROVE  Onward(c)
<1> DEFINE t == tx[c]
           s == tx'[c]
<1>1. PICK k \in t.todo :
        Write(c, UserStats, [See(c)[UserStats] EXCEPT !.xp = @ + Amount(k)],
              [pc |-> "award", due |-> t.due \ {k}, todo |-> {}])
  BY DEF Pay
<1> DEFINE v    == [See(c)[UserStats] EXCEPT !.xp = @ + Amount(k)]
           next == [pc |-> "award", due |-> t.due \ {k}, todo |-> {}]
<1>2. t.pc = "pay" /\ t.op.kind \in Changing
  BY DEF Pay, At
<1>3. CallOK(t, db) /\ (~bypassed => CountsOK(t, db))
  BY <1>2, InHand
<1>4. k \in Awarded(t) /\ t.todo = {k} /\ k \in XpKeys
  BY <1>2, <1>3 DEF CallOK, XpOK, Awarded
<1>5. /\ See(c)[UserStats] = Seen(t, db, UserStats)
      /\ See(c)[UserStats] \in Stats /\ db[UserStats] \in Stats
  BY <1>2, SeenTypes
<1>6. /\ v \in Stats /\ v.xp = See(c)[UserStats].xp + Amount(k)
      /\ v.episodes = See(c)[UserStats].episodes /\ v.status = See(c)[UserStats].status
  BY <1>5, AmountType DEF Stats
<1>7. /\ DOMAIN next = {"pc", "due", "todo"} /\ next.pc = "award" /\ next.due = t.due \ {k}
      /\ next.todo = {} /\ Write(c, UserStats, v, next)
  BY <1>1
<1>8. UserStats \in Rows /\ Typed(UserStats, v)
  BY <1>6, RowTypes, TypedRows
<1> HIDE DEF next, v
<1>9. /\ \A f \in Fields \ {"mine"} : s[f] = IF f \in DOMAIN next THEN next[f] ELSE t[f]
      /\ s.op = t.op /\ s.at = t.at /\ DOMAIN s = Fields
      /\ DOMAIN s.mine \subseteq Rows /\ RowsTyped(s.mine)
      /\ Seen(s, db, UserStats) = v
      /\ \A x : x # UserStats => Same(t, s, x)
  <2>1. Left(t, s, UserStats, v, next)
    BY <1>2, <1>7, <1>8, WriteLeaves DEF Fields
  <2> QED BY <2>1 DEF Left
<1>10. /\ s.pc = "award" /\ s.due = t.due \ {k} /\ s.todo = {}
       /\ \A f \in Fields \ {"mine", "pc", "due", "todo"} : s[f] = t[f]
  BY <1>7, <1>9 DEF Fields
<1>11. CallTyped(s)
  BY <1>2, <1>3, <1>9, <1>10 DEF CallOK, CallTyped, Fields, Statements, Changing
<1>12. /\ Same(t, s, DailyLog) /\ Same(t, s, Show) /\ Same(t, s, UserShow)
       /\ \A x \in XpKeys : Same(t, s, XpEvent(x))
       /\ \A e \in Episodes : Same(t, s, UserEpisode(e))
  BY <1>9, RowIds
<1>13. Awarded(s) = Awarded(t)
  BY <1>12 DEF Awarded, Same
<1>14. XpOK(s, db)
  <2>1. Paid(s) = Paid(t) \cup {k} /\ k \notin Paid(t) /\ Paid(t) \subseteq XpKeys
    BY <1>2, <1>4, <1>10, <1>13 DEF Paid, Awarded
  <2>2. Worth(Paid(s)) = Worth(Paid(t)) + Amount(k) /\ Worth(Paid(t)) \in Nat
    <3>1. Worth({k}) = Amount(k)
      BY <1>4, WorthOfOne
    <3>2. {k} \subseteq XpKeys /\ Paid(t) \cap {k} = {}
      BY <1>4, <2>1
    <3>3. Worth(Paid(t) \cup {k}) = Worth(Paid(t)) + Worth({k})
      <4> HIDE DEF t
      <4> QED BY <2>1, <3>2, WorthAdds
    <3> QED BY <2>1, <3>1, <3>3, WorthType
  <2>3. Seen(t, db, UserStats).xp = db[UserStats].xp + Worth(Paid(t))
    BY <1>3 DEF CallOK, XpOK
  <2>4. Seen(s, db, UserStats).xp = db[UserStats].xp + Worth(Paid(s))
    <3>1. db[UserStats].xp \in Int /\ Amount(k) \in Nat
      BY <1>5, AmountType DEF Stats
    <3> QED BY <1>5, <1>6, <1>9, <2>2, <2>3, <3>1
  <2>5. \A x \in Awarded(s) : db[XpEvent(x)] = FALSE /\ s.mine[XpEvent(x)] = TRUE
    BY <1>3, <1>12, <1>13 DEF CallOK, XpOK, Awarded, Same
  <2> QED BY <1>10, <2>4, <2>5 DEF XpOK
<1>15. EpisodesOK(s, db) /\ Touched(s) = Touched(t)
  <2>1. EpisodesOK(t, db) /\ s.fresh = t.fresh /\ t.op.kind # "unmark"
    BY <1>2, <1>3, <1>10 DEF CallOK, Fields, Changing
  <2> HIDE DEF s, t
  <2> QED BY <1>9, <1>12, <2>1, EpisodesKept
<1>16. PaidOK(s, db) /\ StatusOK(s)
  <2>1. s.status = t.status
    BY <1>10 DEF Fields
  <2> QED BY <1>2, <1>3, <1>4, <1>9, <1>10, <1>12, <1>13, <1>15, <2>1
          DEF CallOK, PaidOK, StatusOK, AfterAward, AfterSync, Same
<1>17. ASSUME ~bypassed PROVE CountsOK(s, db)
  <2>1. VolumeOK(t, db) /\ MembersOK(t, db) /\ FoundOK(t, db)
    BY <1>2, <1>3, <1>17 DEF CountsOK, Changing
  <2>2. /\ EpisodesMoved(s) = EpisodesMoved(t) /\ Logged(s) = Logged(t)
        /\ Joined(s) = Joined(t) /\ Placed(s) = Placed(t)
    BY <1>2, <1>9, <1>10 DEF EpisodesMoved, Logged, Joined, Placed, Changing, Fields
  <2>3. FoundOK(s, db)
    BY <1>2, <1>9, <1>10 DEF FoundOK, Changing
  <2>4. Seen(s, db, DailyLog) = Seen(t, db, DailyLog) /\ Seen(s, db, Show) = Seen(t, db, Show)
    <3> HIDE DEF s, t
    <3> QED BY <1>12, SeenAfter
  <2>5. VolumeOK(s, db) /\ MembersOK(s, db)
    BY <1>5, <1>6, <1>9, <2>1, <2>2, <2>4 DEF VolumeOK, MembersOK
  <2> QED BY <2>3, <2>5 DEF CountsOK
<1>18. CallOK(s, db)
  BY <1>11, <1>14, <1>15, <1>16 DEF CallOK
<1> QED BY <1>2, <1>7, <1>8, <1>17, <1>18, WriteOnward DEF Fields

\* The counters but xpTotal, after the awards.
LEMMA StatsOnward ==
  ASSUME TxInv, NEW c \in Clients, tx[c].pc \in {"delta", "reconcile"},
         NEW v \in Stats, v.xp = See(c)[UserStats].xp,
         NEW next, DOMAIN next = {"pc"}, next.pc \in {"reconcile", "delta", "commit"},
         next.pc \in Statements[tx[c].op.kind],
         Write(c, UserStats, v, next),
         tx[c].op.kind # "remove" /\ ~bypassed =>
           /\ v.episodes = db[UserStats].episodes + EpisodesMoved(tx'[c])
           /\ Members(v.status) = Members(db[UserStats].status) + Placed(tx'[c])
  PROVE  Onward(c)
<1> DEFINE t == tx[c]
           s == tx'[c]
<1>1. /\ CallOK(t, db) /\ (~bypassed => CountsOK(t, db))
      /\ t.op.kind \in Every /\ t.pc # "idle"
  BY InHand, OpTypes DEF CallOK, CallTyped, Every
<1>2. See(c)[UserStats] = Seen(t, db, UserStats)
  BY <1>1, SeenTypes
<1>3. /\ UserStats \in Rows /\ Typed(UserStats, v)
      /\ DOMAIN next \subseteq Fields \ {"mine", "op", "at"}
  BY RowTypes, TypedRows DEF Fields
<1>4. /\ \A f \in Fields \ {"mine"} : s[f] = IF f \in DOMAIN next THEN next[f] ELSE t[f]
      /\ s.op = t.op /\ s.at = t.at /\ DOMAIN s = Fields
      /\ DOMAIN s.mine \subseteq Rows /\ RowsTyped(s.mine)
      /\ Seen(s, db, UserStats) = v
      /\ \A x : x # UserStats => Same(t, s, x)
  <2>1. Left(t, s, UserStats, v, next)
    BY <1>1, <1>3, WriteLeaves
  <2> QED BY <2>1 DEF Left
<1>5. s.pc = next.pc /\ \A f \in Fields \ {"mine", "pc"} : s[f] = t[f]
  BY <1>4 DEF Fields
<1>6. CallTyped(s)
  BY <1>1, <1>4, <1>5 DEF CallOK, CallTyped, Fields
<1>7. /\ Same(t, s, DailyLog) /\ Same(t, s, Show) /\ Same(t, s, UserShow)
      /\ \A k \in XpKeys : Same(t, s, XpEvent(k))
      /\ \A e \in Episodes : Same(t, s, UserEpisode(e))
  BY <1>4, RowIds
<1>8. XpOK(s, db) /\ Awarded(s) = Awarded(t)
  <2>1. XpOK(t, db) /\ t.pc # "pay" /\ s.pc # "pay"
    BY <1>1, <1>5 DEF CallOK
  <2>2. Seen(s, db, UserStats).xp = Seen(t, db, UserStats).xp
    BY <1>2, <1>4
  <2> HIDE DEF s, t
  <2> QED BY <1>7, <2>1, <2>2, XpKept
<1>9. EpisodesOK(s, db) /\ Touched(s) = Touched(t)
  <2>1. EpisodesOK(t, db) /\ s.fresh = t.fresh /\ t.pc \notin BeforeDelete /\ s.pc \notin BeforeDelete
    BY <1>1, <1>5 DEF CallOK, Fields, BeforeDelete
  <2> HIDE DEF s, t
  <2> QED BY <1>4, <1>7, <2>1, EpisodesKept
<1>10. PaidOK(s, db) /\ StatusOK(s)
  <2>1. s.due = t.due /\ s.status = t.status
    BY <1>5 DEF Fields
  <2> QED BY <1>1, <1>4, <1>5, <1>7, <1>8, <1>9, <2>1
          DEF CallOK, PaidOK, StatusOK, AfterAward, AfterSync, Same
<1>11. ASSUME ~bypassed PROVE CountsOK(s, db)
  <2> SUFFICES ASSUME t.op.kind # "remove"
               PROVE  VolumeOK(s, db) /\ MembersOK(s, db) /\ FoundOK(s, db)
    BY <1>4 DEF CountsOK
  <2>1. VolumeOK(t, db) /\ MembersOK(t, db) /\ FoundOK(t, db)
    BY <1>1, <1>11 DEF CountsOK
  <2>2. Logged(s) = Logged(t) /\ Joined(s) = Joined(t)
    BY <1>4, <1>5 DEF Logged, Joined, BeforeDelete, Changing, Fields
  <2>3. FoundOK(s, db)
    BY <1>4, <1>5, <2>1 DEF FoundOK, Fields
  <2>4. Seen(s, db, DailyLog) = Seen(t, db, DailyLog) /\ Seen(s, db, Show) = Seen(t, db, Show)
    <3> HIDE DEF s, t
    <3> QED BY <1>7, SeenAfter
  <2>5. /\ v.episodes = db[UserStats].episodes + EpisodesMoved(s)
        /\ Members(v.status) = Members(db[UserStats].status) + Placed(s)
    BY <1>11
  <2>6. VolumeOK(s, db) /\ MembersOK(s, db)
    BY <1>4, <2>1, <2>2, <2>4, <2>5 DEF VolumeOK, MembersOK
  <2> QED BY <2>3, <2>6
<1>12. CallOK(s, db)
  BY <1>6, <1>8, <1>9, <1>10 DEF CallOK
<1> QED BY <1>1, <1>3, <1>11, <1>12, WriteOnward

\* The volume counters moved, the others as they were.
LEMMA StatsMoved ==
  ASSUME NEW w \in Stats, NEW a \in Int, NEW b \in Int
  PROVE  LET u == [w EXCEPT !.episodes = @ + a, !.seasons = @ + b]
         IN  u \in Stats /\ u.xp = w.xp /\ u.status = w.status /\ u.episodes = w.episodes + a
<1> DEFINE u == [w EXCEPT !.episodes = @ + a, !.seasons = @ + b]
<1>1. PICK x \in Int, n \in Int, m \in Int, counts \in [Statuses -> Int] :
        w = [xp |-> x, episodes |-> n, seasons |-> m, status |-> counts]
  BY DEF Stats
<1>2. w.xp = x /\ w.episodes = n /\ w.seasons = m /\ w.status = counts /\ DOMAIN w = DOMAIN u
  BY <1>1
<1>3. u.xp = x /\ u.episodes = n + a /\ u.seasons = m + b /\ u.status = counts
  BY <1>1, <1>2
<1>4. u \in Stats
  <2> DEFINE y == [w EXCEPT !.episodes = @ + a]
  <2>1. y \in Stats /\ y.seasons \in Int
    BY DEF Stats
  <2>2. u = [y EXCEPT !.seasons = @ + b]
    OBVIOUS
  <2> HIDE DEF u, y
  <2> QED BY <2>1, <2>2 DEF Stats
<1> HIDE DEF u
<1> QED BY <1>2, <1>3, <1>4 DEF u

LEMMA ApplyDeltaOnward ==
  ASSUME TxInv, NEW c \in Clients, ApplyDelta(c)
  PROVE  Onward(c)
<1> DEFINE t     == tx[c]
           s     == tx'[c]
           moved == tx[c].seasons - tx[c].was.seasons
           by    == CASE tx[c].op.kind = "mark" -> <<tx[c].fresh, moved>>
                      [] tx[c].op.kind = "unmark" -> <<-1, moved>>
                      [] OTHER -> <<-tx[c].prev.episodes, -tx[c].prev.seasons>>
           v     == [See(c)[UserStats] EXCEPT !.episodes = @ + by[1], !.seasons = @ + by[2]]
           pc    == IF tx[c].op.kind = "mark" THEN "reconcile" ELSE "commit"
           next  == [pc |-> pc]
<1>1. t.pc = "delta" /\ t.op.kind \in {"mark", "unmark", "remove"} /\ Write(c, UserStats, v, next)
  BY DEF ApplyDelta, At
<1>2. CallOK(t, db) /\ (~bypassed => CountsOK(t, db))
  BY <1>1, InHand
<1>3. /\ See(c)[UserStats] = Seen(t, db, UserStats)
      /\ See(c)[UserStats] \in Stats /\ db[UserStats] \in Stats
  BY <1>1, SeenTypes
<1>4. /\ t.fresh \in Nat /\ moved \in Int /\ -t.prev.episodes \in Int /\ -t.prev.seasons \in Int
  BY <1>2 DEF CallOK, CallTyped, Entries
<1>5. /\ by[1] \in Int /\ by[2] \in Int
      /\ t.op.kind = "mark" => by[1] = t.fresh
      /\ t.op.kind = "unmark" => by[1] = -1
  BY <1>1, <1>4
<1> HIDE DEF by
<1>6. /\ v \in Stats /\ v.xp = See(c)[UserStats].xp /\ v.status = See(c)[UserStats].status
      /\ v.episodes = See(c)[UserStats].episodes + by[1]
  BY <1>3, <1>5, StatsMoved
<1>7. DOMAIN next = {"pc"} /\ next.pc = pc
  OBVIOUS
<1> HIDE DEF next, v
<1>8. /\ \A f \in Fields \ {"mine"} : s[f] = IF f \in DOMAIN next THEN next[f] ELSE t[f]
      /\ s.op = t.op
  <2>1. UserStats \in Rows /\ Typed(UserStats, v)
    BY <1>6, RowTypes, TypedRows
  <2>2. Left(t, s, UserStats, v, next)
    BY <1>1, <1>7, <2>1, WriteLeaves DEF Fields
  <2> QED BY <2>2 DEF Left
<1>9. s.pc = pc /\ s.fresh = t.fresh /\ s.prev = t.prev
  BY <1>7, <1>8 DEF Fields
<1>10. t.op.kind # "remove" /\ ~bypassed =>
         /\ v.episodes = db[UserStats].episodes + EpisodesMoved(s)
         /\ Members(v.status) = Members(db[UserStats].status) + Placed(s)
  <2> SUFFICES ASSUME t.op.kind # "remove", ~bypassed
               PROVE  /\ v.episodes = db[UserStats].episodes + EpisodesMoved(s)
                      /\ Members(v.status) = Members(db[UserStats].status) + Placed(s)
    OBVIOUS
  <2>1. VolumeOK(t, db) /\ MembersOK(t, db)
    BY <1>2 DEF CountsOK
  <2>2. EpisodesMoved(t) = 0 /\ EpisodesMoved(s) = by[1] /\ Placed(t) = 0 /\ Placed(s) = 0
    BY <1>1, <1>5, <1>8, <1>9 DEF EpisodesMoved, Placed, Joined, Changing
  <2>3. db[UserStats].episodes \in Int
    BY <1>3 DEF Stats
  <2>4. v.episodes = db[UserStats].episodes + EpisodesMoved(s)
    BY <1>3, <1>5, <1>6, <2>1, <2>2, <2>3 DEF VolumeOK
  <2> QED BY <1>3, <1>6, <2>1, <2>2, <2>4 DEF MembersOK
<1>11. next.pc \in Statements[t.op.kind] /\ next.pc \in {"reconcile", "commit"}
  BY <1>1, <1>7 DEF Statements
<1> QED BY <1>1, <1>6, <1>7, <1>10, <1>11, StatsOnward

LEMMA ReconcileOnward ==
  ASSUME TxInv, NEW c \in Clients, Reconcile(c)
  PROVE  Onward(c)
<1> DEFINE t    == tx[c]
           s    == tx'[c]
           pc   == IF tx[c].op.kind \in Changing THEN "commit" ELSE "delta"
           v    == [See(c)[UserStats] EXCEPT
                      !.status = Moved(@, tx[c].prev.status, tx[c].status)]
           next == [pc |-> pc]
<1>1. t.pc = "reconcile" /\ t.op.kind \in Every
  BY DEF Reconcile, At
<1>2. CallOK(t, db) /\ (~bypassed => CountsOK(t, db))
  BY <1>1, InHand
<1>3. /\ See(c)[UserStats] = Seen(t, db, UserStats)
      /\ See(c)[UserStats] \in Stats /\ db[UserStats] \in Stats
  BY <1>1, SeenTypes
<1>4. /\ t.prev.status \in Statuses \cup {NotInLibrary} /\ t.status \in Statuses \cup {NotInLibrary}
      /\ t.op.kind # "remove" => t.status \in Statuses
  BY <1>1, <1>2 DEF CallOK, CallTyped, StatusOK, Entries, AfterAward, AfterSync
<1>5. /\ DOMAIN next = {"pc"} /\ next.pc = pc
      /\ t.op.kind \in Changing => pc = "commit"
      /\ t.op.kind \notin Changing => pc = "delta"
  OBVIOUS
<1>6. pc \in Statements[t.op.kind]
  BY <1>1 DEF Statements, Changing, Every
<1> HIDE DEF next, v, pc
<1>7. CASE t.prev.status = t.status /\ Read(c, next)
  <2>1. /\ \A f \in Fields \ {"mine"} : s[f] = IF f \in DOMAIN next THEN next[f] ELSE t[f]
        /\ s.op = t.op /\ s.at = t.at /\ s.mine = t.mine
        /\ Touched(s) = Touched(t) /\ Awarded(s) = Awarded(t)
        /\ \A r : Wrote(s, r) = Wrote(t, r)
        /\ DOMAIN s = Fields
    BY <1>1, <1>5, <1>7, ReadLeaves DEF Fields
  <2>2. s.pc = pc /\ \A f \in Fields \ {"mine", "pc"} : s[f] = t[f]
    BY <1>5, <2>1 DEF Fields
  <2>3. CallTyped(s)
    BY <1>1, <1>2, <1>5, <1>6, <2>1, <2>2 DEF CallOK, CallTyped, Fields
  <2>4. PaidOK(s, db) /\ StatusOK(s)
    BY <1>1, <1>2, <1>5, <2>1, <2>2
       DEF CallOK, PaidOK, StatusOK, AfterAward, AfterSync, Fields
  <2>5. t.op.kind # "remove" /\ ~bypassed =>
          /\ EpisodesMoved(s) = EpisodesMoved(t) /\ Logged(s) = Logged(t)
          /\ Joined(s) = Joined(t) /\ Placed(s) = Placed(t)
          /\ FoundOK(s, db)
    BY <1>1, <1>2, <1>4, <1>5, <1>7, <2>1, <2>2, NoEntryIsNoStatus
       DEF CountsOK, FoundOK, EpisodesMoved, Logged, Joined, Placed, Fields, Changing, Every,
           BeforeDelete
  <2>6. s.pc # "pay" /\ s.pc \notin BeforeDelete /\ t.pc \notin BeforeDelete
    BY <1>1, <1>5, <2>2 DEF BeforeDelete
  <2> QED BY <1>1, <1>5, <1>7, <2>1, <2>2, <2>3, <2>4, <2>5, <2>6, QuietRead DEF Fields
<1>8. CASE Write(c, UserStats, v, next)
  <2> DEFINE counts == See(c)[UserStats].status
  <2>1. counts \in [Statuses -> Int]
    BY <1>3 DEF Stats
  <2>2. /\ Moved(counts, t.prev.status, t.status) \in [Statuses -> Int]
        /\ Members(counts) \in Int
        /\ Members(Moved(counts, t.prev.status, t.status))
             = Members(counts) + (IF t.status \in Statuses THEN 1 ELSE 0)
                               - (IF t.prev.status \in Statuses THEN 1 ELSE 0)
    <3> HIDE DEF counts, t
    <3> QED BY <1>4, <2>1, MovedEffect DEF t
  <2>3. /\ v \in Stats /\ v.xp = See(c)[UserStats].xp
        /\ v.episodes = See(c)[UserStats].episodes
        /\ v.status = Moved(counts, t.prev.status, t.status)
    BY <1>3, <2>2 DEF Stats, v
  <2>4. /\ \A f \in Fields \ {"mine"} : s[f] = IF f \in DOMAIN next THEN next[f] ELSE t[f]
        /\ s.op = t.op
    <3>1. UserStats \in Rows /\ Typed(UserStats, v)
      BY <2>3, RowTypes, TypedRows
    <3>2. Left(t, s, UserStats, v, next)
      BY <1>1, <1>5, <1>8, <3>1, WriteLeaves DEF Fields
    <3> QED BY <3>2 DEF Left
  <2>5. s.pc = pc /\ s.fresh = t.fresh /\ s.prev = t.prev
    BY <1>5, <2>4 DEF Fields
  <2>6. ASSUME t.op.kind # "remove", ~bypassed
        PROVE  /\ v.episodes = db[UserStats].episodes + EpisodesMoved(s)
               /\ Members(v.status) = Members(db[UserStats].status) + Placed(s)
    <3>1. VolumeOK(t, db) /\ MembersOK(t, db) /\ FoundOK(t, db)
      BY <1>2, <2>6 DEF CountsOK
    <3>2. EpisodesMoved(s) = EpisodesMoved(t)
      BY <1>1, <1>5, <2>4, <2>5, <2>6 DEF EpisodesMoved, Changing, Every
    <3>3. v.episodes = db[UserStats].episodes + EpisodesMoved(s)
      BY <1>3, <2>3, <3>1, <3>2 DEF VolumeOK
    <3>4. Members(counts) = Members(db[UserStats].status) /\ Placed(t) = 0
      <4>1. Members(db[UserStats].status) \in Int
        BY <1>3 DEF Stats, Members, Statuses
      <4>2. Placed(t) = 0
        BY <1>1 DEF Placed
      <4>3. Members(counts) = Members(db[UserStats].status) + Placed(t)
        BY <1>3, <3>1 DEF MembersOK
      <4> QED BY <4>1, <4>2, <4>3
    <3>5. Placed(s) = IF t.prev.status \in Statuses THEN 0 ELSE 1
      <4>1. t.op.kind = "unmark" => t.prev.status \in Statuses
        BY <1>1, <1>4, <3>1 DEF FoundOK
      <4> QED BY <1>1, <1>4, <1>5, <2>4, <2>5, <2>6, <4>1, NoEntryIsNoStatus
              DEF Placed, Joined, Changing, Every
    <3>6. Members(v.status) = Members(db[UserStats].status) + Placed(s)
      <4>1. Members(v.status) = Members(counts) + 1 - (IF t.prev.status \in Statuses THEN 1 ELSE 0)
        BY <1>4, <2>2, <2>3, <2>6
      <4> HIDE DEF counts
      <4> QED BY <2>2, <3>4, <3>5, <4>1
    <3> QED BY <3>3, <3>6
  <2>7. next.pc \in Statements[t.op.kind] /\ next.pc \in {"delta", "commit"}
    BY <1>5, <1>6
  <2> QED BY <1>1, <1>5, <1>8, <2>3, <2>6, <2>7, StatsOnward
<1> QED BY <1>7, <1>8 DEF Reconcile, next, v, pc

Statement(c) == Step(c) \/ Rollback(c)

LEMMA StatementOnward ==
  ASSUME TxInv, NEW c \in Clients, Statement(c)
  PROVE  Onward(c)
<1>1. CASE Rollback(c)
  BY <1>1, RollbackOnward DEF Rollback
<1>2. CASE Step(c)
  BY <1>2, FindEntryOnward, CreateEntryOnward, UpsertEntryOnward, CountMemberOnward,
     FindMissingOnward, InsertEpisodesOnward, FindWatchedOnward, FindPreviousOnward,
     DeleteEpisodeOnward, UnlogOnward, FindRowsOnward, DeleteRowsOnward, DeleteEntryOnward,
     SyncReadOnward, SyncCountOnward, SyncSeasonsOnward, SyncWriteOnward, FindRecentOnward,
     AwardOnward, PayOnward, LogActivityOnward, ApplyDeltaOnward, ReconcileOnward DEF Step
<1> QED BY <1>1, <1>2 DEF Statement

----------------------------------------------------------------------------
(* A call begins with nothing in hand; its commit makes what it has in     *)
(* hand the committed rows.                                                *)

LEMMA BeginKeeps ==
  ASSUME TxInv, NEW c \in Clients, Begin(c)
  PROVE  TxInv'
<1> DEFINE s == tx'[c]
<1>1. PICK op \in Calls :
        tx' = [tx EXCEPT ![c] =
                 [pc |-> "find", op |-> op, at |-> calls + 1, mine |-> <<>>,
                  prev |-> NoEntry, was |-> NoEntry, fresh |-> 0, count |-> 0,
                  status |-> NotInLibrary, seasons |-> 0, todo |-> {}, due |-> {}]]
  BY DEF Begin
<1>2. Others(c) /\ UNCHANGED <<db, bypassed>> /\ calls' = calls + 1 /\ calls \in Nat
  BY <1>1 DEF Begin, Others, TxInv, CallsOK
<1>3. /\ s.pc = "find" /\ s.op = op /\ s.at = calls + 1 /\ DOMAIN s.mine = {}
      /\ s.prev = NoEntry /\ s.was = NoEntry /\ s.fresh = 0 /\ s.count = 0
      /\ s.status = NotInLibrary /\ s.seasons = 0 /\ s.todo = {} /\ s.due = {}
      /\ DOMAIN s = Fields
  BY <1>1 DEF TxInv, CallsOK, Fields
<1>4. /\ \A r : ~Wrote(s, r) /\ Seen(s, db, r) = db[r]
      /\ Awarded(s) = {} /\ Touched(s) = {} /\ Paid(s) = {}
  BY <1>3 DEF Wrote, Seen, Awarded, Touched, Paid
<1>5. op.kind \in {"mark", "unmark", "add", "remove"}
  BY OpTypes
<1>6. db[UserStats] \in Stats /\ db[DailyLog] \in Int /\ db[Show] \in Int
  BY RowTypes, TypedRows DEF TxInv, BaseOK, RowsTyped
<1> HIDE DEF s
<1>7. CallTyped(s)
  <2>1. NoEntry \in Entries
    BY DEF NoEntry, Entries
  <2>2. s.pc \in Statements[s.op.kind]
    BY <1>3, <1>5 DEF Statements
  <2>3. s.at \in Nat \ {0}
    BY <1>2, <1>3
  <2> QED BY <1>3, <2>1, <2>2, <2>3 DEF CallTyped, RowsTyped
<1>8. XpOK(s, db)
  <2>1. db[UserStats].xp \in Int
    BY <1>6 DEF Stats
  <2> QED BY <1>3, <1>4, <2>1, WorthEmpty DEF XpOK
<1>9. EpisodesOK(s, db) /\ PaidOK(s, db) /\ StatusOK(s)
  <2>1. Cardinality({}) = 0
    BY FS_EmptySet
  <2>2. EpisodesOK(s, db)
    BY <1>3, <1>4, <2>1 DEF EpisodesOK, BeforeDelete
  <2>3. PaidOK(s, db) /\ StatusOK(s)
    BY <1>3, <1>4 DEF PaidOK, StatusOK, AfterAward, AfterSync
  <2> QED BY <2>2, <2>3
<1>10. CountsOK(s, db)
  <2>1. EpisodesMoved(s) = 0 /\ Logged(s) = 0 /\ Joined(s) = 0 /\ Placed(s) = 0
    BY <1>3 DEF EpisodesMoved, Logged, Joined, Placed, BeforeDelete
  <2>2. db[UserStats].episodes \in Int /\ Members(db[UserStats].status) \in Int
    BY <1>6 DEF Stats, Members, Statuses
  <2>3. VolumeOK(s, db) /\ MembersOK(s, db)
    BY <1>4, <1>6, <2>1, <2>2 DEF VolumeOK, MembersOK
  <2>4. FoundOK(s, db)
    BY <1>3 DEF FoundOK
  <2> QED BY <2>3, <2>4 DEF CountsOK
<1>11. CallsOK'
  <2>1. CallOK(s, db') /\ s.at <= calls' /\ CountsOK(s, db')
    BY <1>2, <1>3, <1>7, <1>8, <1>9, <1>10 DEF CallOK
  <2>2. ASSUME NEW d \in Clients \ {c}, tx[d] # Idle
        PROVE  CallOK(tx[d], db) /\ tx[d].at <= calls'
    <3>1. CallOK(tx[d], db) /\ tx[d].at <= calls /\ tx[d].at \in Nat
      BY <2>2 DEF TxInv, CallsOK, CallOK, CallTyped
    <3> QED BY <1>2, <3>1
  <2>3. ASSUME ~bypassed, NEW d \in Clients \ {c}, tx[d] # Idle
        PROVE  CountsOK(tx[d], db)
    BY <2>3 DEF TxInv, CallsOK
  <2> QED BY <1>2, <2>1, <2>2, <2>3 DEF CallsOK, Others, s
<1>12. Locked'
  <2>1. Locked /\ \A r \in DOMAIN tx'[c].mine : Wrote(tx[c], r) \/ Free(c, r)
    BY <1>3 DEF TxInv, s
  <2> QED BY <1>2, <2>1, LockedKept
<1>13. BaseOK(db)' /\ XpPaidOnce' /\ VolumeExact' /\ RowsPaid' /\ MembersCounted'
  BY <1>2 DEF TxInv, BaseOK, XpPaidOnce, VolumeExact, RowsPaid, MembersCounted, PaidKeys, Tracked
<1> QED BY <1>2, <1>11, <1>12, <1>13 DEF TxInv

\* A call about to commit, and the rows as it leaves them.
Committing(c) ==
  /\ tx[c].pc = "commit" /\ tx[c] # Idle
  /\ Others(c) /\ tx'[c] = Idle /\ UNCHANGED calls
  /\ bypassed' = \/ bypassed
                 \/ tx[c].op.kind = "remove"
                 \/ (tx[c].op.kind = "add" /\ tx[c].fresh > 0)
  /\ DOMAIN db' = Rows
  /\ \A r \in Rows : db'[r] = Seen(tx[c], db, r)

LEMMA CommitEffect ==
  ASSUME TxInv, NEW c \in Clients, Commit(c)
  PROVE  Committing(c)
<1>1. tx[c].pc = "commit" /\ Publish(c) /\ UNCHANGED calls
  BY DEF Commit, At
<1>2. tx[c] # Idle /\ CallOK(tx[c], db) /\ tx = [d \in Clients |-> tx[d]]
  BY <1>1, InHand DEF TxInv, CallsOK
<1>3. DOMAIN db = Rows /\ DOMAIN tx[c].mine \subseteq DOMAIN db
  BY <1>2 DEF TxInv, BaseOK, CallOK, CallTyped
<1> QED BY <1>1, <1>2, <1>3, PublishEffect DEF Committing, Commit, Seen

\* The committed rows keep their types.
LEMMA CommitTypes ==
  ASSUME TxInv, NEW c \in Clients, Committing(c)
  PROVE  /\ BaseOK(db')
         /\ db'[UserShow] \in Entries /\ db'[UserStats] \in Stats
         /\ db'[Show] \in Int /\ db'[DailyLog] \in Int
         /\ \A e \in Episodes : db'[UserEpisode(e)] \in Nat
         /\ \A k \in XpKeys : db'[XpEvent(k)] \in BOOLEAN
<1>1. \A r \in Rows : Typed(r, db'[r])
  BY InHand DEF Committing
<1>2. /\ UserShow \in Rows /\ UserStats \in Rows /\ Show \in Rows /\ DailyLog \in Rows
      /\ \A e \in Episodes : UserEpisode(e) \in Rows
      /\ \A k \in XpKeys : XpEvent(k) \in Rows
  BY RowTypes
<1>3. /\ db'[UserShow] \in Entries /\ db'[UserStats] \in Stats
      /\ db'[Show] \in Int /\ db'[DailyLog] \in Int
  BY <1>1, <1>2, TypedRows
<1>4. \A e \in Episodes : db'[UserEpisode(e)] \in Nat
  BY <1>1, <1>2, TypedRows
<1>5. \A k \in XpKeys : db'[XpEvent(k)] \in BOOLEAN
  BY <1>1, <1>2, TypedRows
<1> QED BY <1>1, <1>3, <1>4, <1>5 DEF BaseOK, RowsTyped, Committing

\* The XP events after a commit: those there were and those the call wrote.
LEMMA CommitEvents ==
  ASSUME TxInv, NEW c \in Clients, Committing(c)
  PROVE  PaidKeys' = PaidKeys \cup Awarded(tx[c]) /\ PaidKeys \cap Awarded(tx[c]) = {}
<1> DEFINE t == tx[c]
<1>1. CallOK(t, db)
  BY InHand DEF Committing
<1>2. ASSUME NEW k \in XpKeys
      PROVE  /\ db'[XpEvent(k)] = Seen(t, db, XpEvent(k))
             /\ k \in Awarded(t) => db[XpEvent(k)] = FALSE /\ t.mine[XpEvent(k)] = TRUE
             /\ k \in Awarded(t) <=> Wrote(t, XpEvent(k))
  <2>1. XpEvent(k) \in Rows
    BY RowTypes
  <2>2. k \in Awarded(t) <=> Wrote(t, XpEvent(k))
    BY DEF Awarded
  <2>3. k \in Awarded(t) => db[XpEvent(k)] = FALSE /\ t.mine[XpEvent(k)] = TRUE
    BY <1>1 DEF CallOK, XpOK
  <2> QED BY <2>1, <2>2, <2>3 DEF Committing
<1>3. Awarded(t) \subseteq XpKeys
  BY DEF Awarded
<1> HIDE DEF t
<1>4. ASSUME NEW k \in XpKeys
      PROVE  /\ k \in Awarded(t) => db'[XpEvent(k)] /\ ~db[XpEvent(k)]
             /\ k \notin Awarded(t) => db'[XpEvent(k)] = db[XpEvent(k)]
  BY <1>2 DEF Seen
<1>5. PaidKeys' = PaidKeys \cup Awarded(t) /\ PaidKeys \cap Awarded(t) = {}
  BY <1>3, <1>4 DEF PaidKeys
<1> QED BY <1>5 DEF t

\* Another open call keeps what it has: the rows it wrote are not in the commit,
\* and what it has not written it has not moved.
LEMMA OthersKeep ==
  ASSUME TxInv, NEW c \in Clients, Committing(c), NEW d \in Clients \ {c}, tx[d] # Idle
  PROVE  CallOK(tx[d], db') /\ (~bypassed' => CountsOK(tx[d], db'))
<1> DEFINE t == tx[c]
           s == tx[d]
<1>1. CallOK(s, db) /\ (~bypassed => CountsOK(s, db))
  BY DEF TxInv, CallsOK
<1>2. ASSUME NEW r \in Rows, Wrote(s, r)
      PROVE  db'[r] = db[r]
  BY <1>2 DEF Wrote, Seen, Committing, TxInv, Locked
<1>3. ASSUME NEW r \in Rows
      PROVE  \/ db'[r] = db[r] /\ Seen(s, db', r) = Seen(s, db, r)
             \/ Seen(s, db, r) = db[r] /\ Seen(s, db', r) = db'[r]
  BY <1>2 DEF Seen
<1>4. /\ db[UserStats] \in Stats /\ db[Show] \in Int /\ db[DailyLog] \in Int
      /\ db'[UserStats] \in Stats /\ db'[Show] \in Int /\ db'[DailyLog] \in Int
  BY CommitTypes, RowTypes, TypedRows DEF TxInv, BaseOK, RowsTyped
<1>5. UserStats \in Rows /\ Show \in Rows /\ DailyLog \in Rows /\ UserShow \in Rows
  BY RowTypes
<1> HIDE DEF s
<1>6. XpOK(s, db')
  <2>1. XpOK(s, db)
    BY <1>1 DEF CallOK
  <2>2. \A k \in Awarded(s) : db'[XpEvent(k)] = db[XpEvent(k)]
    BY <1>2, RowTypes DEF Awarded
  <2>3. Paid(s) \in SUBSET XpKeys
    BY DEF Paid, Awarded
  <2>4. Worth(Paid(s)) \in Int /\ db[UserStats].xp \in Int /\ db'[UserStats].xp \in Int
    BY <1>4, <2>3, WorthType DEF Stats
  <2>5. Seen(s, db, UserStats).xp = db[UserStats].xp + Worth(Paid(s))
    BY <2>1 DEF XpOK
  <2>6. Seen(s, db', UserStats).xp = db'[UserStats].xp + Worth(Paid(s))
    <3>1. \/ /\ db'[UserStats].xp = db[UserStats].xp
             /\ Seen(s, db', UserStats).xp = Seen(s, db, UserStats).xp
          \/ /\ Seen(s, db, UserStats).xp = db[UserStats].xp
             /\ Seen(s, db', UserStats).xp = db'[UserStats].xp
      BY <1>3, <1>5
    <3> QED BY <2>4, <2>5, <3>1
  <2> QED BY <2>1, <2>2, <2>6 DEF XpOK
<1>7. EpisodesOK(s, db')
  <2>1. EpisodesOK(s, db)
    BY <1>1 DEF CallOK
  <2>2. \A e \in Touched(s) : db'[UserEpisode(e)] = db[UserEpisode(e)]
    BY <1>2, RowTypes DEF Touched
  <2> QED BY <2>1, <2>2 DEF EpisodesOK
<1>8. PaidOK(s, db')
  <2>1. PaidOK(s, db)
    BY <1>1 DEF CallOK
  <2>2. ASSUME NEW e \in Touched(s), db[XpEvent(e)]
        PROVE  db'[XpEvent(e)]
    <3>1. e \in XpKeys
      BY DEF Touched, XpKeys
    <3> QED BY <2>2, <3>1, CommitEvents DEF PaidKeys
  <2> QED BY <2>1, <2>2 DEF PaidOK
<1>9. ASSUME ~bypassed'
      PROVE  CountsOK(s, db')
  <2>1. ~bypassed /\ t.op.kind # "remove"
    BY <1>9 DEF Committing
  <2> SUFFICES ASSUME s.op.kind # "remove"
               PROVE  VolumeOK(s, db') /\ MembersOK(s, db') /\ FoundOK(s, db')
    BY DEF CountsOK
  <2>2. VolumeOK(s, db) /\ MembersOK(s, db) /\ FoundOK(s, db)
    BY <1>1, <2>1 DEF CountsOK
  <2>3. VolumeOK(s, db')
    <3>1. EpisodesMoved(s) \in Int /\ Logged(s) \in Int
      BY <1>1 DEF CallOK, CallTyped, EpisodesMoved, Logged
    <3>2. db[UserStats].episodes \in Int /\ db'[UserStats].episodes \in Int
      BY <1>4 DEF Stats
    <3>3. /\ Seen(s, db, UserStats).episodes = db[UserStats].episodes + EpisodesMoved(s)
          /\ Seen(s, db, DailyLog) = db[DailyLog] + Logged(s)
      BY <2>2 DEF VolumeOK
    <3>4. Seen(s, db', UserStats).episodes = db'[UserStats].episodes + EpisodesMoved(s)
      BY <1>3, <1>5, <3>1, <3>2, <3>3
    <3>5. Seen(s, db', DailyLog) = db'[DailyLog] + Logged(s)
      BY <1>3, <1>4, <1>5, <3>1, <3>3
    <3> QED BY <3>4, <3>5 DEF VolumeOK
  <2>4. MembersOK(s, db')
    <3>1. Joined(s) \in Int /\ Placed(s) \in Int
      BY DEF Joined, Placed
    <3>2. /\ Members(db[UserStats].status) \in Int
          /\ Members(db'[UserStats].status) \in Int
      BY <1>4 DEF Stats, Members, Statuses
    <3>3. /\ Seen(s, db, Show) = db[Show] + Joined(s)
          /\ Members(Seen(s, db, UserStats).status)
               = Members(db[UserStats].status) + Placed(s)
      BY <2>2 DEF MembersOK
    <3>4. Seen(s, db', Show) = db'[Show] + Joined(s)
      BY <1>3, <1>4, <1>5, <3>1, <3>3
    <3>5. Members(Seen(s, db', UserStats).status) = Members(db'[UserStats].status) + Placed(s)
      BY <1>3, <1>5, <3>1, <3>2, <3>3
    <3> QED BY <3>4, <3>5 DEF MembersOK
  <2>5. FoundOK(s, db')
    <3>1. ASSUME db[UserShow].status # NotInLibrary
          PROVE  db'[UserShow].status # NotInLibrary
      <4>1. db'[UserShow] = Seen(t, db, UserShow)
        BY <1>5 DEF Committing
      <4>2. Wrote(t, UserShow) => t.mine[UserShow].status \in Statuses
        BY <2>1, InHand DEF Committing, CallOK, StatusOK
      <4> QED BY <3>1, <4>1, <4>2, NoEntryIsNoStatus DEF Seen
    <3> QED BY <2>2, <3>1 DEF FoundOK
  <2> QED BY <2>3, <2>4, <2>5
<1>10. CallOK(s, db')
  BY <1>1, <1>6, <1>7, <1>8 DEF CallOK
<1> QED BY <1>9, <1>10 DEF s

\* A commit that is counted moves the rows of episodes as it moves the counters.
LEMMA CommitTracked ==
  ASSUME TxInv, NEW c \in Clients, Committing(c), ~bypassed'
  PROVE  /\ Cardinality(Tracked(db')) = Cardinality(Tracked(db)) + EpisodesMoved(tx[c])
         /\ Logged(tx[c]) = EpisodesMoved(tx[c])
         /\ Tracked(db') \subseteq Tracked(db) \cup (IF tx[c].op.kind = "mark" THEN Touched(tx[c]) ELSE {})
<1> DEFINE t == tx[c]
           n == Tracked(db')
           o == Tracked(db)
<1>1. /\ CallOK(t, db) /\ t.pc = "commit" /\ t.fresh \in Nat
      /\ t.op \in Calls /\ t.op.kind # "remove" /\ ~(t.op.kind = "add" /\ t.fresh > 0)
  BY InHand DEF Committing, CallOK, CallTyped
<1>2. EpisodesOK(t, db) /\ t.op.kind \in {"mark", "unmark", "add"}
  BY <1>1, OpTypes DEF CallOK
<1>3. ASSUME NEW e \in Episodes
      PROVE  /\ e \in Touched(t) => db'[UserEpisode(e)] = t.mine[UserEpisode(e)]
             /\ e \notin Touched(t) => db'[UserEpisode(e)] = db[UserEpisode(e)]
  <2>1. db'[UserEpisode(e)] = Seen(t, db, UserEpisode(e))
    BY RowTypes DEF Committing
  <2> QED BY <2>1 DEF Seen, Touched
<1>4. /\ o \subseteq Episodes /\ IsFiniteSet(o) /\ Cardinality(o) \in Nat
      /\ Touched(t) \subseteq Episodes /\ IsFiniteSet(Touched(t))
      /\ Cardinality(Touched(t)) \in Nat
  BY EpisodeSets DEF Tracked, Touched
<1>5. CASE t.op.kind \in Changing
  <2>1. /\ t.fresh = Cardinality(Touched(t))
        /\ \A e \in Touched(t) : db[UserEpisode(e)] = 0 /\ t.mine[UserEpisode(e)] # 0
    BY <1>2, <1>5 DEF EpisodesOK
  <2>2. n = o \cup Touched(t) /\ o \cap Touched(t) = {}
    <3>1. n = o \cup Touched(t)
      BY <1>3, <1>4, <2>1 DEF Tracked
    <3>2. o \cap Touched(t) = {}
      BY <2>1 DEF Tracked
    <3> QED BY <3>1, <3>2
  <2>3. EpisodesMoved(t) = t.fresh /\ Logged(t) = t.fresh
    BY <1>1, <1>5 DEF EpisodesMoved, Logged, Changing
  <2>4. t.op.kind = "add" => Touched(t) = {}
    <3>1. t.op.kind = "add" => Cardinality(Touched(t)) = 0
      BY <1>1, <2>1
    <3> QED BY <1>4, <3>1, FS_EmptySet
  <2> HIDE DEF n, o, t
  <2>5. Cardinality(n) = Cardinality(o) + Cardinality(Touched(t))
    <3>1. Cardinality(o \cup Touched(t))
            = Cardinality(o) + Cardinality(Touched(t)) - Cardinality(o \cap Touched(t))
      BY <1>4, FS_Union
    <3>2. Cardinality(o \cap Touched(t)) = 0
      BY <2>2, FS_EmptySet
    <3> QED BY <1>4, <2>2, <3>1, <3>2
  <2>6. n \subseteq o \cup (IF t.op.kind = "mark" THEN Touched(t) ELSE {})
    BY <1>2, <1>5, <2>2, <2>4 DEF Changing
  <2> QED BY <2>1, <2>3, <2>5, <2>6 DEF n, o, t
<1>6. CASE t.op.kind = "unmark"
  <2>1. PICK e \in Episodes : Touched(t) = {e}
    BY <1>1, <1>2, <1>6, OpTypes DEF EpisodesOK, BeforeDelete
  <2>2. db[UserEpisode(e)] # 0 /\ t.mine[UserEpisode(e)] = 0
    BY <1>2, <1>6, <2>1 DEF EpisodesOK
  <2>3. n = o \ {e} /\ e \in o
    <3>1. n = o \ {e}
      BY <1>3, <2>1, <2>2 DEF Tracked
    <3>2. e \in o
      BY <2>2 DEF Tracked
    <3> QED BY <3>1, <3>2
  <2>4. EpisodesMoved(t) = -1 /\ Logged(t) = -1
    BY <1>1, <1>6 DEF EpisodesMoved, Logged, BeforeDelete
  <2> HIDE DEF n, o, t
  <2>5. Cardinality(n) = Cardinality(o) - 1
    BY <1>4, <2>3, FS_RemoveElement
  <2>6. Cardinality(n) = Cardinality(o) + EpisodesMoved(t)
    BY <1>4, <2>4, <2>5
  <2> QED BY <2>3, <2>4, <2>6 DEF n, o, t
<1> QED BY <1>2, <1>5, <1>6 DEF Changing

LEMMA CommitKeeps ==
  ASSUME TxInv, NEW c \in Clients, Committing(c)
  PROVE  TxInv'
<1> DEFINE t == tx[c]
<1>1. /\ CallOK(t, db) /\ (~bypassed => CountsOK(t, db)) /\ t.pc = "commit"
      /\ t.op.kind \in {"mark", "unmark", "add", "remove"}
  BY InHand, OpTypes DEF Committing, CallOK, CallTyped
<1>2. /\ db'[UserStats] = Seen(t, db, UserStats) /\ db'[UserShow] = Seen(t, db, UserShow)
      /\ db'[Show] = Seen(t, db, Show) /\ db'[DailyLog] = Seen(t, db, DailyLog)
  BY RowTypes DEF Committing
<1>3. XpPaidOnce'
  <2>1. /\ PaidKeys' = PaidKeys \cup Awarded(t) /\ PaidKeys \cap Awarded(t) = {}
        /\ PaidKeys \in SUBSET XpKeys /\ Awarded(t) \in SUBSET XpKeys
    BY CommitEvents DEF PaidKeys, Awarded
  <2>2. db'[UserStats].xp = db[UserStats].xp + Worth(Awarded(t))
    <3>1. Paid(t) = Awarded(t)
      BY <1>1 DEF Paid
    <3> QED BY <1>1, <1>2, <3>1 DEF CallOK, XpOK
  <2>3. db[UserStats].xp = Worth(PaidKeys)
    BY DEF TxInv, XpPaidOnce
  <2> HIDE DEF t
  <2>4. db'[UserStats].xp = Worth(PaidKeys \cup Awarded(t))
    BY <2>1, <2>2, <2>3, WorthAdds
  <2>5. db'[UserStats].xp = Worth(PaidKeys')
    BY <2>1, <2>4
  <2> QED BY <2>5 DEF XpPaidOnce, Worth
<1>4. VolumeExact'
  <2> SUFFICES ASSUME ~bypassed'
               PROVE  /\ db'[UserStats].episodes = Cardinality(Tracked(db'))
                      /\ db'[DailyLog] = Cardinality(Tracked(db'))
    BY DEF VolumeExact, Tracked
  <2>1. ~bypassed /\ t.op.kind # "remove"
    BY DEF Committing
  <2>2. /\ db'[UserStats].episodes = db[UserStats].episodes + EpisodesMoved(t)
        /\ db'[DailyLog] = db[DailyLog] + Logged(t)
    BY <1>1, <1>2, <2>1 DEF CountsOK, VolumeOK
  <2>3. /\ db[UserStats].episodes = Cardinality(Tracked(db))
        /\ db[DailyLog] = Cardinality(Tracked(db))
    BY <2>1 DEF TxInv, VolumeExact
  <2> QED BY <2>2, <2>3, CommitTracked
<1>5. RowsPaid'
  <2> SUFFICES ASSUME ~bypassed', NEW e \in Tracked(db')
               PROVE  e \in PaidKeys'
    BY DEF RowsPaid, Tracked
  <2>1. ~bypassed
    BY DEF Committing
  <2>2. PaidKeys' = PaidKeys \cup Awarded(t)
    BY CommitEvents
  <2>3. CASE e \in Tracked(db)
    BY <2>1, <2>2, <2>3 DEF TxInv, RowsPaid
  <2>4. CASE e \notin Tracked(db)
    <3>1. t.op.kind = "mark" /\ e \in Touched(t)
      BY <2>4, CommitTracked
    <3>2. t.due = {} /\ (e \in Awarded(t) \/ db[XpEvent(e)] \/ e \in t.due)
      BY <1>1, <3>1 DEF CallOK, PaidOK, AfterAward, Changing
    <3>3. e \in XpKeys
      BY <3>1 DEF Touched, XpKeys
    <3> QED BY <2>2, <3>2, <3>3 DEF PaidKeys
  <2> QED BY <2>3, <2>4
<1>6. MembersCounted'
  <2> SUFFICES ASSUME ~bypassed'
               PROVE  /\ db'[UserShow].status # NotInLibrary
                      /\ Members(db'[UserStats].status) = db'[Show]
    BY DEF MembersCounted, Members
  <2>1. ~bypassed /\ t.op.kind # "remove"
    BY DEF Committing
  <2>2. db'[UserShow].status # NotInLibrary
    <3>1. Wrote(t, UserShow) /\ t.mine[UserShow].status \in Statuses
      BY <1>1, <2>1 DEF CallOK, StatusOK, AfterSync, AfterAward
    <3> QED BY <1>2, <3>1, NoEntryIsNoStatus DEF Seen
  <2>3. /\ db'[Show] = db[Show] + Joined(t)
        /\ Members(db'[UserStats].status) = Members(db[UserStats].status) + Joined(t)
    BY <1>1, <1>2, <2>1 DEF CountsOK, MembersOK, Placed
  <2>4. Members(db[UserStats].status) = db[Show]
    BY <2>1 DEF TxInv, MembersCounted
  <2> QED BY <2>2, <2>3, <2>4
<1>7. CallsOK'
  <2>1. \A d \in Clients \ {c} :
          /\ tx'[d] = tx[d]
          /\ tx[d] # Idle => tx[d].at <= calls
    BY DEF Committing, Others, TxInv, CallsOK
  <2>2. \A d \in Clients \ {c} :
          tx[d] # Idle => CallOK(tx[d], db') /\ (~bypassed' => CountsOK(tx[d], db'))
    BY OthersKeep
  <2> QED BY <2>1, <2>2 DEF Committing, Others, CallsOK
<1>8. Locked'
  <2>1. Locked /\ Others(c) /\ \A r \in DOMAIN tx'[c].mine : Wrote(tx[c], r) \/ Free(c, r)
    BY NothingWritten DEF Committing, TxInv
  <2> QED BY <2>1, LockedKept
<1>9. calls' \in Nat /\ BaseOK(db)'
  <2>1. calls' \in Nat /\ BaseOK(db')
    BY CommitTypes DEF Committing, TxInv
  <2> QED BY <2>1 DEF BaseOK
<1> QED BY <1>3, <1>4, <1>5, <1>6, <1>7, <1>8, <1>9 DEF TxInv

LEMMA InitTxInv ==
  ASSUME Init
  PROVE  TxInv
<1>1. /\ db[UserShow] = NoEntry /\ db[UserStats] = NewStats
      /\ db[Show] = 0 /\ db[DailyLog] = 0 /\ DOMAIN db = Rows
      /\ \A e \in Episodes : db[UserEpisode(e)] = 0
      /\ \A k \in XpKeys : db[XpEvent(k)] = FALSE
  <2>1. /\ UserShow \in Rows /\ UserStats \in Rows /\ Show \in Rows /\ DailyLog \in Rows
        /\ \A e \in Episodes : UserEpisode(e) \in Rows
        /\ \A k \in XpKeys : XpEvent(k) \in Rows
    BY RowTypes
  <2>2. DOMAIN db = Rows /\ db[UserShow] = NoEntry /\ db[UserStats] = NewStats
    BY <2>1, RowIds DEF Init
  <2>3. db[Show] = 0 /\ db[DailyLog] = 0
    BY <2>1, RowIds DEF Init
  <2>4. ASSUME NEW e \in Episodes PROVE db[UserEpisode(e)] = 0
    <3>1. /\ UserEpisode(e) \notin {UserShow, UserStats}
          /\ UserEpisode(e) \notin {XpEvent(k) : k \in XpKeys}
      BY RowIds
    <3> QED BY <2>1, <3>1 DEF Init
  <2>5. ASSUME NEW k \in XpKeys PROVE db[XpEvent(k)] = FALSE
    <3>1. XpEvent(k) \notin {UserShow, UserStats}
      BY RowIds
    <3> QED BY <2>1, <3>1 DEF Init
  <2> QED BY <2>2, <2>3, <2>4, <2>5
<1>2. BaseOK(db)
  <2>1. NoEntry \in Entries /\ NewStats \in Stats
    BY DEF NoEntry, Entries, NewStats, Stats
  <2>2. /\ Typed(UserShow, db[UserShow]) /\ Typed(UserStats, db[UserStats])
        /\ Typed(Show, db[Show]) /\ Typed(DailyLog, db[DailyLog])
    BY <1>1, <2>1, TypedRows
  <2>3. ASSUME NEW e \in Episodes PROVE Typed(UserEpisode(e), db[UserEpisode(e)])
    BY <1>1, TypedRows
  <2>4. ASSUME NEW k \in XpKeys PROVE Typed(XpEvent(k), db[XpEvent(k)])
    BY <1>1, TypedRows
  <2>5. ASSUME NEW r \in Rows PROVE Typed(r, db[r])
    BY <2>2, <2>3, <2>4 DEF Rows
  <2> QED BY <1>1, <2>5 DEF BaseOK, RowsTyped
<1>3. tx = [c \in Clients |-> Idle] /\ calls = 0
  BY DEF Init
<1>4. CallsOK /\ Locked
  BY <1>3, NothingWritten DEF CallsOK, Locked
<1>5. XpPaidOnce
  <2>1. PaidKeys = {} /\ db[UserStats].xp = 0
    BY <1>1 DEF PaidKeys, NewStats
  <2> QED BY <2>1, WorthEmpty DEF XpPaidOnce
<1>6. Tracked(db) = {} /\ Cardinality({}) = 0
  BY <1>1, FS_EmptySet DEF Tracked
<1>7. VolumeExact /\ RowsPaid
  BY <1>1, <1>6 DEF VolumeExact, RowsPaid, NewStats
<1>8. MembersCounted
  <2>1. Members(NewStats.status) = 0
    BY DEF Members, NewStats, Statuses
  <2> QED BY <1>1, <1>6, <2>1 DEF MembersCounted
<1> QED BY <1>2, <1>3, <1>4, <1>5, <1>7, <1>8 DEF TxInv

----------------------------------------------------------------------------
\* In every reachable state, whatever requests are open and whichever are
\* rolled back, each open transaction sees the committed rows moved by exactly
\* what it has done so far, no two have written the same row, and the committed
\* counters are what the committed rows say.
THEOREM TxInvariant == Spec => []TxInv
<1>1. TxInv /\ [Next]_vars => TxInv'
  <2> SUFFICES ASSUME TxInv, [Next]_vars PROVE TxInv'
    OBVIOUS
  <2>1. CASE UNCHANGED vars
    BY <2>1 DEF vars, TxInv, BaseOK, CallsOK, Locked, XpPaidOnce, VolumeExact, RowsPaid,
               MembersCounted, PaidKeys, Tracked
  <2>2. CASE Next
    <3>1. PICK c \in Clients : Begin(c) \/ Statement(c) \/ Commit(c)
      BY <2>2 DEF Next, Statement
    <3>2. CASE Begin(c)
      BY <3>2, BeginKeeps
    <3>3. CASE Statement(c)
      BY <3>3, StatementOnward, OnwardKeeps
    <3>4. CASE Commit(c)
      BY <3>4, CommitEffect, CommitKeeps
    <3> QED BY <3>1, <3>2, <3>3, <3>4
  <2> QED BY <2>1, <2>2
<1> QED BY <1>1, InitTxInv, PTL DEF Spec

\* markWatched awards XP through awardXp, whose createMany skips events there
\* are already: whatever requests race for an episode, a season or the show,
\* xpTotal is the sum of the ledger's events.
THEOREM PaidOnce == Spec => []XpPaidOnce
<1>1. TxInv => XpPaidOnce
  BY DEF TxInv
<1> QED BY <1>1, TxInvariant, PTL

\* The episode counter and the day's log are moved by increments in
\* statements of their own; as long as rows come and go by marks and un-marks
\* only, both equal the number of rows.
THEOREM NoIncrementLost == Spec => []VolumeExact
<1>1. TxInv => VolumeExact
  BY DEF TxInv
<1> QED BY <1>1, TxInvariant, PTL

\* A mark pays for the rows watched since it began, the ones other requests
\* inserted included, so no row it commits is left without its event.
THEOREM EveryRowPaid == Spec => []RowsPaid
<1>1. TxInv => RowsPaid
  BY DEF TxInv
<1> QED BY <1>1, TxInvariant, PTL

\* memberCount and the status counters change in different statements, from
\* what the call read when it began; without removals they agree, and rows
\* have their entry, however creations race.
THEOREM MembersAgree == Spec => []MembersCounted
<1>1. TxInv => MembersCounted
  BY DEF TxInv
<1> QED BY <1>1, TxInvariant, PTL
=============================================================================
