------------------------- MODULE ReadCommittedProofs -------------------------
(***************************************************************************)
(* What the statements of ReadCommitted do to an open transaction, for the *)
(* proofs of the modules whose calls are made of them.                     *)
(***************************************************************************)
EXTENDS ReadCommitted, TLAPS

\* t is the record of an open call.
Wrote(t, r) == r \in DOMAIN t.mine

\* s is t gone on to next, its writes aside.
GoneOn(t, s, next) ==
  /\ DOMAIN s = DOMAIN t
  /\ \A f \in DOMAIN t \ {"mine"} : s[f] = IF f \in DOMAIN next THEN next[f] ELSE t[f]

\* s holds v at r, and whatever else t has written.
OneRow(t, s, r, v) ==
  /\ Wrote(s, r) /\ s.mine[r] = v
  /\ \A x : x # r => Wrote(s, x) = Wrote(t, x)
  /\ \A x : x # r /\ Wrote(t, x) => s.mine[x] = t.mine[x]

\* Clients other than c stay where they are.
Others(c) ==
  /\ tx' = [d \in Clients |-> tx'[d]]
  /\ \A d \in Clients \ {c} : tx'[d] = tx[d]

\* A row written is locked: no other open call has written it.
Locked ==
  \A c, d \in Clients : c # d => DOMAIN tx[c].mine \cap DOMAIN tx[d].mine = {}

----------------------------------------------------------------------------
LEMMA NothingWritten == DOMAIN Idle.mine = {} /\ Idle.pc = "idle"
BY DEF Idle

LEMMA OverTypes ==
  ASSUME NEW f, NEW g
  PROVE  /\ DOMAIN Over(f, g) = DOMAIN f \cup DOMAIN g
         /\ \A x \in DOMAIN f : Over(f, g)[x] = f[x]
         /\ \A x \in DOMAIN g : x \notin DOMAIN f => Over(f, g)[x] = g[x]
BY DEF Over

\* A statement sees the call's own writes and the committed rows.
LEMMA SeeEffect ==
  ASSUME NEW c \in Clients, DOMAIN tx[c].mine \subseteq DOMAIN db
  PROVE  /\ DOMAIN See(c) = DOMAIN db
         /\ \A r \in DOMAIN db :
              See(c)[r] = IF Wrote(tx[c], r) THEN tx[c].mine[r] ELSE db[r]
<1> DEFINE mine == tx[c].mine
<1>1. /\ DOMAIN Over(mine, db) = DOMAIN mine \cup DOMAIN db
      /\ \A x \in DOMAIN mine : Over(mine, db)[x] = mine[x]
      /\ \A x \in DOMAIN db : x \notin DOMAIN mine => Over(mine, db)[x] = db[x]
  BY OverTypes
<1> QED BY <1>1 DEF See, Wrote

LEMMA AdvanceEffect ==
  ASSUME tx = [d \in Clients |-> tx[d]], NEW c \in Clients,
         NEW next, DOMAIN next \subseteq DOMAIN tx[c], "mine" \notin DOMAIN next,
         "mine" \in DOMAIN tx[c], Advance(c, next)
  PROVE  /\ Others(c) /\ UNCHANGED db
         /\ GoneOn(tx[c], tx'[c], next) /\ tx'[c].mine = tx[c].mine
<1>1. tx' = [tx EXCEPT ![c] = Over(next, tx[c])] /\ UNCHANGED db
  BY DEF Advance
<1>2. tx'[c] = Over(next, tx[c]) /\ Others(c)
  BY <1>1 DEF Others
<1>3. /\ DOMAIN Over(next, tx[c]) = DOMAIN next \cup DOMAIN tx[c]
      /\ \A f \in DOMAIN next : Over(next, tx[c])[f] = next[f]
      /\ \A f \in DOMAIN tx[c] : f \notin DOMAIN next => Over(next, tx[c])[f] = tx[c][f]
  BY OverTypes
<1> QED BY <1>1, <1>2, <1>3 DEF GoneOn

LEMMA PutEffect ==
  ASSUME tx = [d \in Clients |-> tx[d]], NEW c \in Clients, NEW r, NEW v,
         NEW next, DOMAIN next \subseteq DOMAIN tx[c], "mine" \notin DOMAIN next,
         "mine" \in DOMAIN tx[c], Put(c, r, v, next)
  PROVE  /\ Others(c) /\ UNCHANGED db /\ Free(c, r)
         /\ GoneOn(tx[c], tx'[c], next) /\ OneRow(tx[c], tx'[c], r, v)
<1> DEFINE t == [tx[c] EXCEPT !.mine = With(tx[c].mine, r, v)]
           m == tx[c].mine
           n == tx'[c].mine
<1>1. tx' = [tx EXCEPT ![c] = Over(next, t)] /\ UNCHANGED db /\ Free(c, r)
  BY Zenon DEF Put
<1>2. tx'[c] = Over(next, t) /\ Others(c)
  BY <1>1 DEF Others
<1>3. /\ DOMAIN t = DOMAIN tx[c] /\ t.mine = With(tx[c].mine, r, v)
      /\ \A f \in DOMAIN tx[c] \ {"mine"} : t[f] = tx[c][f]
  OBVIOUS
<1> HIDE DEF t
<1>4. /\ DOMAIN Over(next, t) = DOMAIN next \cup DOMAIN t
      /\ \A f \in DOMAIN next : Over(next, t)[f] = next[f]
      /\ \A f \in DOMAIN t : f \notin DOMAIN next => Over(next, t)[f] = t[f]
  BY OverTypes
<1>5. GoneOn(tx[c], tx'[c], next) /\ n = With(m, r, v)
  BY <1>2, <1>3, <1>4 DEF GoneOn
<1>6. OneRow(tx[c], tx'[c], r, v)
  <2> HIDE DEF m, n
  <2>1. /\ DOMAIN n = DOMAIN m \cup {r}
        /\ n[r] = v
        /\ \A x \in DOMAIN m : x # r => n[x] = m[x]
    BY <1>5 DEF With
  <2> QED BY <2>1 DEF OneRow, Wrote, m, n
<1> QED BY <1>1, <1>2, <1>5, <1>6

LEMMA AbortEffect ==
  ASSUME tx = [d \in Clients |-> tx[d]], NEW c \in Clients, Abort(c)
  PROVE  Others(c) /\ UNCHANGED db /\ tx'[c] = Idle
BY DEF Abort, Others

LEMMA PublishEffect ==
  ASSUME tx = [d \in Clients |-> tx[d]], NEW c \in Clients,
         DOMAIN tx[c].mine \subseteq DOMAIN db, Publish(c)
  PROVE  /\ Others(c) /\ tx'[c] = Idle
         /\ DOMAIN db' = DOMAIN db
         /\ \A r \in DOMAIN db : db'[r] = IF Wrote(tx[c], r) THEN tx[c].mine[r] ELSE db[r]
<1>1. db' = See(c) /\ tx' = [tx EXCEPT ![c] = Idle]
  BY DEF Publish
<1> QED BY <1>1, SeeEffect DEF Others

\* Values written by the last statement and what was written before, committed.
LEMMA OverSeen ==
  ASSUME NEW c \in Clients, DOMAIN tx[c].mine \subseteq DOMAIN db,
         NEW values, DOMAIN values \subseteq DOMAIN db, db' = Over(values, See(c))
  PROVE  /\ DOMAIN db' = DOMAIN db
         /\ \A r \in DOMAIN db :
              db'[r] = IF r \in DOMAIN values THEN values[r]
                       ELSE IF Wrote(tx[c], r) THEN tx[c].mine[r] ELSE db[r]
<1> DEFINE seen == See(c)
<1>1. /\ DOMAIN db' = DOMAIN values \cup DOMAIN seen
      /\ \A r \in DOMAIN values : db'[r] = values[r]
      /\ \A r \in DOMAIN seen : r \notin DOMAIN values => db'[r] = seen[r]
  <2>1. db' = Over(values, seen)
    OBVIOUS
  <2> HIDE DEF seen
  <2>2. /\ DOMAIN Over(values, seen) = DOMAIN values \cup DOMAIN seen
        /\ \A r \in DOMAIN values : Over(values, seen)[r] = values[r]
        /\ \A r \in DOMAIN seen : r \notin DOMAIN values => Over(values, seen)[r] = seen[r]
    BY OverTypes
  <2> QED BY <2>1, <2>2
<1>2. /\ DOMAIN See(c) = DOMAIN db
      /\ \A r \in DOMAIN db :
           See(c)[r] = IF Wrote(tx[c], r) THEN tx[c].mine[r] ELSE db[r]
  BY SeeEffect
<1> QED BY <1>1, <1>2

LEMMA FinishEffect ==
  ASSUME tx = [d \in Clients |-> tx[d]], NEW c \in Clients, NEW values, Finish(c, values)
  PROVE  /\ Others(c) /\ tx'[c] = Idle /\ db' = Over(values, See(c))
         /\ \A r \in DOMAIN values : Free(c, r)
BY DEF Finish, Others

\* A call that writes only what is free, or already its own, keeps the locks.
LEMMA LockedKept ==
  ASSUME Locked, NEW c \in Clients, Others(c),
         \A r \in DOMAIN tx'[c].mine : Wrote(tx[c], r) \/ Free(c, r)
  PROVE  Locked'
<1>1. \A d \in Clients \ {c} : DOMAIN tx'[c].mine \cap DOMAIN tx'[d].mine = {}
  BY DEF Others, Wrote, Free, Locked
<1>2. \A d, e \in Clients \ {c} : d # e => DOMAIN tx'[d].mine \cap DOMAIN tx'[e].mine = {}
  BY DEF Others, Locked
<1> QED BY <1>1, <1>2 DEF Locked
=============================================================================
