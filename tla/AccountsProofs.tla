---------------------------- MODULE AccountsProofs ----------------------------
(***************************************************************************)
(* Accounts for any number of browsers, sessions, reset links and times a  *)
(* password is set.  The invariant has a part for each of the three things *)
(* that are promised: the links, the password, and the sessions in use.    *)
(*                                                                         *)
(* And the limiter that stands before signing in, asking for a link and    *)
(* the rest: it keeps its promise for any number of processes and calls,   *)
(* any limit and any window longer than a statement may be late.           *)
(***************************************************************************)
EXTENDS Accounts, RateLimit, FiniteSetTheorems, TLAPS

Statements == {"idle", "issue", "sweep", "create", "change", "end", "link", "confirm"}
Requests   == [pc : Statements, under : Nat, about : LinkIds \cup SessionIds \cup {None},
               seen : SUBSET LinkIds]
Sessions   == [left : Nat, quiet : Nat, under : Nat, owed : Nat]
LinkStates == {None, "live", "expired", "used", "deleted"}

TypeInv ==
  /\ scope \in Scopes
  /\ password \in Nat
  /\ session \in [SessionIds -> Sessions \cup {NoRow}]
  /\ link \in [LinkIds -> LinkStates]
  /\ request \in [Devices -> Requests]
  /\ slides \subseteq [of : SessionIds, age : 0..MaxDelay]
  /\ history \in [stale : BOOLEAN, crossed : BOOLEAN, twice : SUBSET LinkIds,
                  spent : [LinkIds -> Nat]]

\* A link nobody has used has set nothing; a confirmation under way of one
\* that has been used overlapped the one that used it.
SpentOnce ==
  /\ \A l \in LinkIds : link[l] \in {None, "live", "expired"} => history.spent[l] = 0
  /\ LinkWorksOnce
  /\ \A d \in Devices : At(d, "confirm") =>
       /\ request[d].about \in LinkIds /\ link[request[d].about] # None
       /\ link[request[d].about] = "used" => request[d].about \in history.twice

\* A request for a link that no other overlaps has seen every link there is.
LinkAlone ==
  ~history.crossed =>
    /\ \A d, e \in Devices : At(d, "link") /\ At(e, "link") => d = e
    /\ \A d \in Devices : At(d, "link") => Unused \subseteq request[d].seen
    /\ \A k, l \in Unused : k = l

\* Whoever has checked a password and is to be issued a session, and every
\* session, rests on the password there is; or a request that has set it is
\* about to end the sessions.
UnderPassword ==
  /\ password = 0 => Rows = {} /\ \A d \in Devices : ~At(d, "issue") /\ ~At(d, "end")
  /\ ~history.stale /\ (\A d \in Devices : ~At(d, "end")) =>
       /\ \A s \in Rows : session[s].under = password
       /\ \A d \in Devices : At(d, "issue") => request[d].under = password

\* A session too fresh to be slid has all but the quiet ticks left, and one
\* with no slide under way has what was promised.
SessionsKept ==
  \A s \in Rows :
    /\ session[s].owed <= Ttl - Threshold
    /\ session[s].quiet < Threshold => session[s].left + session[s].quiet >= Ttl
    /\ (\A slide \in slides : slide.of # s) => session[s].owed <= session[s].left

AccountsInv == TypeInv /\ SpentOnce /\ LinkAlone /\ UnderPassword /\ SessionsKept

----------------------------------------------------------------------------
(* Types.                                                                  *)

\* A request that goes on is as it was, but for where it is.
LEMMA Restart ==
  /\ Resting \in Requests /\ Resting.pc = "idle"
  /\ DOMAIN Resting = {"pc", "under", "about", "seen"}
BY DEF Resting, Requests, Statements

LEMMA Reached ==
  ASSUME NEW q \in Requests, NEW pc \in Statements
  PROVE  /\ [q EXCEPT !.pc = pc] \in Requests
         /\ [q EXCEPT !.pc = pc].pc = pc
         /\ [q EXCEPT !.pc = pc].under = q.under
BY DEF Requests

LEMMA ReachedUnder ==
  ASSUME NEW q \in Requests, NEW n \in Nat
  PROVE  /\ [q EXCEPT !.under = n] \in Requests
         /\ [q EXCEPT !.under = n].pc = q.pc
         /\ [q EXCEPT !.under = n].under = n
BY DEF Requests

LEMMA Begun ==
  ASSUME NEW pc \in Statements, NEW about \in LinkIds \cup SessionIds \cup {None}
  PROVE  /\ [Resting EXCEPT !.pc = pc, !.about = about] \in Requests
         /\ [Resting EXCEPT !.pc = pc, !.about = about].pc = pc
         /\ [Resting EXCEPT !.pc = pc, !.about = about].about = about
BY DEF Resting, Requests

LEMMA Gone ==
  ASSUME TypeInv, NEW d \in Devices, NEW next \in Requests, Go(d, next)
  PROVE  /\ request' \in [Devices -> Requests] /\ request'[d] = next
         /\ \A e \in Devices \ {d} : request'[e] = request[e]
BY DEF TypeInv, Go

\* Where the request of d is taken by each of its actions.
Ends(d, pcs, then) ==
  /\ request[d].pc \in pcs /\ request'[d].pc = then
  /\ request' \in [Devices -> Requests]
  /\ \A e \in Devices \ {d} : request'[e] = request[e]

LEMMA EndEffect ==
  ASSUME TypeInv, NEW d \in Devices, End(d)
  PROVE  Ends(d, Statements, "idle")
<1>1. Go(d, Resting) /\ request[d].pc \in Statements
  BY DEF End, TypeInv, Requests
<1> QED BY <1>1, Restart, Gone DEF Ends

LEMMA StepEffect ==
  ASSUME TypeInv, NEW d \in Devices, NEW pc \in Statements, Step(d, pc)
  PROVE  Ends(d, Statements, pc) /\ request'[d].under = request[d].under
<1>1. request[d] \in Requests /\ request[d].pc \in Statements
  BY DEF TypeInv, Requests
<1> DEFINE next == [request[d] EXCEPT !.pc = pc]
<1>2. Go(d, next)
  BY DEF Step
<1>3. next \in Requests /\ next.pc = pc /\ next.under = request[d].under
  BY <1>1, Reached
<1> HIDE DEF next
<1> QED BY <1>1, <1>2, <1>3, Gone DEF Ends

LEMMA StartsEffect ==
  ASSUME TypeInv, NEW d \in Devices, NEW pc \in Statements,
         NEW about \in LinkIds \cup SessionIds \cup {None}, Starts(d, pc, about)
  PROVE  Ends(d, {"idle"}, pc) /\ request'[d].about = about
<1> DEFINE next == [Resting EXCEPT !.pc = pc, !.about = about]
<1>1. request[d].pc = "idle" /\ Go(d, next)
  BY DEF Starts, At
<1>2. next \in Requests /\ next.pc = pc /\ next.about = about
  BY Begun
<1> HIDE DEF next
<1> QED BY <1>1, <1>2, Gone DEF Ends

LEMMA UnderEffect ==
  ASSUME TypeInv, NEW d \in Devices, NEW pc \in Statements, NEW n \in Nat,
         Go(d, [request[d] EXCEPT !.pc = pc, !.under = n])
  PROVE  Ends(d, Statements, pc) /\ request'[d].under = n
<1> DEFINE q    == [request[d] EXCEPT !.pc = pc]
           next == [q EXCEPT !.under = n]
<1>1. request[d] \in Requests /\ request[d].pc \in Statements
  BY DEF TypeInv, Requests
<1>2. q \in Requests /\ q.pc = pc
  BY <1>1, Reached
<1>3. Go(d, next)
  OBVIOUS
<1> HIDE DEF q
<1>4. next \in Requests /\ next.pc = pc /\ next.under = n
  BY <1>2, ReachedUnder
<1> HIDE DEF next
<1> QED BY <1>1, <1>3, <1>4, Gone DEF Ends

\* One row of the session table written.
LEMMA RowWritten ==
  ASSUME TypeInv, NEW s, NEW row \in Sessions \cup {NoRow},
         session' = [session EXCEPT ![s] = row]
  PROVE  session' \in [SessionIds -> Sessions \cup {NoRow}]
BY DEF TypeInv

\* A row there is, and its parts.
LEMMA RowThere ==
  ASSUME TypeInv
  PROVE  /\ \A s \in SessionIds : s \in Rows <=> session[s] \in Sessions
         /\ \A s \in Rows :
              /\ s \in SessionIds /\ session[s] \in Sessions
              /\ session[s].left \in Nat /\ session[s].quiet \in Nat
              /\ session[s].under \in Nat /\ session[s].owed \in Nat
         /\ NoRow \notin Sessions
<1>1. NoRow \notin Sessions
  BY DEF NoRow, Sessions
<1> QED BY <1>1 DEF TypeInv, Rows, Sessions

\* From where to where each action takes the request.
LEMMA Moves ==
  ASSUME TypeInv, NEW d \in Devices
  PROVE  /\ Issue(d) => Ends(d, {"issue"}, "idle")
         /\ VisitExpired(d) => Ends(d, {"idle"}, "sweep")
         /\ DeleteExpired(d) => Ends(d, {"sweep"}, "idle")
         /\ EndSessions(d) => Ends(d, {"end"}, "issue") /\ request'[d].under = request[d].under
         /\ RegisterFind(d) => Ends(d, {"idle"}, "create")
         /\ RegisterCreate(d) =>
              \/ Ends(d, {"create"}, "idle") /\ UNCHANGED password
              \/ /\ Ends(d, {"create"}, "issue") /\ request'[d].under = 1
                 /\ password = 0 /\ password' = 1
         /\ Login(d) => Ends(d, {"idle"}, "issue") /\ request'[d].under = password
         /\ ChangeCheck(d) => Ends(d, {"idle"}, "change")
         /\ ChangeWrite(d) => Ends(d, {"change"}, "end") /\ password' = password + 1
         /\ LinkDelete(d) => Ends(d, {"idle"}, "link") /\ request'[d].seen = Unused
         /\ LinkCreate(d) => Ends(d, {"link"}, "idle")
         /\ ConfirmCheck(d) => Ends(d, {"idle"}, "confirm")
         /\ Confirm(d) =>
              \/ Ends(d, {"confirm"}, "idle") /\ UNCHANGED <<password, link, history>>
              \/ Ends(d, {"confirm"}, "end") /\ password' = password + 1
         /\ Lose(d) => Ends(d, Statements \ {"idle"}, "idle")
<1>1. ASSUME Issue(d) PROVE Ends(d, {"issue"}, "idle")
  BY <1>1, EndEffect DEF Issue, At, Ends
<1>2. ASSUME VisitExpired(d) PROVE Ends(d, {"idle"}, "sweep")
  <2>1. Starts(d, "sweep", cookie[d].of) /\ cookie[d].of \in SessionIds
    BY <1>2 DEF VisitExpired, Rows
  <2> QED BY <2>1, StartsEffect DEF Statements
<1>3. ASSUME DeleteExpired(d) PROVE Ends(d, {"sweep"}, "idle")
  BY <1>3, EndEffect DEF DeleteExpired, At, Ends
<1>4. ASSUME EndSessions(d)
      PROVE  Ends(d, {"end"}, "issue") /\ request'[d].under = request[d].under
  <2>1. Step(d, "issue") /\ request[d].pc = "end" /\ "issue" \in Statements
    BY <1>4 DEF EndSessions, At, Statements
  <2> QED BY <2>1, StepEffect DEF Ends
<1>5. ASSUME RegisterFind(d) PROVE Ends(d, {"idle"}, "create")
  BY <1>5, StartsEffect DEF RegisterFind, Statements
<1>6. ASSUME RegisterCreate(d)
      PROVE  \/ Ends(d, {"create"}, "idle") /\ UNCHANGED password
             \/ /\ Ends(d, {"create"}, "issue") /\ request'[d].under = 1
                /\ password = 0 /\ password' = 1
  <2>1. request[d].pc = "create" /\ "issue" \in Statements /\ 1 \in Nat
    BY <1>6 DEF RegisterCreate, At, Statements
  <2>2. CASE password = 0
    <3>1. Go(d, [request[d] EXCEPT !.pc = "issue", !.under = 1]) /\ password' = 1
      BY <1>6, <2>2 DEF RegisterCreate
    <3> QED BY <2>1, <2>2, <3>1, UnderEffect DEF Ends
  <2>3. CASE password # 0
    <3>1. End(d) /\ UNCHANGED password
      BY <1>6, <2>3 DEF RegisterCreate
    <3> QED BY <2>1, <3>1, EndEffect DEF Ends
  <2> QED BY <2>2, <2>3
<1>7. ASSUME Login(d)
      PROVE  Ends(d, {"idle"}, "issue") /\ request'[d].under = password
  <2> DEFINE next == [[Resting EXCEPT !.pc = "issue"] EXCEPT !.under = password]
  <2>1. request[d].pc = "idle" /\ "issue" \in Statements /\ password \in Nat
    BY <1>7 DEF Login, At, Statements, TypeInv
  <2>2. Go(d, next)
    BY <1>7 DEF Login
  <2>3. next \in Requests /\ next.pc = "issue" /\ next.under = password
    <3> DEFINE q == [Resting EXCEPT !.pc = "issue"]
    <3>1. q \in Requests /\ q.pc = "issue"
      BY <2>1, Restart, Reached
    <3> HIDE DEF q
    <3>2. /\ [q EXCEPT !.under = password] \in Requests
          /\ [q EXCEPT !.under = password].pc = "issue"
          /\ [q EXCEPT !.under = password].under = password
      BY <2>1, <3>1, ReachedUnder
    <3> QED BY <3>2 DEF q
  <2> HIDE DEF next
  <2> QED BY <2>1, <2>2, <2>3, Gone DEF Ends
<1>8. ASSUME ChangeCheck(d) PROVE Ends(d, {"idle"}, "change")
  BY <1>8, StartsEffect DEF ChangeCheck, Statements
<1>9. ASSUME NEW from \in Statements, SetPassword(d), request[d].pc = from
      PROVE  Ends(d, {from}, "end") /\ password' = password + 1
  <2> DEFINE n == password + 1
  <2>1. /\ Go(d, [request[d] EXCEPT !.pc = "end", !.under = n]) /\ password' = n
        /\ n \in Nat /\ "end" \in Statements
    BY <1>9 DEF SetPassword, TypeInv, Statements
  <2> HIDE DEF n
  <2>2. Ends(d, {from}, "end") /\ password' = n
    BY <1>9, <2>1, UnderEffect DEF Ends
  <2> QED BY <2>2 DEF n
<1>10. ASSUME ChangeWrite(d)
       PROVE  Ends(d, {"change"}, "end") /\ password' = password + 1
  BY <1>9, <1>10 DEF ChangeWrite, At, Statements
<1>11. ASSUME LinkDelete(d)
       PROVE  Ends(d, {"idle"}, "link") /\ request'[d].seen = Unused
  <2> DEFINE next == [Resting EXCEPT !.pc = "link", !.seen = Unused]
  <2>1. Go(d, next) /\ request[d].pc = "idle" /\ Unused \in SUBSET LinkIds
    BY <1>11 DEF LinkDelete, At, Unused
  <2>2. next \in Requests /\ next.pc = "link" /\ next.seen = Unused
    BY <2>1 DEF Resting, Requests, Statements
  <2> HIDE DEF next
  <2> QED BY <2>1, <2>2, Gone DEF Ends
<1>12. ASSUME LinkCreate(d) PROVE Ends(d, {"link"}, "idle")
  BY <1>12, EndEffect DEF LinkCreate, At, Ends
<1>13. ASSUME ConfirmCheck(d) PROVE Ends(d, {"idle"}, "confirm")
  <2>1. PICK l \in LinkIds : Starts(d, "confirm", l)
    BY <1>13 DEF ConfirmCheck
  <2> QED BY <2>1, StartsEffect DEF Statements
<1>14. ASSUME Confirm(d)
       PROVE  \/ Ends(d, {"confirm"}, "idle") /\ UNCHANGED <<password, link, history>>
              \/ Ends(d, {"confirm"}, "end") /\ password' = password + 1
  <2>1. request[d].pc = "confirm" /\ "confirm" \in Statements
    BY <1>14 DEF Confirm, At, Statements
  <2>2. \/ End(d) /\ UNCHANGED <<password, link, history>>
        \/ SetPassword(d)
    BY <1>14 DEF Confirm, tables
  <2> QED BY <1>9, <2>1, <2>2, EndEffect DEF Ends
<1>15. ASSUME Lose(d) PROVE Ends(d, Statements \ {"idle"}, "idle")
  BY <1>15, EndEffect DEF Lose, At, Ends
<1> QED BY <1>1, <1>2, <1>3, <1>4, <1>5, <1>6, <1>7, <1>8, <1>10, <1>11, <1>12, <1>13, <1>14,
           <1>15

\* What a device does, and what becomes of a slide.
DeviceStep(d) ==
  \/ Issue(d) \/ Visit(d) \/ VisitExpired(d) \/ DeleteExpired(d) \/ CookieExpires(d) \/ Logout(d)
  \/ EndSessions(d) \/ RegisterFind(d) \/ RegisterCreate(d) \/ Login(d)
  \/ ChangeCheck(d) \/ ChangeWrite(d) \/ LinkDelete(d) \/ LinkCreate(d)
  \/ ConfirmCheck(d) \/ Confirm(d) \/ Lose(d)
SlideStep(slide) == SlideLands(slide) \/ SlideFails(slide)

\* A visit notes what it promises, and may start a slide.
LEMMA SeenEffect ==
  ASSUME TypeInv, NEW s \in Rows, Seen(s)
  PROVE  /\ session' \in [SessionIds -> Sessions \cup {NoRow}]
         /\ slides' \subseteq [of : SessionIds, age : 0..MaxDelay]
         /\ session'[s].owed = Ttl - Threshold /\ session'[s].left = session[s].left
         /\ session'[s].quiet = session[s].quiet /\ session'[s].under = session[s].under
         /\ \A r \in SessionIds \ {s} : session'[r] = session[r]
         /\ slides \subseteq slides'
         /\ \A slide \in slides' \ slides : slide.of = s
         /\ session[s].quiet >= Threshold => \E slide \in slides' : slide.of = s
<1>1. /\ s \in SessionIds /\ session[s] \in Sessions
      /\ Ttl - Threshold \in Nat /\ 0 \in 0..MaxDelay
  BY RowThere, AccountsAssumption
<1> DEFINE row == [session[s] EXCEPT !.owed = Ttl - Threshold]
<1>2. session' = [session EXCEPT ![s] = row]
  BY DEF Seen
<1>3. /\ row \in Sessions /\ row.owed = Ttl - Threshold /\ row.left = session[s].left
      /\ row.quiet = session[s].quiet /\ row.under = session[s].under
  BY <1>1 DEF Sessions
<1> HIDE DEF row
<1>4. /\ session' \in [SessionIds -> Sessions \cup {NoRow}]
      /\ session'[s] = row
      /\ \A r \in SessionIds \ {s} : session'[r] = session[r]
  BY <1>1, <1>2, <1>3 DEF TypeInv
<1>5. /\ slides' \subseteq [of : SessionIds, age : 0..MaxDelay]
      /\ slides \subseteq slides'
      /\ \A slide \in slides' \ slides : slide.of = s
      /\ session[s].quiet >= Threshold => \E slide \in slides' : slide.of = s
  <2>1. CASE session[s].quiet >= Threshold
    <3> DEFINE new == [of |-> s, age |-> 0]
    <3>1. slides' = slides \cup {new}
      BY <2>1 DEF Seen
    <3>2. new \in [of : SessionIds, age : 0..MaxDelay] /\ new.of = s
      BY <1>1
    <3> HIDE DEF new
    <3> QED BY <3>1, <3>2 DEF TypeInv
  <2>2. CASE ~(session[s].quiet >= Threshold)
    <3>1. slides' = slides
      BY <2>2 DEF Seen
    <3> QED BY <2>2, <3>1 DEF TypeInv
  <2> QED BY <2>1, <2>2
<1> QED BY <1>3, <1>4, <1>5

LEMMA DeviceTypes ==
  ASSUME TypeInv, SpentOnce, NEW d \in Devices, DeviceStep(d)
  PROVE  TypeInv'
<1>1. request' \in [Devices -> Requests]
  <2>1. \A pcs, then : Ends(d, pcs, then) => request' \in [Devices -> Requests]
    BY DEF Ends
  <2>2. CASE Visit(d) \/ CookieExpires(d) \/ Logout(d)
    BY <2>2 DEF Visit, CookieExpires, Logout, TypeInv
  <2>3. CASE ~(Visit(d) \/ CookieExpires(d) \/ Logout(d))
    BY <2>1, <2>3, Moves DEF DeviceStep
  <2> QED BY <2>2, <2>3
<1>2. password' \in Nat
  <2>1. CASE RegisterCreate(d) \/ ChangeWrite(d) \/ Confirm(d)
    BY <2>1, Moves DEF TypeInv
  <2>2. CASE ~(RegisterCreate(d) \/ ChangeWrite(d) \/ Confirm(d))
    <3>1. UNCHANGED password
      BY <2>2 DEF DeviceStep, Issue, Visit, VisitExpired, DeleteExpired, CookieExpires, Logout,
         EndSessions, RegisterFind, Login, ChangeCheck, LinkDelete, LinkCreate, ConfirmCheck,
         Lose, tables
    <3> QED BY <3>1 DEF TypeInv
  <2> QED BY <2>1, <2>2
<1>3. /\ session' \in [SessionIds -> Sessions \cup {NoRow}]
      /\ slides' \subseteq [of : SessionIds, age : 0..MaxDelay]
  <2>1. CASE Issue(d)
    <3>1. PICK s \in SessionIds :
            session' = [session EXCEPT ![s] = [left |-> Ttl, quiet |-> 0,
                                               under |-> request[d].under,
                                               owed |-> Ttl - Threshold]]
      BY <2>1 DEF Issue
    <3>2. [left |-> Ttl, quiet |-> 0, under |-> request[d].under, owed |-> Ttl - Threshold]
            \in Sessions
      BY AccountsAssumption DEF Sessions, TypeInv, Requests
    <3>3. UNCHANGED slides
      BY <2>1 DEF Issue
    <3> QED BY <3>1, <3>2, <3>3, RowWritten DEF TypeInv
  <2>2. CASE Visit(d)
    BY <2>2, SeenEffect DEF Visit, Valid
  <2>3. CASE ChangeCheck(d)
    BY <2>3, SeenEffect DEF ChangeCheck, Valid
  <2>4. CASE DeleteExpired(d) \/ Logout(d) \/ EndSessions(d)
    BY <2>4 DEF DeleteExpired, Logout, EndSessions, TypeInv
  <2>5. CASE \/ VisitExpired(d) \/ CookieExpires(d) \/ RegisterFind(d) \/ RegisterCreate(d)
             \/ Login(d) \/ ChangeWrite(d) \/ LinkDelete(d) \/ LinkCreate(d) \/ ConfirmCheck(d)
             \/ Confirm(d) \/ Lose(d)
    <3>1. UNCHANGED <<session, slides>>
      BY <2>5 DEF VisitExpired, CookieExpires, RegisterFind, RegisterCreate, Login, ChangeWrite,
         LinkDelete, LinkCreate, ConfirmCheck, Confirm, Lose, tables
    <3> QED BY <3>1 DEF TypeInv
  <2> QED BY <2>1, <2>2, <2>3, <2>4, <2>5 DEF DeviceStep
<1>4. link' \in [LinkIds -> LinkStates]
  <2>1. CASE LinkCreate(d)
    BY <2>1 DEF LinkCreate, TypeInv, LinkStates
  <2>2. CASE Confirm(d)
    BY <2>2 DEF Confirm, TypeInv, LinkStates, tables
  <2>3. CASE ~(LinkCreate(d) \/ Confirm(d))
    <3>1. UNCHANGED link
      BY <2>3 DEF DeviceStep, Issue, Visit, VisitExpired, DeleteExpired, CookieExpires, Logout,
         EndSessions, RegisterFind, RegisterCreate, Login, ChangeCheck, ChangeWrite, LinkDelete,
         ConfirmCheck, Lose, tables
    <3> QED BY <3>1 DEF TypeInv
  <2> QED BY <2>1, <2>2, <2>3
<1>5. history' \in [stale : BOOLEAN, crossed : BOOLEAN, twice : SUBSET LinkIds,
                    spent : [LinkIds -> Nat]]
  <2>1. CASE EndSessions(d)
    BY <2>1 DEF EndSessions, TypeInv, Overtaken
  <2>2. CASE LinkDelete(d)
    BY <2>2 DEF LinkDelete, TypeInv
  <2>3. CASE Lose(d)
    BY <2>3 DEF Lose, TypeInv, At
  <2>4. CASE Confirm(d)
    <3>1. PICK twice \in SUBSET LinkIds, spent \in [LinkIds -> Nat] :
            history' = history \/ history' = [history EXCEPT !.spent = spent, !.twice = twice]
      <4> DEFINE l     == request[d].about
                 spent == [k \in LinkIds |-> IF k \in Unused \cup {l}
                                              THEN history.spent[k] + 1 ELSE history.spent[k]]
                 twice == IF \E e \in Devices \ {d} : At(e, "confirm") /\ request[e].about = l
                          THEN history.twice \cup {l} ELSE history.twice
      <4>1. spent \in [LinkIds -> Nat] /\ history.twice \in SUBSET LinkIds
        BY DEF TypeInv
      <4>2. twice \in SUBSET LinkIds
        BY <2>4, <4>1 DEF SpentOnce, Confirm
      <4>3. history' = history \/ history' = [history EXCEPT !.spent = spent, !.twice = twice]
        BY <2>4 DEF Confirm
      <4> HIDE DEF spent, twice
      <4> QED BY <4>1, <4>2, <4>3
    <3> QED BY <3>1 DEF TypeInv
  <2>5. CASE ~(EndSessions(d) \/ LinkDelete(d) \/ Lose(d) \/ Confirm(d))
    <3>1. UNCHANGED history
      BY <2>5 DEF DeviceStep, Issue, Visit, VisitExpired, DeleteExpired, CookieExpires, Logout,
         RegisterFind, RegisterCreate, Login, ChangeCheck, ChangeWrite, LinkCreate,
         ConfirmCheck, tables
    <3> QED BY <3>1 DEF TypeInv
  <2> QED BY <2>1, <2>2, <2>3, <2>4, <2>5
<1>6. scope' \in Scopes
  <2>1. UNCHANGED scope
    BY DEF DeviceStep, Issue, Visit, VisitExpired, DeleteExpired, CookieExpires, Logout,
       EndSessions, RegisterFind, RegisterCreate, Login, ChangeCheck, ChangeWrite, LinkDelete,
       LinkCreate, ConfirmCheck, Confirm, Lose
  <2> QED BY <2>1 DEF TypeInv
<1> QED BY <1>1, <1>2, <1>3, <1>4, <1>5, <1>6 DEF TypeInv

\* A slide that lands says when it was begun, wherever its row still is.
LEMMA LandsEffect ==
  ASSUME TypeInv, NEW slide \in slides, SlideLands(slide)
  PROVE  /\ session' \in [SessionIds -> Sessions \cup {NoRow}]
         /\ slide.of \in SessionIds /\ slide.age \in 0..MaxDelay
         /\ \A s \in SessionIds \ {slide.of} : session'[s] = session[s]
         /\ slide.of \notin Rows => session'[slide.of] = session[slide.of]
         /\ slide.of \in Rows =>
              /\ session'[slide.of].left = Ttl - slide.age
              /\ session'[slide.of].quiet = slide.age
              /\ session'[slide.of].owed = session[slide.of].owed
              /\ session'[slide.of].under = session[slide.of].under
<1> DEFINE s   == slide.of
           age == slide.age
           row == [session[s] EXCEPT !.left = Ttl - age]
           new == [row EXCEPT !.quiet = age]
<1>1. slide \in [of : SessionIds, age : 0..MaxDelay]
  BY DEF TypeInv
<1>2. s \in SessionIds /\ age \in 0..MaxDelay /\ Ttl - age \in Nat /\ age \in Nat
  BY <1>1, AccountsAssumption
<1> HIDE DEF age
<1>3. ASSUME session[s] \in Sessions
      PROVE  /\ new \in Sessions /\ new.left = Ttl - age /\ new.quiet = age
             /\ new.owed = session[s].owed /\ new.under = session[s].under
  <2>1. /\ row \in Sessions /\ row.left = Ttl - age
        /\ row.owed = session[s].owed /\ row.under = session[s].under
    BY <1>2, <1>3 DEF Sessions
  <2> HIDE DEF row
  <2> QED BY <1>2, <2>1 DEF Sessions
<1>4. CASE s \in Rows
  <2>1. session[s] \in Sessions
    BY <1>4, RowThere
  <2>2. session' = [session EXCEPT ![s] = new]
    BY <1>4 DEF SlideLands, age
  <2> HIDE DEF new, s
  <2>3. session'[s] = new /\ \A r \in SessionIds \ {s} : session'[r] = session[r]
    BY <1>2, <2>2 DEF TypeInv
  <2>4. session' \in [SessionIds -> Sessions \cup {NoRow}]
    BY <1>3, <2>1, <2>2, RowWritten
  <2> QED BY <1>2, <1>3, <1>4, <2>1, <2>3, <2>4 DEF s, age
<1>5. CASE s \notin Rows
  <2>1. session' = session
    BY <1>5 DEF SlideLands
  <2> QED BY <1>2, <1>5, <2>1 DEF TypeInv, age
<1> QED BY <1>4, <1>5

\* Time passes for every row there is.
LEMMA TickEffect ==
  ASSUME TypeInv, Tick
  PROVE  /\ session' \in [SessionIds -> Sessions \cup {NoRow}]
         /\ \A s \in SessionIds \ Rows : session'[s] = NoRow
         /\ \A s \in Rows :
              /\ session'[s].left = IF session[s].left > 0 THEN session[s].left - 1 ELSE 0
              /\ session'[s].quiet = IF session[s].quiet < Threshold THEN session[s].quiet + 1
                                     ELSE session[s].quiet
              /\ session'[s].owed = IF session[s].owed > 0 THEN session[s].owed - 1 ELSE 0
              /\ session'[s].under = session[s].under
         /\ slides' \subseteq [of : SessionIds, age : 0..MaxDelay]
         /\ \A s \in SessionIds :
              (\A slide \in slides' : slide.of # s) => (\A slide \in slides : slide.of # s)
<1> DEFINE new(s) == [session[s] EXCEPT !.left = IF @ > 0 THEN @ - 1 ELSE 0,
                                        !.quiet = IF @ < Threshold THEN @ + 1 ELSE @,
                                        !.owed = IF @ > 0 THEN @ - 1 ELSE 0]
<1>1. session' = [s \in SessionIds |-> IF s \notin Rows THEN NoRow ELSE new(s)]
  BY DEF Tick
<1>2. ASSUME NEW s \in Rows
      PROVE  /\ new(s) \in Sessions
             /\ new(s).left = IF session[s].left > 0 THEN session[s].left - 1 ELSE 0
             /\ new(s).quiet = IF session[s].quiet < Threshold THEN session[s].quiet + 1
                               ELSE session[s].quiet
             /\ new(s).owed = IF session[s].owed > 0 THEN session[s].owed - 1 ELSE 0
             /\ new(s).under = session[s].under
  <2> DEFINE row  == session[s]
             left == IF row.left > 0 THEN row.left - 1 ELSE 0
             owed == IF row.owed > 0 THEN row.owed - 1 ELSE 0
             n    == IF row.quiet < Threshold THEN row.quiet + 1 ELSE row.quiet
             a    == [row EXCEPT !.left = left]
             b    == [a EXCEPT !.quiet = n]
             z    == [b EXCEPT !.owed = owed]
  <2>1. /\ row \in Sessions /\ row.left \in Nat /\ row.quiet \in Nat /\ row.owed \in Nat
        /\ Threshold \in Nat
    BY RowThere, AccountsAssumption
  <2>2. left \in Nat /\ owed \in Nat /\ n \in Nat
    BY <2>1
  <2>3. new(s) = z
    OBVIOUS
  <2> HIDE DEF left, owed, n, row, new
  <2>4. a \in Sessions /\ a.left = left /\ a.quiet = row.quiet /\ a.owed = row.owed /\ a.under = row.under
    BY <2>1, <2>2 DEF Sessions
  <2> HIDE DEF a
  <2>5. b \in Sessions /\ b.left = left /\ b.quiet = n /\ b.owed = row.owed /\ b.under = row.under
    BY <2>2, <2>4 DEF Sessions
  <2> HIDE DEF b
  <2>6. z \in Sessions /\ z.left = left /\ z.quiet = n /\ z.owed = owed /\ z.under = row.under
    BY <2>2, <2>5 DEF Sessions
  <2> HIDE DEF z
  <2> QED BY <2>3, <2>6 DEF left, owed, n, row
<1>3. Rows \subseteq SessionIds
  BY DEF Rows
<1>4. /\ slides' = {[slide EXCEPT !.age = @ + 1] : slide \in slides}
      /\ \A slide \in slides : slide.age < MaxDelay
  BY DEF Tick
<1>5. ASSUME NEW slide \in slides
      PROVE  /\ [slide EXCEPT !.age = @ + 1] \in [of : SessionIds, age : 0..MaxDelay]
             /\ [slide EXCEPT !.age = @ + 1].of = slide.of
  BY <1>4, AccountsAssumption DEF TypeInv
<1>6. slides' \subseteq [of : SessionIds, age : 0..MaxDelay]
  BY <1>4, <1>5
<1>7. ASSUME NEW s, \A slide \in slides' : slide.of # s, NEW slide \in slides
      PROVE  slide.of # s
  BY <1>4, <1>5, <1>7
<1> HIDE DEF new
<1> QED BY <1>1, <1>2, <1>3, <1>6, <1>7

Environment ==
  \/ \E slide \in slides : SlideStep(slide)
  \/ \E l \in LinkIds : LinkExpires(l)
  \/ Tick

LEMMA EnvironmentTypes ==
  ASSUME TypeInv, Environment
  PROVE  TypeInv'
<1>1. ASSUME NEW slide \in slides, SlideLands(slide) PROVE TypeInv'
  <2>1. session' \in [SessionIds -> Sessions \cup {NoRow}]
    BY <1>1, LandsEffect
  <2> QED BY <1>1, <2>1 DEF SlideLands, TypeInv
<1>2. ASSUME NEW slide \in slides, SlideFails(slide) PROVE TypeInv'
  <2>1. session' \in [SessionIds -> Sessions \cup {NoRow}]
    <3>1. CASE slide.of \in Rows
      <4>1. session[slide.of] \in Sessions
        BY <3>1, RowThere
      <4>2. [session[slide.of] EXCEPT !.owed = 0] \in Sessions
        BY <4>1 DEF Sessions
      <4>3. session' = [session EXCEPT ![slide.of] = [session[slide.of] EXCEPT !.owed = 0]]
        BY <1>2, <3>1 DEF SlideFails
      <4> QED BY <4>2, <4>3, RowWritten
    <3>2. CASE slide.of \notin Rows
      BY <1>2, <3>2 DEF SlideFails, TypeInv
    <3> QED BY <3>1, <3>2
  <2> QED BY <1>2, <2>1 DEF SlideFails, TypeInv
<1>3. ASSUME NEW l \in LinkIds, LinkExpires(l) PROVE TypeInv'
  BY <1>3 DEF LinkExpires, TypeInv, LinkStates
<1>4. ASSUME Tick PROVE TypeInv'
  <2>1. /\ session' \in [SessionIds -> Sessions \cup {NoRow}]
        /\ slides' \subseteq [of : SessionIds, age : 0..MaxDelay]
    BY <1>4, TickEffect
  <2>2. UNCHANGED <<scope, password, link, request, history>>
    BY <1>4 DEF Tick
  <2> QED BY <2>1, <2>2 DEF TypeInv
<1> QED BY <1>1, <1>2, <1>3, <1>4 DEF Environment, SlideStep

----------------------------------------------------------------------------
(* Reset links.                                                            *)

\* What leaves the links alone, and sends nobody to confirm one.
LEMMA SpentQuiet ==
  ASSUME SpentOnce, UNCHANGED link,
         history'.twice = history.twice, history'.spent = history.spent,
         \A e \in Devices : request'[e].pc = "confirm" => request'[e] = request[e]
  PROVE  SpentOnce'
BY DEF SpentOnce, LinkWorksOnce, At

LEMMA SpentDevice ==
  ASSUME AccountsInv, NEW d \in Devices, DeviceStep(d)
  PROVE  SpentOnce'
<1>1. TypeInv /\ SpentOnce
  BY DEF AccountsInv
<1>2. CASE LinkCreate(d)
  <2>1. PICK l \in Unborn :
          link' = [k \in LinkIds |-> CASE k = l -> "live"
                                       [] k \in request[d].seen \cap Unused -> "deleted"
                                       [] OTHER -> link[k]]
    BY <1>2 DEF LinkCreate
  <2>2. l \in LinkIds /\ link[l] = None
    <3>1. scope.links \subseteq LinkIds
      BY <1>1, AccountsAssumption DEF TypeInv
    <3> QED BY <3>1 DEF Unborn
  <2>3. \A k \in LinkIds : \/ k = l /\ link'[k] = "live"
                           \/ k # l /\ link'[k] = "deleted" /\ link[k] \in {"live", "expired"}
                           \/ k # l /\ link'[k] = link[k]
    <3>1. ASSUME NEW k \in LinkIds, k = l PROVE link'[k] = "live"
      BY <2>1, <2>2, <3>1 DEF Unused, None
    <3>2. ASSUME NEW k \in LinkIds, k # l, k \in request[d].seen \cap Unused
          PROVE  link'[k] = "deleted" /\ link[k] \in {"live", "expired"}
      BY <2>1, <3>2 DEF Unused
    <3>3. ASSUME NEW k \in LinkIds, k # l, k \notin request[d].seen \cap Unused
          PROVE  link'[k] = link[k]
      BY <2>1, <3>3
    <3> QED BY <3>1, <3>2, <3>3
  <2>4. UNCHANGED history
    BY <1>2 DEF LinkCreate
  <2>5. \A e \in Devices : request'[e].pc = "confirm" => request'[e] = request[e]
    BY <1>1, <1>2, Moves DEF Ends
  <2> QED BY <1>1, <2>2, <2>3, <2>4, <2>5 DEF SpentOnce, LinkWorksOnce, At, None
<1>3. CASE ConfirmCheck(d)
  <2>1. PICK l \in LinkIds : link[l] = "live" /\ Starts(d, "confirm", l)
    BY <1>3 DEF ConfirmCheck
  <2>2. /\ request'[d].about = l
        /\ \A e \in Devices \ {d} : request'[e] = request[e]
    BY <1>1, <2>1, StartsEffect DEF Ends, Statements
  <2>3. UNCHANGED <<link, history>>
    BY <1>3 DEF ConfirmCheck, tables
  <2> QED BY <1>1, <2>1, <2>2, <2>3 DEF SpentOnce, LinkWorksOnce, At, None
<1>4. CASE Confirm(d)
  <2> DEFINE l == request[d].about
  <2>1. l \in LinkIds /\ link[l] # None /\ (link[l] = "used" => l \in history.twice)
    BY <1>1, <1>4 DEF Confirm, SpentOnce
  <2>2. \A e \in Devices : request'[e].pc = "confirm" => e # d /\ request'[e] = request[e]
    BY <1>1, <1>4, Moves DEF Ends
  <2>3. CASE UNCHANGED <<link, history>>
    BY <1>1, <2>2, <2>3, SpentQuiet
  <2>4. CASE ~UNCHANGED <<link, history>>
    <3> DEFINE both == \E e \in Devices \ {d} : At(e, "confirm") /\ request[e].about = l
    <3>1. /\ link[l] # "deleted"
          /\ link' = [k \in LinkIds |-> IF k = l THEN "used"
                                        ELSE IF k \in Unused THEN "deleted" ELSE link[k]]
          /\ history' = [history EXCEPT
               !.spent = [k \in LinkIds |-> IF k \in Unused \cup {l} THEN @[k] + 1 ELSE @[k]],
               !.twice = IF both THEN @ \cup {l} ELSE @]
      BY <1>4, <2>4 DEF Confirm, tables
    <3>2. /\ history'.spent = [k \in LinkIds |-> IF k \in Unused \cup {l}
                                                 THEN history.spent[k] + 1 ELSE history.spent[k]]
          /\ history'.twice = IF both THEN history.twice \cup {l} ELSE history.twice
      BY <1>1, <3>1 DEF TypeInv
    <3>3. \A k \in LinkIds : k \in Unused <=> link[k] \in {"live", "expired"}
      BY DEF Unused
    <3>4. ASSUME NEW k \in LinkIds, link'[k] \in {None, "live", "expired"}
          PROVE  history'.spent[k] = 0
      BY <1>1, <3>1, <3>2, <3>3, <3>4 DEF SpentOnce, None
    <3>5. ASSUME NEW k \in LinkIds \ history'.twice
          PROVE  history'.spent[k] <= 1
      <4>1. k \notin history.twice /\ history.spent[k] <= 1
        BY <1>1, <3>2 DEF SpentOnce, LinkWorksOnce
      <4>2. CASE k \in Unused \cup {l}
        <5>1. link[k] \in {"live", "expired"}
          BY <1>1, <2>1, <3>1, <3>3, <4>1, <4>2 DEF TypeInv, LinkStates
        <5>2. history.spent[k] = 0
          BY <1>1, <5>1 DEF SpentOnce
        <5> QED BY <3>2, <4>2, <5>2
      <4>3. CASE k \notin Unused \cup {l}
        BY <3>2, <4>1, <4>3
      <4> QED BY <4>2, <4>3
    <3>6. ASSUME NEW e \in Devices, request'[e].pc = "confirm"
          PROVE  /\ request'[e].about \in LinkIds /\ link'[request'[e].about] # None
                 /\ link'[request'[e].about] = "used" => request'[e].about \in history'.twice
      <4>1. e # d /\ request'[e] = request[e] /\ At(e, "confirm")
        BY <2>2, <3>6 DEF At
      <4>2. /\ request[e].about \in LinkIds /\ link[request[e].about] # None
            /\ link[request[e].about] = "used" => request[e].about \in history.twice
        BY <1>1, <4>1 DEF SpentOnce
      <4>3. request[e].about = l => l \in history'.twice
        BY <3>2, <4>1
      <4> HIDE DEF l, both
      <4> QED BY <3>1, <3>2, <4>1, <4>2, <4>3 DEF None
    <3> QED BY <3>4, <3>5, <3>6 DEF SpentOnce, LinkWorksOnce, At
  <2> QED BY <2>3, <2>4
<1>5. CASE ~(LinkCreate(d) \/ ConfirmCheck(d) \/ Confirm(d))
  <2>1. UNCHANGED link
    BY <1>5 DEF DeviceStep, Issue, Visit, VisitExpired, DeleteExpired, CookieExpires, Logout,
       EndSessions, RegisterFind, RegisterCreate, Login, ChangeCheck, ChangeWrite, LinkDelete,
       Lose, tables
  <2>2. history'.twice = history.twice /\ history'.spent = history.spent
    BY <1>1, <1>5 DEF DeviceStep, Issue, Visit, VisitExpired, DeleteExpired, CookieExpires,
       Logout, EndSessions, RegisterFind, RegisterCreate, Login, ChangeCheck, ChangeWrite,
       LinkDelete, Lose, TypeInv
  <2>3. \A e \in Devices : request'[e].pc = "confirm" => request'[e] = request[e]
    <3>1. CASE Visit(d) \/ CookieExpires(d) \/ Logout(d)
      BY <3>1 DEF Visit, CookieExpires, Logout
    <3>2. CASE ~(Visit(d) \/ CookieExpires(d) \/ Logout(d))
      <4>1. \E then \in Statements \ {"confirm"} : \E pcs : Ends(d, pcs, then)
        BY <1>1, <1>5, <3>2, Moves DEF DeviceStep, Statements
      <4> QED BY <4>1 DEF Ends
    <3> QED BY <3>1, <3>2
  <2> QED BY <1>1, <2>1, <2>2, <2>3, SpentQuiet
<1> QED BY <1>2, <1>3, <1>4, <1>5

\* What leaves the links alone, and sends nobody to ask for one.
LEMMA AloneQuiet ==
  ASSUME LinkAlone, link' \in [LinkIds -> LinkStates], link \in [LinkIds -> LinkStates],
         \A k \in LinkIds : link'[k] \in {"live", "expired"} => link[k] \in {"live", "expired"},
         history'.crossed = history.crossed,
         \A e \in Devices : request'[e].pc = "link" => request'[e] = request[e]
  PROVE  LinkAlone'
<1>1. Unused' \subseteq Unused
  BY DEF Unused
<1> QED BY <1>1 DEF LinkAlone, At

LEMMA AloneDevice ==
  ASSUME AccountsInv, NEW d \in Devices, DeviceStep(d)
  PROVE  LinkAlone'
<1>1. TypeInv /\ TypeInv' /\ LinkAlone
  BY DeviceTypes DEF AccountsInv
<1>2. link \in [LinkIds -> LinkStates] /\ link' \in [LinkIds -> LinkStates]
  BY <1>1 DEF TypeInv
<1>3. CASE LinkDelete(d)
  <2>1. /\ request'[d].seen = Unused /\ request'[d].pc = "link"
        /\ \A e \in Devices \ {d} : request'[e] = request[e]
    BY <1>1, <1>3, Moves DEF Ends
  <2>2. UNCHANGED link
    BY <1>3 DEF LinkDelete, tables
  <2>3. Unused' = Unused
    BY <2>2 DEF Unused
  <2>4. history'.crossed = (history.crossed \/ \E e \in Devices \ {d} : At(e, "link"))
    BY <1>1, <1>3 DEF LinkDelete, TypeInv
  <2> SUFFICES ASSUME ~history'.crossed
               PROVE  /\ \A e, f \in Devices : At(e, "link")' /\ At(f, "link")' => e = f
                      /\ \A e \in Devices : At(e, "link")' => Unused' \subseteq request'[e].seen
                      /\ \A k, l \in Unused' : k = l
    BY DEF LinkAlone, At
  <2>5. ~history.crossed /\ \A e \in Devices \ {d} : request[e].pc # "link"
    BY <2>4 DEF At
  <2> QED BY <1>1, <2>1, <2>3, <2>5 DEF LinkAlone, At
<1>4. CASE LinkCreate(d)
  <2>1. PICK l \in Unborn :
          link' = [k \in LinkIds |-> CASE k = l -> "live"
                                       [] k \in request[d].seen \cap Unused -> "deleted"
                                       [] OTHER -> link[k]]
    BY <1>4 DEF LinkCreate
  <2>2. request[d].pc = "link" /\ UNCHANGED history
    BY <1>4 DEF LinkCreate, At
  <2>3. \A e \in Devices : request'[e].pc = "link" => e # d /\ request[e].pc = "link"
    BY <1>1, <1>4, Moves DEF Ends
  <2> SUFFICES ASSUME ~history.crossed
               PROVE  /\ \A e \in Devices : request'[e].pc # "link"
                      /\ \A k, m \in Unused' : k = m
    BY <2>2 DEF LinkAlone, At
  <2>4. \A e \in Devices : request'[e].pc # "link"
    BY <1>1, <2>2, <2>3 DEF LinkAlone, At
  <2>5. Unused \subseteq request[d].seen
    BY <1>1, <2>2 DEF LinkAlone, At
  <2>6. ASSUME NEW k \in LinkIds, k # l PROVE k \notin Unused'
    <3>1. CASE k \in Unused
      BY <2>1, <2>5, <2>6, <3>1 DEF Unused
    <3>2. CASE k \notin Unused
      BY <2>1, <2>6, <3>2 DEF Unused
    <3> QED BY <3>1, <3>2
  <2>7. \A k, m \in Unused' : k = m
    <3>1. Unused' \subseteq LinkIds
      BY DEF Unused
    <3> QED BY <2>6, <3>1
  <2> QED BY <2>4, <2>7
<1>5. CASE ~(LinkDelete(d) \/ LinkCreate(d))
  <2>1. \A k \in LinkIds : link'[k] \in {"live", "expired"} => link[k] \in {"live", "expired"}
    <3>1. CASE Confirm(d)
      BY <3>1 DEF Confirm, Unused, tables
    <3>2. CASE ~Confirm(d)
      BY <1>5, <3>2 DEF DeviceStep, Issue, Visit, VisitExpired, DeleteExpired, CookieExpires,
         Logout, EndSessions, RegisterFind, RegisterCreate, Login, ChangeCheck, ChangeWrite,
         ConfirmCheck, Lose, tables
    <3> QED BY <3>1, <3>2
  <2>2. history'.crossed = history.crossed
    BY <1>1, <1>5 DEF DeviceStep, Issue, Visit, VisitExpired, DeleteExpired, CookieExpires,
       Logout, EndSessions, RegisterFind, RegisterCreate, Login, ChangeCheck, ChangeWrite,
       ConfirmCheck, Confirm, Lose, TypeInv
  <2>3. \A e \in Devices : request'[e].pc = "link" => request'[e] = request[e]
    <3>1. CASE Visit(d) \/ CookieExpires(d) \/ Logout(d)
      BY <3>1 DEF Visit, CookieExpires, Logout
    <3>2. CASE ~(Visit(d) \/ CookieExpires(d) \/ Logout(d))
      <4>1. \E then \in Statements \ {"link"} : \E pcs : Ends(d, pcs, then)
        BY <1>1, <1>5, <3>2, Moves DEF DeviceStep, Statements
      <4> QED BY <4>1 DEF Ends
    <3> QED BY <3>1, <3>2
  <2> QED BY <1>1, <1>2, <2>1, <2>2, <2>3, AloneQuiet
<1> QED BY <1>3, <1>4, <1>5

LEMMA LinksEnvironment ==
  ASSUME AccountsInv, Environment
  PROVE  SpentOnce' /\ LinkAlone'
<1>1. TypeInv /\ SpentOnce /\ LinkAlone
  BY DEF AccountsInv
<1>2. UNCHANGED <<request, history>>
  BY DEF Environment, SlideStep, SlideLands, SlideFails, LinkExpires, Tick
<1>3. CASE UNCHANGED link
  <2>1. SpentOnce'
    BY <1>1, <1>2, <1>3, SpentQuiet
  <2>2. LinkAlone'
    BY <1>1, <1>2, <1>3 DEF LinkAlone, At, Unused
  <2> QED BY <2>1, <2>2
<1>4. CASE \E l \in LinkIds : LinkExpires(l)
  <2>1. PICK l \in LinkIds : link[l] = "live" /\ link' = [link EXCEPT ![l] = "expired"]
    BY <1>4 DEF LinkExpires
  <2>2. \A k \in LinkIds : IF k = l THEN link[k] = "live" /\ link'[k] = "expired"
                           ELSE link'[k] = link[k]
    BY <1>1, <2>1 DEF TypeInv
  <2>3. SpentOnce'
    BY <1>1, <1>2, <2>1, <2>2 DEF SpentOnce, LinkWorksOnce, At, None
  <2>4. Unused' = Unused
    BY <2>2 DEF Unused
  <2>5. LinkAlone'
    BY <1>1, <1>2, <2>4 DEF LinkAlone, At
  <2> QED BY <2>3, <2>5
<1> QED BY <1>3, <1>4 DEF Environment, SlideStep, SlideLands, SlideFails, Tick

----------------------------------------------------------------------------
(* The password sessions rest on.                                          *)

\* What sets no password, adds no session, and takes nobody to be issued one
\* or away from ending them.
LEMMA UnderQuiet ==
  ASSUME TypeInv, TypeInv', UnderPassword, UNCHANGED password,
         history'.stale = history.stale,
         \A s \in Rows' : s \in Rows /\ session'[s].under = session[s].under,
         \A e \in Devices : request'[e] # request[e] =>
           request[e].pc # "end" /\ request'[e].pc \notin {"issue", "end"}
  PROVE  UnderPassword'
<1>1. \A e \in Devices :
        /\ At(e, "issue")' => At(e, "issue") /\ request'[e] = request[e]
        /\ At(e, "end")' <=> At(e, "end")
  BY DEF At
<1> QED BY <1>1 DEF UnderPassword

\* A request that has just set the password is about to end the sessions.
LEMMA UnderSet ==
  ASSUME TypeInv, UnderPassword, NEW d \in Devices, NEW pcs, Ends(d, pcs, "end"),
         password' = password + 1
  PROVE  UnderPassword'
<1>1. password' # 0 /\ At(d, "end")'
  BY DEF TypeInv, Ends, At
<1> QED BY <1>1 DEF UnderPassword

LEMMA UnderDevice ==
  ASSUME AccountsInv, NEW d \in Devices, DeviceStep(d)
  PROVE  UnderPassword'
<1>1. TypeInv /\ TypeInv' /\ UnderPassword
  BY DeviceTypes DEF AccountsInv
<1>2. /\ \A s \in SessionIds : s \in Rows <=> session[s] # NoRow
      /\ \A s \in SessionIds : s \in Rows' <=> session'[s] # NoRow
      /\ Rows \subseteq SessionIds /\ Rows' \subseteq SessionIds
  BY DEF Rows
<1>3. CASE Issue(d)
  <2>1. PICK s \in SessionIds :
          session' = [session EXCEPT ![s] = [left |-> Ttl, quiet |-> 0,
                                             under |-> request[d].under,
                                             owed |-> Ttl - Threshold]]
    BY <1>3 DEF Issue
  <2>2. UNCHANGED <<password, history>>
    BY <1>3 DEF Issue
  <2>3. /\ request[d].pc = "issue" /\ request'[d].pc = "idle"
        /\ \A e \in Devices \ {d} : request'[e] = request[e]
    BY <1>1, <1>3, Moves DEF Ends
  <2>4. /\ session'[s].under = request[d].under
        /\ \A r \in SessionIds \ {s} : session'[r] = session[r]
    BY <1>1, <2>1 DEF TypeInv
  <2>5. password # 0
    BY <1>1, <2>3 DEF UnderPassword, At
  <2>6. ASSUME ~history.stale, \A e \in Devices : ~At(e, "end")'
        PROVE  /\ \A r \in Rows' : session'[r].under = password
               /\ \A e \in Devices : At(e, "issue")' => request'[e].under = password
    <3>1. \A e \in Devices : ~At(e, "end")
      BY <2>3, <2>6 DEF At
    <3>2. /\ \A r \in Rows : session[r].under = password
          /\ \A e \in Devices : At(e, "issue") => request[e].under = password
      BY <1>1, <2>6, <3>1 DEF UnderPassword
    <3>3. request[d].under = password
      BY <2>3, <3>2 DEF At
    <3>4. \A r \in Rows' : session'[r].under = password
      BY <1>2, <2>4, <3>2, <3>3
    <3> QED BY <2>3, <3>2, <3>4 DEF At
  <2> QED BY <2>2, <2>5, <2>6 DEF UnderPassword
<1>4. CASE EndSessions(d)
  <2>1. /\ request[d].pc = "end" /\ request'[d].pc = "issue"
        /\ request'[d].under = request[d].under
        /\ \A e \in Devices \ {d} : request'[e] = request[e]
    BY <1>1, <1>4, Moves DEF Ends
  <2>2. /\ session' = [s \in SessionIds |-> NoRow] /\ UNCHANGED password
        /\ history'.stale = (history.stale \/ Overtaken(d))
    BY <1>1, <1>4 DEF EndSessions, TypeInv
  <2>3. Rows' = {}
    BY <1>2, <2>2
  <2>4. password # 0
    BY <1>1, <2>1 DEF UnderPassword, At
  <2>5. ASSUME ~history'.stale, NEW e \in Devices, request'[e].pc = "issue"
        PROVE  request'[e].under = password
    <3>1. /\ request[d].under = password
          /\ \A f \in Devices \ {d} : request[f].pc # "issue"
      BY <2>2, <2>5 DEF Overtaken, At
    <3> QED BY <2>1, <2>5, <3>1
  <2> QED BY <2>2, <2>3, <2>4, <2>5 DEF UnderPassword, At
<1>5. CASE RegisterCreate(d)
  <2>1. UNCHANGED <<session, history>>
    BY <1>5 DEF RegisterCreate
  <2>2. CASE Ends(d, {"create"}, "idle") /\ UNCHANGED password
    <3>1. \A e \in Devices : request'[e] # request[e] =>
            request[e].pc # "end" /\ request'[e].pc \notin {"issue", "end"}
      BY <2>2 DEF Ends
    <3> QED BY <1>1, <1>2, <2>1, <2>2, <3>1, UnderQuiet
  <2>3. CASE /\ Ends(d, {"create"}, "issue") /\ request'[d].under = 1
             /\ password = 0 /\ password' = 1
    <3>1. Rows = {} /\ \A e \in Devices : ~At(e, "issue")
      BY <1>1, <2>3 DEF UnderPassword
    <3>2. Rows' = {}
      BY <2>1, <3>1 DEF Rows
    <3> QED BY <2>3, <3>1, <3>2 DEF UnderPassword, At, Ends
  <2> QED BY <1>1, <1>5, <2>2, <2>3, Moves
<1>6. CASE Login(d)
  <2>1. /\ request[d].pc = "idle" /\ request'[d].pc = "issue" /\ request'[d].under = password
        /\ \A e \in Devices \ {d} : request'[e] = request[e]
    BY <1>1, <1>6, Moves DEF Ends
  <2>2. password # 0 /\ UNCHANGED <<password, session, history>>
    BY <1>1, <1>6 DEF Login, tables, TypeInv
  <2>3. Rows' = Rows
    BY <2>2 DEF Rows
  <2> QED BY <1>1, <2>1, <2>2, <2>3 DEF UnderPassword, At
<1>7. CASE ChangeWrite(d)
  BY <1>1, <1>7, Moves, UnderSet
<1>8. CASE Confirm(d)
  <2>1. CASE Ends(d, {"confirm"}, "idle") /\ UNCHANGED <<password, link, history>>
    <3>1. \A e \in Devices : request'[e] # request[e] =>
            request[e].pc # "end" /\ request'[e].pc \notin {"issue", "end"}
      BY <2>1 DEF Ends
    <3>2. UNCHANGED session
      BY <1>8 DEF Confirm, tables
    <3> QED BY <1>1, <1>2, <2>1, <3>1, <3>2, UnderQuiet
  <2> QED BY <1>1, <1>8, <2>1, Moves, UnderSet
<1>9. CASE Lose(d)
  <2>1. UNCHANGED <<password, session>> /\ history'.stale = (history.stale \/ At(d, "end"))
    BY <1>1, <1>9 DEF Lose, tables, TypeInv
  <2>2. /\ request'[d].pc = "idle"
        /\ \A e \in Devices \ {d} : request'[e] = request[e]
    BY <1>1, <1>9, Moves DEF Ends
  <2>3. Rows' = Rows
    BY <2>1 DEF Rows
  <2> QED BY <1>1, <2>1, <2>2, <2>3 DEF UnderPassword, At
<1>10. CASE \/ Visit(d) \/ VisitExpired(d) \/ DeleteExpired(d) \/ CookieExpires(d) \/ Logout(d)
            \/ RegisterFind(d) \/ ChangeCheck(d) \/ LinkDelete(d) \/ LinkCreate(d)
            \/ ConfirmCheck(d)
  <2>1. UNCHANGED password /\ history'.stale = history.stale
    BY <1>1, <1>10 DEF Visit, VisitExpired, DeleteExpired, CookieExpires, Logout, RegisterFind,
       ChangeCheck, LinkDelete, LinkCreate, ConfirmCheck, tables, TypeInv
  <2>2. \A s \in Rows' : s \in Rows /\ session'[s].under = session[s].under
    <3>1. CASE Visit(d) \/ ChangeCheck(d)
      <4>1. PICK s \in Rows : Seen(s)
        BY <3>1 DEF Visit, ChangeCheck, Valid
      <4>2. /\ session'[s].under = session[s].under
            /\ \A r \in SessionIds \ {s} : session'[r] = session[r]
        BY <1>1, <4>1, SeenEffect
      <4> QED BY <1>2, <4>2
    <3>2. CASE DeleteExpired(d) \/ Logout(d)
      <4>1. \A s \in SessionIds : session'[s] = session[s] \/ session'[s] = NoRow
        BY <1>1, <3>2 DEF DeleteExpired, Logout, TypeInv
      <4> QED BY <1>2, <4>1
    <3>3. CASE UNCHANGED session
      BY <1>2, <3>3
    <3> QED BY <1>10, <3>1, <3>2, <3>3
            DEF VisitExpired, CookieExpires, RegisterFind, LinkDelete, LinkCreate,
                ConfirmCheck, tables
  <2>3. \A e \in Devices : request'[e] # request[e] =>
          request[e].pc # "end" /\ request'[e].pc \notin {"issue", "end"}
    <3>1. CASE Visit(d) \/ CookieExpires(d) \/ Logout(d)
      BY <3>1 DEF Visit, CookieExpires, Logout
    <3>2. CASE ~(Visit(d) \/ CookieExpires(d) \/ Logout(d))
      <4>1. \E then \in Statements \ {"issue", "end"}, pcs \in SUBSET (Statements \ {"end"}) :
              Ends(d, pcs, then)
        BY <1>1, <1>10, <3>2, Moves DEF Statements
      <4> QED BY <4>1 DEF Ends
    <3> QED BY <3>1, <3>2
  <2> QED BY <1>1, <2>1, <2>2, <2>3, UnderQuiet
<1> QED BY <1>3, <1>4, <1>5, <1>6, <1>7, <1>8, <1>9, <1>10 DEF DeviceStep

LEMMA UnderEnvironment ==
  ASSUME AccountsInv, Environment
  PROVE  UnderPassword'
<1>1. TypeInv /\ TypeInv' /\ UnderPassword
  BY EnvironmentTypes DEF AccountsInv
<1>2. /\ \A s \in SessionIds : s \in Rows <=> session[s] # NoRow
      /\ \A s \in SessionIds : s \in Rows' <=> session'[s] # NoRow
      /\ Rows \subseteq SessionIds /\ Rows' \subseteq SessionIds
  BY DEF Rows
<1>3. UNCHANGED <<password, request, history>>
  BY DEF Environment, SlideStep, SlideLands, SlideFails, LinkExpires, Tick
<1>4. \A s \in Rows' : s \in Rows /\ session'[s].under = session[s].under
  <2>1. ASSUME NEW slide \in slides, SlideLands(slide)
        PROVE  \A s \in Rows' : s \in Rows /\ session'[s].under = session[s].under
    <3>1. /\ \A s \in SessionIds \ {slide.of} : session'[s] = session[s]
          /\ slide.of \notin Rows => session'[slide.of] = session[slide.of]
          /\ slide.of \in Rows => session'[slide.of].under = session[slide.of].under
      BY <1>1, <2>1, LandsEffect
    <3> QED BY <1>2, <3>1
  <2>2. ASSUME NEW slide \in slides, SlideFails(slide)
        PROVE  \A s \in Rows' : s \in Rows /\ session'[s].under = session[s].under
    <3>1. CASE slide.of \in Rows
      <4>1. session' = [session EXCEPT ![slide.of] = [session[slide.of] EXCEPT !.owed = 0]]
        BY <2>2, <3>1 DEF SlideFails
      <4>2. /\ \A s \in SessionIds \ {slide.of} : session'[s] = session[s]
            /\ session'[slide.of].under = session[slide.of].under
        BY <1>1, <1>2, <3>1, <4>1, RowThere DEF TypeInv, Sessions
      <4> QED BY <1>2, <3>1, <4>2
    <3>2. CASE slide.of \notin Rows
      BY <1>2, <2>2, <3>2 DEF SlideFails
    <3> QED BY <3>1, <3>2
  <2>3. ASSUME Tick
        PROVE  \A s \in Rows' : s \in Rows /\ session'[s].under = session[s].under
    <3>1. /\ \A s \in SessionIds \ Rows : session'[s] = NoRow
          /\ \A s \in Rows : session'[s].under = session[s].under
      BY <1>1, <2>3, TickEffect
    <3> QED BY <1>2, <3>1
  <2>4. ASSUME NEW l \in LinkIds, LinkExpires(l)
        PROVE  \A s \in Rows' : s \in Rows /\ session'[s].under = session[s].under
    BY <1>2, <2>4 DEF LinkExpires
  <2> QED BY <2>1, <2>2, <2>3, <2>4 DEF Environment, SlideStep
<1> QED BY <1>1, <1>3, <1>4, UnderQuiet

----------------------------------------------------------------------------
(* Sessions in use.                                                        *)

\* What the invariant says of one row of a table.
Kept(row, sliding) ==
  /\ row.owed <= Ttl - Threshold
  /\ row.quiet < Threshold => row.left + row.quiet >= Ttl
  /\ ~sliding => row.owed <= row.left

Sliding(of, s) == \E slide \in of : slide.of = s

LEMMA KeptAll ==
  SessionsKept <=> \A s \in Rows : Kept(session[s], Sliding(slides, s))
BY DEF SessionsKept, Kept, Sliding

LEMMA KeptAllNext ==
  SessionsKept' <=> \A s \in Rows' : Kept(session'[s], Sliding(slides', s))
BY DEF SessionsKept, Kept, Sliding

\* Rows may go, and rows left alone keep what they had.
LEMMA KeptQuiet ==
  ASSUME SessionsKept,
         \A s \in Rows' : /\ s \in Rows /\ session'[s] = session[s]
                          /\ Sliding(slides', s) = Sliding(slides, s)
  PROVE  SessionsKept'
BY KeptAll, KeptAllNext

LEMMA KeptSeen ==
  ASSUME TypeInv, TypeInv', SessionsKept, NEW s \in Rows, Seen(s)
  PROVE  SessionsKept'
<1>1. /\ session'[s].owed = Ttl - Threshold /\ session'[s].left = session[s].left
      /\ session'[s].quiet = session[s].quiet
      /\ \A r \in SessionIds \ {s} : session'[r] = session[r]
      /\ slides \subseteq slides'
      /\ \A slide \in slides' \ slides : slide.of = s
      /\ session[s].quiet >= Threshold => \E slide \in slides' : slide.of = s
  BY SeenEffect
<1>2. /\ session[s].left \in Nat /\ session[s].quiet \in Nat
      /\ Ttl \in Nat /\ Threshold \in Nat
  BY RowThere, AccountsAssumption
<1>3. session[s].quiet < Threshold => session[s].left + session[s].quiet >= Ttl
  BY DEF SessionsKept
<1>4. Kept(session'[s], Sliding(slides', s))
  <2>1. session[s].quiet >= Threshold => Sliding(slides', s)
    BY <1>1 DEF Sliding
  <2>2. session[s].quiet < Threshold => Ttl - Threshold <= session[s].left
    BY <1>2, <1>3
  <2>3. Ttl - Threshold <= Ttl - Threshold
    BY <1>2
  <2> QED BY <1>1, <1>2, <1>3, <2>1, <2>2, <2>3 DEF Kept
<1>5. ASSUME NEW r \in Rows', r # s PROVE Kept(session'[r], Sliding(slides', r))
  <2>1. r \in Rows /\ session'[r] = session[r]
    BY <1>1, <1>5 DEF Rows
  <2>2. Sliding(slides', r) <=> Sliding(slides, r)
    BY <1>1, <1>5 DEF Sliding
  <2>3. Kept(session[r], Sliding(slides, r))
    BY <2>1, KeptAll
  <2> QED BY <2>1, <2>2, <2>3 DEF Kept
<1> QED BY <1>4, <1>5, KeptAllNext

LEMMA KeptDevice ==
  ASSUME AccountsInv, NEW d \in Devices, DeviceStep(d)
  PROVE  SessionsKept'
<1>1. TypeInv /\ TypeInv' /\ SessionsKept
  BY DeviceTypes DEF AccountsInv
<1>2. CASE Issue(d)
  <2> DEFINE row == [left |-> Ttl, quiet |-> 0, under |-> request[d].under,
                     owed |-> Ttl - Threshold]
  <2>1. PICK s \in SessionIds :
          session' = [session EXCEPT ![s] = row]
    BY <1>2 DEF Issue
  <2>2. UNCHANGED slides
    BY <1>2 DEF Issue
  <2>3. \A z : Kept(row, z)
    BY AccountsAssumption DEF Kept
  <2> HIDE DEF row
  <2>4. session'[s] = row /\ \A r \in SessionIds \ {s} : session'[r] = session[r]
    BY <1>1, <2>1 DEF TypeInv
  <2>5. ASSUME NEW r \in Rows' PROVE Kept(session'[r], Sliding(slides', r))
    <3>1. CASE r = s
      BY <2>3, <2>4, <3>1
    <3>2. CASE r # s
      <4>1. r \in Rows /\ session'[r] = session[r]
        BY <2>4, <3>2 DEF Rows
      <4> QED BY <1>1, <2>2, <4>1, KeptAll
    <3> QED BY <3>1, <3>2
  <2> QED BY <2>5, KeptAllNext
<1>3. CASE Visit(d) \/ ChangeCheck(d)
  <2>1. PICK s \in Rows : Seen(s)
    BY <1>3 DEF Visit, ChangeCheck, Valid
  <2> QED BY <1>1, <2>1, KeptSeen
<1>4. CASE DeleteExpired(d) \/ Logout(d) \/ EndSessions(d)
  <2>1. \A s \in SessionIds : session'[s] = session[s] \/ session'[s] = NoRow
    BY <1>1, <1>4 DEF DeleteExpired, Logout, EndSessions, TypeInv
  <2>2. UNCHANGED slides
    BY <1>4 DEF DeleteExpired, Logout, EndSessions
  <2> QED BY <1>1, <2>1, <2>2, KeptQuiet DEF Rows
<1>5. CASE UNCHANGED <<session, slides>>
  BY <1>1, <1>5, KeptQuiet DEF Rows
<1> QED BY <1>2, <1>3, <1>4, <1>5
        DEF DeviceStep, VisitExpired, CookieExpires, RegisterFind, RegisterCreate, Login,
            ChangeWrite, LinkDelete, LinkCreate, ConfirmCheck, Confirm, Lose, tables

LEMMA KeptEnvironment ==
  ASSUME AccountsInv, Environment
  PROVE  SessionsKept'
<1>1. TypeInv /\ TypeInv' /\ SessionsKept
  BY EnvironmentTypes DEF AccountsInv
<1>2. /\ Ttl \in Nat /\ Threshold \in Nat /\ MaxDelay \in Nat
      /\ MaxDelay <= Threshold /\ Threshold < Ttl
  BY AccountsAssumption
<1>3. ASSUME NEW slide \in slides, SlideLands(slide) PROVE SessionsKept'
  <2> DEFINE s == slide.of
             n == slide.age
  <2>1. /\ s \in SessionIds /\ n \in 0..MaxDelay
        /\ \A r \in SessionIds \ {s} : session'[r] = session[r]
        /\ s \notin Rows => session'[s] = session[s]
        /\ s \in Rows => /\ session'[s].left = Ttl - n /\ session'[s].quiet = n
                         /\ session'[s].owed = session[s].owed
    BY <1>1, <1>3, LandsEffect
  <2>2. slides' = slides \ {slide}
    BY <1>3 DEF SlideLands
  <2>3. ASSUME s \in Rows PROVE Kept(session'[s], Sliding(slides', s))
    <3>1. session[s].owed <= Ttl - Threshold /\ session[s].owed \in Nat
      BY <1>1, <2>3, RowThere DEF SessionsKept
    <3> HIDE DEF s, n
    <3>2. session[s].owed <= Ttl - n /\ (Ttl - n) + n >= Ttl
      BY <1>2, <2>1, <3>1
    <3> QED BY <2>1, <2>3, <3>1, <3>2 DEF Kept
  <2>4. ASSUME NEW r \in Rows', r # s PROVE Kept(session'[r], Sliding(slides', r))
    <3>1. r \in Rows /\ session'[r] = session[r]
      BY <2>1, <2>4 DEF Rows
    <3>2. Sliding(slides', r) <=> Sliding(slides, r)
      BY <2>2, <2>4 DEF Sliding
    <3>3. Kept(session[r], Sliding(slides, r))
      BY <1>1, <3>1, KeptAll
    <3> QED BY <3>1, <3>2, <3>3 DEF Kept
  <2>5. s \in Rows' => s \in Rows
    BY <2>1 DEF Rows
  <2> QED BY <2>3, <2>4, <2>5, KeptAllNext
<1>4. ASSUME NEW slide \in slides, SlideFails(slide) PROVE SessionsKept'
  <2> DEFINE s == slide.of
  <2>1. slides' = slides \ {slide} /\ s \in SessionIds
    BY <1>1, <1>4 DEF SlideFails, TypeInv
  <2>2. CASE s \in Rows
    <3>1. session' = [session EXCEPT ![s] = [session[s] EXCEPT !.owed = 0]]
      BY <1>4, <2>2 DEF SlideFails
    <3>2. /\ session[s] \in Sessions /\ session[s].left \in Nat
          /\ session[s].quiet < Threshold => session[s].left + session[s].quiet >= Ttl
      BY <1>1, <2>2, RowThere DEF SessionsKept
    <3>3. /\ session'[s].owed = 0 /\ session'[s].left = session[s].left
          /\ session'[s].quiet = session[s].quiet
          /\ \A r \in SessionIds \ {s} : session'[r] = session[r]
      BY <1>1, <2>1, <3>1, <3>2 DEF TypeInv, Sessions
    <3>4. Kept(session'[s], Sliding(slides', s))
      <4>1. 0 <= Ttl - Threshold /\ 0 <= session[s].left
        BY <1>2, <3>2
      <4> QED BY <3>2, <3>3, <4>1 DEF Kept
    <3>5. ASSUME NEW r \in Rows', r # s PROVE Kept(session'[r], Sliding(slides', r))
      <4>1. r \in Rows /\ session'[r] = session[r]
        BY <3>3, <3>5 DEF Rows
      <4>2. Sliding(slides', r) <=> Sliding(slides, r)
        BY <2>1, <3>5 DEF Sliding
      <4>3. Kept(session[r], Sliding(slides, r))
        BY <1>1, <4>1, KeptAll
      <4> QED BY <4>1, <4>2, <4>3 DEF Kept
    <3> QED BY <3>4, <3>5, KeptAllNext
  <2>3. CASE s \notin Rows
    <3>1. UNCHANGED session
      BY <1>4, <2>3 DEF SlideFails
    <3>2. Rows' = Rows
      BY <3>1 DEF Rows
    <3>3. \A r \in Rows : Sliding(slides', r) = Sliding(slides, r)
      BY <2>1, <2>3 DEF Sliding
    <3> QED BY <1>1, <3>1, <3>2, <3>3, KeptQuiet
  <2> QED BY <2>2, <2>3
<1>5. ASSUME Tick PROVE SessionsKept'
  <2>1. /\ \A s \in SessionIds \ Rows : session'[s] = NoRow
        /\ \A s \in Rows :
             /\ session'[s].left = IF session[s].left > 0 THEN session[s].left - 1 ELSE 0
             /\ session'[s].quiet = IF session[s].quiet < Threshold THEN session[s].quiet + 1
                                    ELSE session[s].quiet
             /\ session'[s].owed = IF session[s].owed > 0 THEN session[s].owed - 1 ELSE 0
        /\ \A s \in SessionIds :
             (\A slide \in slides' : slide.of # s) => (\A slide \in slides : slide.of # s)
    BY <1>1, <1>5, TickEffect
  <2>2. ASSUME NEW s \in Rows' PROVE Kept(session'[s], Sliding(slides', s))
    <3>1. s \in Rows /\ s \in SessionIds
      BY <2>1 DEF Rows
    <3>2. /\ session[s].left \in Nat /\ session[s].quiet \in Nat /\ session[s].owed \in Nat
      BY <1>1, <3>1, RowThere
    <3>3. /\ session[s].owed <= Ttl - Threshold
          /\ session[s].quiet < Threshold => session[s].left + session[s].quiet >= Ttl
          /\ ~Sliding(slides, s) => session[s].owed <= session[s].left
      BY <1>1, <3>1, KeptAll DEF Kept
    <3>4. ~Sliding(slides', s) => ~Sliding(slides, s)
      BY <2>1, <3>1 DEF Sliding
    <3> DEFINE a == session[s].left
               b == session[s].quiet
               o == session[s].owed
               x == session'[s].left
               y == session'[s].quiet
               z == session'[s].owed
    <3>5. /\ x = IF a > 0 THEN a - 1 ELSE 0
          /\ y = IF b < Threshold THEN b + 1 ELSE b
          /\ z = IF o > 0 THEN o - 1 ELSE 0
      BY <2>1, <3>1
    <3>6. z <= Ttl - Threshold /\ (y < Threshold => x + y >= Ttl)
          /\ (~Sliding(slides', s) => z <= x)
      <4> HIDE DEF x, y, z
      <4>1. a \in Nat /\ b \in Nat /\ o \in Nat /\ o <= Ttl - Threshold
            /\ (b < Threshold => a + b >= Ttl) /\ (~Sliding(slides', s) => o <= a)
        BY <3>2, <3>3, <3>4
      <4> HIDE DEF a, b, o
      <4>2. z <= Ttl - Threshold
        BY <1>2, <3>5, <4>1
      <4>3. y < Threshold => x + y >= Ttl
        BY <1>2, <3>5, <4>1
      <4>4. ~Sliding(slides', s) => z <= x
        BY <3>5, <4>1
      <4> QED BY <4>2, <4>3, <4>4
    <3> QED BY <3>6 DEF Kept
  <2> QED BY <2>2, KeptAllNext
<1>6. ASSUME NEW l \in LinkIds, LinkExpires(l) PROVE SessionsKept'
  BY <1>1, <1>6, KeptQuiet DEF LinkExpires, Rows
<1> QED BY <1>3, <1>4, <1>5, <1>6 DEF Environment, SlideStep

----------------------------------------------------------------------------
LEMMA InitAccounts ==
  ASSUME Init
  PROVE  AccountsInv
<1>1. TypeInv
  <2>1. /\ password = 0 /\ session = [s \in SessionIds |-> NoRow]
        /\ link = [l \in LinkIds |-> None] /\ request = [d \in Devices |-> Resting]
        /\ slides = {} /\ scope \in Scopes
    BY DEF Init
  <2>2. history \in [stale : BOOLEAN, crossed : BOOLEAN, twice : SUBSET LinkIds,
                     spent : [LinkIds -> Nat]]
    BY DEF Init
  <2>3. None \in LinkStates
    BY DEF LinkStates
  <2> QED BY <2>1, <2>2, <2>3, Restart DEF TypeInv
<1>2. \A d \in Devices : request[d].pc = "idle"
  BY Restart DEF Init
<1>3. /\ Rows = {} /\ Unused = {} /\ password = 0
      /\ \A l \in LinkIds : history.spent[l] = 0
  BY DEF Init, Rows, Unused, None
<1>4. SpentOnce
  BY <1>2, <1>3 DEF SpentOnce, LinkWorksOnce, At
<1> QED BY <1>1, <1>2, <1>3, <1>4
        DEF AccountsInv, LinkAlone, UnderPassword, SessionsKept, At

\* In every reachable state, however requests overlap and wherever they are
\* lost: the three tables and the requests between their steps fit together
\* in the ways that the promises about links, passwords and sessions rest on.
THEOREM AccountsInvariant == Spec => []AccountsInv
<1>1. AccountsInv /\ [Next]_vars => AccountsInv'
  <2> SUFFICES ASSUME AccountsInv, [Next]_vars PROVE AccountsInv'
    OBVIOUS
  <2>1. CASE UNCHANGED vars
    BY <2>1 DEF vars, AccountsInv, TypeInv, SpentOnce, LinkWorksOnce, LinkAlone, Unused,
               UnderPassword, SessionsKept, Rows, At
  <2>2. ASSUME NEW d \in Devices, DeviceStep(d) PROVE AccountsInv'
    <3>1. TypeInv'
      BY <2>2, DeviceTypes DEF AccountsInv
    <3> QED BY <2>2, <3>1, SpentDevice, AloneDevice, UnderDevice, KeptDevice DEF AccountsInv
  <2>3. ASSUME Environment PROVE AccountsInv'
    <3>1. TypeInv'
      BY <2>3, EnvironmentTypes DEF AccountsInv
    <3> QED BY <2>3, <3>1, LinksEnvironment, UnderEnvironment, KeptEnvironment DEF AccountsInv
  <2> QED BY <2>1, <2>2, <2>3 DEF Next, DeviceStep, Environment, SlideStep
<1> QED BY <1>1, InitAccounts, PTL DEF Spec

\* confirmPasswordReset uses a link up and voids the others in the transaction
\* that sets the password: no link sets it twice, nor once it is void, unless
\* two confirmations of that very link overlap.
THEOREM OncePerLink == Spec => []LinkWorksOnce
<1>1. AccountsInv => LinkWorksOnce
  BY DEF AccountsInv, SpentOnce
<1> QED BY <1>1, AccountsInvariant, PTL

\* requestPasswordReset deletes the links unused before it creates its own:
\* one is live at most, unless two requests for a link overlap.
THEOREM OneLinkAtATime == Spec => []OneLiveLink
<1>1. AccountsInv => OneLiveLink
  <2> SUFFICES ASSUME AccountsInv, ~history.crossed PROVE Cardinality(Unused) <= 1
    BY DEF OneLiveLink
  <2>1. \A k, l \in Unused : k = l
    BY DEF AccountsInv, LinkAlone
  <2>2. CASE Unused = {}
    BY <2>2, FS_EmptySet
  <2>3. CASE Unused # {}
    <3>1. PICK l \in Unused : Unused = {l}
      BY <2>1, <2>3
    <3>2. Cardinality({l}) = 1
      BY FS_Singleton
    <3> QED BY <3>1, <3>2
  <2> QED BY <2>2, <2>3
<1> QED BY <1>1, AccountsInvariant, PTL

\* Whoever changes or resets the password ends all sessions afterwards: none
\* issued under an older one is left, but for a login that had checked it
\* before, two changes that overlap, or a process lost in between.
THEOREM ChangesEndSessions == Spec => []ChangeEndsSessions
<1>1. AccountsInv => ChangeEndsSessions
  BY DEF AccountsInv, UnderPassword, ChangeEndsSessions
<1> QED BY <1>1, AccountsInvariant, PTL

\* slideExpiry is late, out of order and unawaited; a session visited once in
\* Ttl - Threshold ticks is valid all the same.
THEOREM VisitedStaysValid == Spec => []ActiveStaysSignedIn
<1>1. AccountsInv => ActiveStaysSignedIn
  <2> SUFFICES ASSUME AccountsInv, NEW s \in Rows, session[s].owed > 0,
                      \A slide \in slides : slide.of # s
               PROVE  session[s].left > 0
    BY DEF ActiveStaysSignedIn
  <2>1. session[s].owed <= session[s].left
    BY DEF AccountsInv, SessionsKept
  <2>2. session[s].owed \in Nat /\ session[s].left \in Nat
    BY RowThere DEF AccountsInv
  <2> QED BY <2>1, <2>2
<1> QED BY <1>1, AccountsInvariant, PTL

----------------------------------------------------------------------------
(* The limiter.                                                            *)

\* What makes the type invariant and the promise inductive: a window counts
\* at least the requests admitted in it, and as long as the budget may not be
\* refilled there is a window, which is over no sooner than it may.
WindowsKept == \A s \in Stores :
  /\ windows[s] # NoWindow => used[s] <= windows[s].count
  /\ since[s] < Gap => windows[s] # NoWindow /\ windows[s].resetIn >= Gap - since[s]

LimiterInv == TypeOK /\ WindowsKept

LEMMA GapPositive == Gap \in Nat /\ Gap > 0 /\ Gap <= Window
BY RateAssumption DEF Gap

\* An expired window, or none, leaves the budget free to be refilled.
LEMMA OverMeansDue ==
  ASSUME LimiterInv, NEW s \in Stores, NEW age \in 0..MaxLate, Over(windows[s], age)
  PROVE  since[s] = Gap
<1>1. since[s] \in 0..Gap /\ windows[s] \in WindowType
  BY DEF LimiterInv, TypeOK
<1>2. CASE since[s] < Gap
  <2>1. windows[s] # NoWindow /\ windows[s].resetIn >= Gap - since[s]
    BY <1>2 DEF LimiterInv, WindowsKept
  <2>2. windows[s].resetIn <= -age /\ windows[s].resetIn \in Int
    BY <2>1, <1>1 DEF Over, WindowType
  <2> QED BY <2>1, <2>2, <1>1, <1>2, GapPositive
<1> QED BY <1>1, <1>2, GapPositive

\* A request counted in window s moves that window and its histories only,
\* and is one of the steps the promise allows.
LEMMA CountKeeps ==
  ASSUME LimiterInv, NEW s \in Stores, NEW age \in 0..MaxLate, NEW w,
         w = windows[s] \/ w = Swept(windows[s], age),
         Count(s, w, age)
  PROVE  /\ windows' \in [Stores -> WindowType]
         /\ used' \in [Stores -> 0..Limit]
         /\ since' \in [Stores -> 0..Gap]
         /\ WindowsKept'
         /\ Promise!Admit(s) \/ Promise!Refill(s) \/ UNCHANGED <<used, since>>
<1> DEFINE next == Upsert(w, age)
<1>t. /\ windows \in [Stores -> WindowType] /\ used \in [Stores -> 0..Limit]
      /\ since \in [Stores -> 0..Gap] /\ age \in Nat /\ age <= MaxLate
  BY RateAssumption DEF LimiterInv, TypeOK
<1>w. w \in WindowType /\ (w # NoWindow => w = windows[s])
  BY <1>t DEF Swept, WindowType
<1>f. /\ windows' = [windows EXCEPT ![s] = next]
      /\ used' = [used EXCEPT ![s] = IF Over(w, age) THEN 1
                                     ELSE IF Allowed(next) THEN @ + 1 ELSE @]
      /\ since' = IF Over(w, age) THEN [since EXCEPT ![s] = 0] ELSE since
  BY DEF Count
<1>1. CASE Over(w, age)
  <2>1. next = [count |-> 1, resetIn |-> Window - age]
    BY <1>1 DEF Upsert
  <2>2. next \in WindowType /\ next # NoWindow
    BY <2>1, <1>t, RateAssumption DEF WindowType, NoWindow
  <2>3. Over(windows[s], age)
    BY <1>1, <1>w DEF Over, Swept
  <2>4. since[s] = Gap
    BY <2>3, OverMeansDue
  <2>5. used' = [used EXCEPT ![s] = 1] /\ since' = [since EXCEPT ![s] = 0]
    BY <1>f, <1>1
  <2>6. Promise!Refill(s)
    BY <2>4, <2>5 DEF Promise!Refill
  <2>7. WindowsKept'
    <3> SUFFICES ASSUME NEW r \in Stores
                 PROVE  /\ windows'[r] # NoWindow => used'[r] <= windows'[r].count
                        /\ since'[r] < Gap => /\ windows'[r] # NoWindow
                                              /\ windows'[r].resetIn >= Gap - since'[r]
      BY DEF WindowsKept
    <3>1. CASE r = s
      BY <3>1, <2>1, <2>2, <2>5, <1>f, <1>t, RateAssumption DEF Gap
    <3>2. CASE r # s
      <4>1. windows'[r] = windows[r] /\ used'[r] = used[r] /\ since'[r] = since[r]
        BY <3>2, <2>5, <1>f, <1>t
      <4> QED BY <4>1 DEF LimiterInv, WindowsKept
    <3> QED BY <3>1, <3>2
  <2>8. 1 \in 0..Limit /\ 0 \in 0..Gap
    BY RateAssumption, GapPositive
  <2> QED BY <2>2, <2>5, <2>6, <2>7, <2>8, <1>f, <1>t
<1>2. CASE ~Over(w, age)
  <2>1. w = windows[s] /\ w # NoWindow /\ w.count \in 1..Limit + 1
    BY <1>2, <1>w DEF Over, WindowType
  <2>2. next = [w EXCEPT !.count = Later(@, Limit + 1)]
    BY <1>2 DEF Upsert
  <2>3. /\ next \in WindowType /\ next # NoWindow /\ next.resetIn = w.resetIn
        /\ next.count = IF w.count < Limit + 1 THEN w.count + 1 ELSE Limit + 1
    BY <2>1, <2>2, <1>w, RateAssumption DEF Later, WindowType, NoWindow
  <2>4. used[s] <= w.count /\ used[s] \in 0..Limit
    BY <2>1, <1>t DEF LimiterInv, WindowsKept
  <2>5. since' = since
    BY <1>f, <1>2
  <2>6. used' = [used EXCEPT ![s] = IF Allowed(next) THEN @ + 1 ELSE @]
    BY <1>f, <1>2
  <2>7. Allowed(next) => used[s] < Limit
    BY <2>1, <2>3, <2>4, RateAssumption DEF Allowed
  <2>8. Promise!Admit(s) \/ UNCHANGED <<used, since>>
    <3>1. CASE Allowed(next)
      BY <3>1, <2>5, <2>6, <2>7 DEF Promise!Admit
    <3>2. CASE ~Allowed(next)
      BY <3>2, <2>5, <2>6, <1>t
    <3> QED BY <3>1, <3>2
  <2>9. used' \in [Stores -> 0..Limit]
    BY <2>4, <2>6, <2>7, <1>t, RateAssumption
  <2>10. WindowsKept'
    <3> SUFFICES ASSUME NEW r \in Stores
                 PROVE  /\ windows'[r] # NoWindow => used'[r] <= windows'[r].count
                        /\ since'[r] < Gap => /\ windows'[r] # NoWindow
                                              /\ windows'[r].resetIn >= Gap - since'[r]
      BY DEF WindowsKept
    <3>1. CASE r = s
      <4>1. windows'[r] = next /\ since'[r] = since[s]
        BY <3>1, <2>5, <1>f, <1>t
      <4>2. used'[r] = IF Allowed(next) THEN used[s] + 1 ELSE used[s]
        BY <3>1, <2>6, <1>t
      <4>3. used'[r] <= next.count
        BY <4>2, <2>1, <2>3, <2>4, RateAssumption DEF Allowed
      <4>4. since[s] < Gap => next.resetIn >= Gap - since[s]
        BY <2>1, <2>3 DEF LimiterInv, WindowsKept
      <4> QED BY <4>1, <4>3, <4>4, <2>3
    <3>2. CASE r # s
      <4>1. windows'[r] = windows[r] /\ used'[r] = used[r] /\ since'[r] = since[r]
        BY <3>2, <2>5, <2>6, <1>f, <1>t
      <4> QED BY <4>1 DEF LimiterInv, WindowsKept
    <3> QED BY <3>1, <3>2
  <2> QED BY <2>3, <2>5, <2>8, <2>9, <2>10, <1>f, <1>t
<1> QED BY <1>1, <1>2

-----------------------------------------------------------------------------
(* The invariant, and the step of the promise each action takes.           *)

PromiseStep == Promise!Next \/ UNCHANGED <<used, since>>

\* What was let through unchecked a tick ago is a tick older.
LEMMA UncheckedTypes ==
  ASSUME LimiterInv,
         \/ UNCHANGED unchecked \/ OneUnchecked
         \/ unchecked' = [a \in 0..Gap - 1 |-> IF a = 0 THEN 0 ELSE unchecked[a - 1]]
  PROVE  unchecked' \in [0..Gap - 1 -> Nat]
<1>1. unchecked \in [0..Gap - 1 -> Nat] /\ 0 \in 0..Gap - 1
  BY GapPositive DEF LimiterInv, TypeOK
<1>2. CASE OneUnchecked
  <2>1. unchecked[0] + 1 \in Nat
    BY <1>1
  <2> QED BY <1>1, <1>2, <2>1 DEF OneUnchecked
<1>3. CASE unchecked' = [a \in 0..Gap - 1 |-> IF a = 0 THEN 0 ELSE unchecked[a - 1]]
  <2>1. \A a \in 0..Gap - 1 : a # 0 => a - 1 \in 0..Gap - 1
    BY GapPositive
  <2> QED BY <1>1, <1>3, <2>1
<1> QED BY <1>1, <1>2, <1>3

LEMMA SweepStarts ==
  ASSUME LimiterInv, NEW i \in Instances, StartSweep(i)
  PROVE  /\ sweep' \in [Instances -> SUBSET (0..MaxLate)]
         /\ sinceSweep' \in [Instances -> 0..SweepEvery]
<1>1. /\ sweep \in [Instances -> SUBSET (0..MaxLate)]
      /\ sinceSweep \in [Instances -> 0..SweepEvery]
  BY DEF LimiterInv, TypeOK
<1>2. 0 \in 0..MaxLate /\ 0 \in 0..SweepEvery
  BY RateAssumption
<1>3. CASE SweepDue(i)
  <2>1. sweep[i] \cup {0} \in SUBSET (0..MaxLate)
    BY <1>1, <1>2
  <2>2. sweep' = [sweep EXCEPT ![i] = sweep[i] \cup {0}]
        /\ sinceSweep' = [sinceSweep EXCEPT ![i] = 0]
    BY <1>3 DEF StartSweep
  <2> QED BY <1>1, <1>2, <2>1, <2>2
<1>4. CASE ~SweepDue(i)
  BY <1>1, <1>4 DEF StartSweep
<1> QED BY <1>3, <1>4

LEMMA LimiterStarts == LimiterInit => LimiterInv
<1> SUFFICES ASSUME LimiterInit PROVE LimiterInv
  OBVIOUS
<1>1. TypeOK
  <2>1. unchecked \in [0..Gap - 1 -> Nat]
    BY GapPositive DEF LimiterInit
  <2> QED BY <2>1, RateAssumption, GapPositive DEF LimiterInit, TypeOK, WindowType, CallType, NoCall
<1>2. WindowsKept
  BY GapPositive DEF LimiterInit, WindowsKept
<1> QED BY <1>1, <1>2 DEF LimiterInv

\* A sweep removes only what is over, so no budget is refilled by it.
LEMMA SweepKeeps ==
  ASSUME LimiterInv, NEW s \in Stores, NEW age \in 0..MaxLate,
         windows' = [windows EXCEPT ![s] = Swept(@, age)],
         UNCHANGED <<used, since>>
  PROVE  windows' \in [Stores -> WindowType] /\ WindowsKept'
<1>t. /\ windows \in [Stores -> WindowType] /\ used \in [Stores -> 0..Limit]
      /\ since \in [Stores -> 0..Gap]
  BY DEF LimiterInv, TypeOK
<1>1. windows' \in [Stores -> WindowType]
  BY <1>t DEF Swept, WindowType
<1>2. WindowsKept'
  <2> SUFFICES ASSUME NEW r \in Stores
               PROVE  /\ windows'[r] # NoWindow => used'[r] <= windows'[r].count
                      /\ since'[r] < Gap => /\ windows'[r] # NoWindow
                                            /\ windows'[r].resetIn >= Gap - since'[r]
    BY DEF WindowsKept
  <2>1. CASE windows'[r] = windows[r]
    BY <2>1 DEF LimiterInv, WindowsKept
  <2>2. CASE windows'[r] # windows[r]
    <3>1. r = s /\ windows'[r] = NoWindow /\ windows[s].resetIn <= -age
      BY <2>2, <1>t DEF Swept
    <3>2. since[s] = Gap
      BY <3>1, OverMeansDue DEF Over
    <3> QED BY <3>1, <3>2, GapPositive
  <2> QED BY <2>1, <2>2
<1> QED BY <1>1, <1>2

LEMMA ClockTickKeeps == ASSUME LimiterInv, ClockTick PROVE LimiterInv' /\ Promise!Elapse
<1>t. /\ windows \in [Stores -> WindowType] /\ used \in [Stores -> 0..Limit]
      /\ since \in [Stores -> 0..Gap]
  BY DEF LimiterInv, TypeOK
<1>1. Promise!Elapse
  BY DEF ClockTick, Promise!Elapse, Later, Promise!Later
<1>2. /\ windows' \in [Stores -> WindowType] /\ used' \in [Stores -> 0..Limit]
      /\ since' \in [Stores -> 0..Gap]
  <2>1. \A s \in Stores : Nearer(windows[s]) \in WindowType
    BY <1>t, RateAssumption DEF Nearer, WindowType, NoWindow
  <2>2. \A s \in Stores : Later(since[s], Gap) \in 0..Gap
    BY <1>t, GapPositive DEF Later
  <2> QED BY <2>1, <2>2, <1>t DEF ClockTick
<1>3. driver' \in {"memory", "postgres"} /\ call' \in [Calls -> CallType]
  <2>1. \A c \in Calls : call[c] \in CallType /\ call[c] < MaxLate
    BY DEF LimiterInv, TypeOK, ClockTick
  <2>2. \A c \in Calls : (IF call[c] = NoCall THEN NoCall ELSE call[c] + 1) \in CallType
    BY <2>1, RateAssumption DEF CallType, NoCall
  <2> QED BY <2>2 DEF LimiterInv, TypeOK, ClockTick
<1>4. sinceSweep' \in [Instances -> 0..SweepEvery]
  BY RateAssumption DEF LimiterInv, TypeOK, ClockTick, Later
<1>5. sweep' \in [Instances -> SUBSET (0..MaxLate)]
  <2>1. \A i \in Instances : {age + 1 : age \in sweep[i]} \subseteq 0..MaxLate
    <3> TAKE i \in Instances
    <3>1. sweep[i] \subseteq 0..MaxLate /\ MaxLate \notin sweep[i]
      BY DEF LimiterInv, TypeOK, ClockTick
    <3>2. \A age \in sweep[i] : age + 1 \in 0..MaxLate
      BY <3>1, RateAssumption
    <3> QED BY <3>2
  <2> QED BY <2>1 DEF ClockTick
<1>6. WindowsKept'
  <2> SUFFICES ASSUME NEW r \in Stores
               PROVE  /\ windows'[r] # NoWindow => used'[r] <= windows'[r].count
                      /\ since'[r] < Gap => /\ windows'[r] # NoWindow
                                            /\ windows'[r].resetIn >= Gap - since'[r]
    BY DEF WindowsKept
  <2>1. /\ windows'[r] = Nearer(windows[r]) /\ since'[r] = Later(since[r], Gap)
        /\ used'[r] = used[r]
    BY <1>t DEF ClockTick
  <2>2. /\ windows[r] = NoWindow => windows'[r] = NoWindow
        /\ windows[r] # NoWindow =>
             /\ windows'[r].count = windows[r].count /\ windows'[r] # NoWindow
             /\ windows'[r].resetIn >= windows[r].resetIn - 1
             /\ windows[r].count \in 1..Limit + 1 /\ windows[r].resetIn \in Int
             /\ windows'[r].resetIn \in Int
    BY <2>1, <1>t, RateAssumption DEF Nearer, WindowType, NoWindow
  <2>3. since'[r] < Gap => since'[r] = since[r] + 1 /\ since[r] < Gap
    BY <2>1, <1>t, GapPositive DEF Later
  <2>4. since[r] \in Nat
    BY <1>t, GapPositive
  <2>5. /\ windows[r] # NoWindow => used[r] <= windows[r].count
        /\ since[r] < Gap => windows[r] # NoWindow /\ windows[r].resetIn >= Gap - since[r]
    BY DEF LimiterInv, WindowsKept
  <2> QED BY <2>1, <2>2, <2>3, <2>4, <2>5, GapPositive
<1>7. unchecked' \in [0..Gap - 1 -> Nat]
  BY UncheckedTypes DEF ClockTick
<1> QED BY <1>1, <1>2, <1>3, <1>4, <1>5, <1>6, <1>7 DEF LimiterInv, TypeOK

LEMMA LimiterStepKeeps ==
  ASSUME LimiterInv, [LimiterNext]_limiterVars
  PROVE  LimiterInv' /\ PromiseStep
<1> USE DEF LimiterInv
<1>0. 0 \in 0..MaxLate /\ 0 \in 0..SweepEvery /\ SweepEvery \in 0..SweepEvery
  BY RateAssumption
<1>s. ASSUME UNCHANGED <<windows, used, since>> PROVE WindowsKept' /\ PromiseStep
  BY <1>s DEF WindowsKept, PromiseStep
<1>1. CASE ClockTick
  BY <1>1, ClockTickKeeps DEF PromiseStep, Promise!Next
<1>2. ASSUME NEW i \in Instances, MemoryConsume(i) PROVE LimiterInv' /\ PromiseStep
  <2>1. i \in Stores
    BY DEF Stores
  <2> DEFINE w == IF SweepDue(i) THEN Swept(windows[i], 0) ELSE windows[i]
  <2>2. Count(i, w, 0)
    BY <1>2 DEF MemoryConsume
  <2>3. /\ windows' \in [Stores -> WindowType] /\ used' \in [Stores -> 0..Limit]
        /\ since' \in [Stores -> 0..Gap] /\ WindowsKept'
        /\ Promise!Admit(i) \/ Promise!Refill(i) \/ UNCHANGED <<used, since>>
    <3> HIDE DEF w
    <3>1. w = windows[i] \/ w = Swept(windows[i], 0)
      BY DEF w
    <3> QED BY <2>1, <2>2, <3>1, <1>0, CountKeeps
  <2>4. TypeOK'
    BY <2>3, <1>2, <1>0 DEF TypeOK, MemoryConsume
  <2> QED BY <2>1, <2>3, <2>4 DEF PromiseStep, Promise!Next
<1>3. ASSUME NEW i \in Instances, MemorySweep(i) PROVE LimiterInv' /\ PromiseStep
  <2>1. i \in Stores
    BY DEF Stores
  <2>2. windows' \in [Stores -> WindowType] /\ WindowsKept'
    BY <1>3, <2>1, <1>0, SweepKeeps DEF MemorySweep, Throttles
  <2>3. TypeOK'
    BY <1>3, <2>2, <1>0 DEF TypeOK, MemorySweep, Throttles
  <2> QED BY <1>3, <2>2, <2>3 DEF PromiseStep, MemorySweep, Throttles
<1>4. ASSUME NEW i \in Instances, PostgresSweep(i) PROVE LimiterInv' /\ PromiseStep
  <2>1. sweep' \in [Instances -> SUBSET (0..MaxLate)] /\ sinceSweep' \in [Instances -> 0..SweepEvery]
    BY <1>4, SweepStarts DEF PostgresSweep
  <2>2. TypeOK'
    BY <1>4, <2>1 DEF TypeOK, PostgresSweep, Throttles
  <2> QED BY <1>4, <1>s, <2>2 DEF PostgresSweep, Throttles
<1>5. ASSUME NEW i \in Instances, NEW c \in Calls, PostgresConsume(i, c)
      PROVE LimiterInv' /\ PromiseStep
  <2>1. sweep' \in [Instances -> SUBSET (0..MaxLate)] /\ sinceSweep' \in [Instances -> 0..SweepEvery]
    BY <1>5, SweepStarts DEF PostgresConsume
  <2>2. call' \in [Calls -> CallType]
    BY <1>5, <1>0 DEF TypeOK, PostgresConsume, CallType
  <2>3. TypeOK'
    BY <1>5, <2>1, <2>2 DEF TypeOK, PostgresConsume, Throttles
  <2> QED BY <1>5, <1>s, <2>3 DEF PostgresConsume, Throttles
<1>6. ASSUME NEW c \in Calls, UpsertLands(c) PROVE LimiterInv' /\ PromiseStep
  <2>1. Table \in Stores /\ call[c] \in 0..MaxLate
    BY <1>6 DEF Stores, TypeOK, CallType, UpsertLands
  <2>2. Count(Table, windows[Table], call[c])
    BY <1>6 DEF UpsertLands
  <2>3. /\ windows' \in [Stores -> WindowType] /\ used' \in [Stores -> 0..Limit]
        /\ since' \in [Stores -> 0..Gap] /\ WindowsKept'
        /\ Promise!Admit(Table) \/ Promise!Refill(Table) \/ UNCHANGED <<used, since>>
    BY <2>1, <2>2, CountKeeps
  <2>4. TypeOK'
    BY <2>3, <1>6 DEF TypeOK, UpsertLands, CallType
  <2> QED BY <2>1, <2>3, <2>4 DEF PromiseStep, Promise!Next
<1>7. ASSUME NEW c \in Calls, UpsertFails(c) PROVE LimiterInv' /\ PromiseStep
  <2>1. unchecked' \in [0..Gap - 1 -> Nat]
    BY <1>7, UncheckedTypes DEF UpsertFails
  <2>2. TypeOK'
    BY <1>7, <2>1 DEF TypeOK, UpsertFails, CallType
  <2> QED BY <1>7, <1>s, <2>2 DEF UpsertFails
<1>12. ASSUME NEW c \in Calls, UpsertUnanswered(c) PROVE LimiterInv' /\ PromiseStep
  <2>1. Table \in Stores /\ call[c] \in 0..MaxLate
    BY <1>12 DEF Stores, TypeOK, CallType, UpsertUnanswered
  <2>2. Count(Table, windows[Table], call[c])
    BY <1>12 DEF UpsertUnanswered
  <2>3. /\ windows' \in [Stores -> WindowType] /\ used' \in [Stores -> 0..Limit]
        /\ since' \in [Stores -> 0..Gap] /\ WindowsKept'
        /\ Promise!Admit(Table) \/ Promise!Refill(Table) \/ UNCHANGED <<used, since>>
    BY <2>1, <2>2, CountKeeps
  <2>4. unchecked' \in [0..Gap - 1 -> Nat]
    BY <1>12, UncheckedTypes DEF UpsertUnanswered
  <2>5. TypeOK'
    BY <2>3, <2>4, <1>12 DEF TypeOK, UpsertUnanswered, CallType
  <2> QED BY <2>1, <2>3, <2>5 DEF PromiseStep, Promise!Next
<1>8. ASSUME NEW i \in Instances, NEW age \in 0..MaxLate, SweepLands(i, age)
      PROVE LimiterInv' /\ PromiseStep
  <2>1. Table \in Stores
    BY DEF Stores
  <2>2. windows' \in [Stores -> WindowType] /\ WindowsKept'
    BY <1>8, <2>1, SweepKeeps DEF SweepLands, Throttles
  <2>3. TypeOK'
    BY <1>8, <2>2 DEF TypeOK, SweepLands, SweepEnds, Throttles
  <2> QED BY <1>8, <2>2, <2>3 DEF PromiseStep, SweepLands, Throttles
<1>9. ASSUME NEW i \in Instances, NEW age \in 0..MaxLate, SweepFails(i, age)
      PROVE LimiterInv' /\ PromiseStep
  <2>1. TypeOK'
    BY <1>9 DEF TypeOK, SweepFails, SweepEnds, Throttles
  <2> QED BY <1>9, <1>s, <2>1 DEF SweepFails, Throttles
<1>10. ASSUME NEW i \in Instances, Redeploy(i) PROVE LimiterInv' /\ PromiseStep
  <2>1. i \in Stores /\ 0 \in 0..Limit /\ Gap \in 0..Gap
    BY RateAssumption, GapPositive DEF Stores
  <2>2. TypeOK'
    BY <1>10, <2>1, <1>0 DEF TypeOK, Redeploy, WindowType
  <2>3. WindowsKept'
    BY <1>10, <2>1, GapPositive DEF WindowsKept, Redeploy, TypeOK, NoWindow
  <2>4. Promise!Forget(i)
    BY <1>10 DEF Redeploy, Promise!Forget
  <2> QED BY <2>1, <2>2, <2>3, <2>4 DEF PromiseStep, Promise!Next
<1>11. CASE UNCHANGED limiterVars
  BY <1>11, <1>s DEF TypeOK, limiterVars
<1> QED
  BY <1>1, <1>2, <1>3, <1>4, <1>5, <1>6, <1>7, <1>8, <1>9, <1>10, <1>11,
     <1>12 DEF LimiterNext

\* The windows, statements and histories keep their types.
THEOREM RateTypes == LimiterSpec => []TypeOK
<1>1. LimiterInit => LimiterInv
  BY LimiterStarts
<1>2. LimiterInv /\ [LimiterNext]_limiterVars => LimiterInv'
  BY LimiterStepKeeps
<1>3. LimiterInv => TypeOK
  BY DEF LimiterInv
<1> QED BY <1>1, <1>2, <1>3, PTL DEF LimiterSpec

\* Whatever the interleaving of requests, late statements, sweeps and deploys,
\* every step of the limiter is one its promise allows.
THEOREM KeepsPromise == LimiterSpec => ImplementsThrottle
<1>1. LimiterInit => LimiterInv /\ Promise!Init
  BY LimiterStarts DEF LimiterInit, Promise!Init
<1>2. LimiterInv /\ [LimiterNext]_limiterVars => LimiterInv' /\ [Promise!Next]_<<used, since>>
  BY LimiterStepKeeps DEF PromiseStep
<1> QED BY <1>1, <1>2, PTL DEF LimiterSpec, ImplementsThrottle, Promise!Spec

-----------------------------------------------------------------------------
(* Two budgets.                                                            *)

\* Requests counted by how long ago they were admitted, one element each.
AdmittedOver(counts) == UNION {{a} \X (1..counts[a]) : a \in 0..Gap - 1}

\* Of the requests admitted lately, those since the window began are of its
\* budget, and those before it of the budget before.
WithinBudgets(counts, n, began) ==
  /\ counts \in [0..Gap - 1 -> Nat]
  /\ IsFiniteSet(AdmittedOver(counts))
  /\ Cardinality({p \in AdmittedOver(counts) : p[1] < began}) <= n
  /\ Cardinality(AdmittedOver(counts)) <= Limit + n

Budgeted ==
  /\ admitted \in [Stores -> [0..Gap - 1 -> Nat]]
  /\ \A s \in Stores : WithinBudgets(admitted[s], used[s], since[s])

BudgetInv == LimiterInv /\ Budgeted

LEMMA RequestsAre ==
  ASSUME NEW counts, NEW p
  PROVE  p \in AdmittedOver(counts) <=> /\ p = <<p[1], p[2]>> /\ p[1] \in 0..Gap - 1
                                    /\ p[2] \in 1..counts[p[1]]
<1>1. ASSUME p \in AdmittedOver(counts)
      PROVE  p = <<p[1], p[2]>> /\ p[1] \in 0..Gap - 1 /\ p[2] \in 1..counts[p[1]]
  BY <1>1 DEF AdmittedOver
<1>2. ASSUME p = <<p[1], p[2]>>, p[1] \in 0..Gap - 1, p[2] \in 1..counts[p[1]]
      PROVE  p \in AdmittedOver(counts)
  <2>1. p \in {p[1]} \X (1..counts[p[1]])
    BY <1>2
  <2> QED BY <2>1, <1>2 DEF AdmittedOver
<1> QED BY <1>1, <1>2

\* A store that has admitted nothing.
LEMMA NothingAdmitted ==
  ASSUME NEW n \in Nat, NEW began
  PROVE  WithinBudgets([a \in 0..Gap - 1 |-> 0], n, began)
<1> DEFINE none == [a \in 0..Gap - 1 |-> 0]
<1>1. AdmittedOver(none) = {}
  BY DEF AdmittedOver
<1>2. {p \in AdmittedOver(none) : p[1] < began} = {}
  BY <1>1
<1>3. none \in [0..Gap - 1 -> Nat]
  OBVIOUS
<1>4. Cardinality({}) = 0 /\ IsFiniteSet({}) /\ 0 <= n /\ 0 <= Limit + n
  BY FS_EmptySet, RateAssumption
<1> HIDE DEF none
<1>5. WithinBudgets(none, n, began)
  BY <1>1, <1>2, <1>3, <1>4 DEF WithinBudgets
<1> QED BY <1>5 DEF none

\* One more request now, spent from the budget there is.
LEMMA OneAdmitted ==
  ASSUME NEW counts, NEW n \in Nat, NEW began \in 0..Gap, WithinBudgets(counts, n, began)
  PROVE  WithinBudgets([counts EXCEPT ![0] = @ + 1], n + 1, began)
<1> DEFINE more  == [counts EXCEPT ![0] = @ + 1]
           x     == <<0, counts[0] + 1>>
           old   == {p \in AdmittedOver(counts) : p[1] < began}
<1>1. 0 \in 0..Gap - 1 /\ counts \in [0..Gap - 1 -> Nat] /\ counts[0] \in Nat
  BY GapPositive DEF WithinBudgets
<1>2. more \in [0..Gap - 1 -> Nat] /\ more[0] = counts[0] + 1
      /\ \A a \in 0..Gap - 1 : a # 0 => more[a] = counts[a]
  BY <1>1
<1>3. AdmittedOver(more) = AdmittedOver(counts) \cup {x}
  <2> HIDE DEF more
  <2>1. ASSUME NEW p PROVE p \in AdmittedOver(more) <=> p \in AdmittedOver(counts) \cup {x}
    <3>1. CASE p = x
      <4>1. x[1] = 0 /\ x[2] \in 1..more[0] /\ x = <<x[1], x[2]>>
        BY <1>1, <1>2
      <4> QED BY <3>1, <4>1, <1>1, RequestsAre
    <3>2. CASE p # x
      <4>1. ASSUME p = <<p[1], p[2]>>, p[1] \in 0..Gap - 1
            PROVE  p[2] \in 1..more[p[1]] <=> p[2] \in 1..counts[p[1]]
        <5>1. CASE p[1] = 0
          <6>1. p[2] # counts[0] + 1
            BY <4>1, <5>1, <3>2
          <6> QED BY <6>1, <5>1, <1>1, <1>2
        <5>2. CASE p[1] # 0
          BY <5>2, <4>1, <1>2
        <5> QED BY <5>1, <5>2
      <4> QED BY <3>2, <4>1, RequestsAre
    <3> QED BY <3>1, <3>2
  <2> QED BY <2>1
<1> HIDE DEF more
<1>4. IsFiniteSet(AdmittedOver(counts)) /\ Cardinality(old) <= n
      /\ Cardinality(AdmittedOver(counts)) <= Limit + n
  BY DEF WithinBudgets
<1>5. IsFiniteSet(old) /\ Cardinality(old) \in Nat /\ Cardinality(AdmittedOver(counts)) \in Nat
  <2>1. old \in SUBSET AdmittedOver(counts)
    OBVIOUS
  <2>2. IsFiniteSet(old)
    BY <2>1, <1>4, FS_Subset
  <2> QED BY <2>2, <1>4, FS_CardinalityType
<1>6. IsFiniteSet(AdmittedOver(more)) /\ Cardinality(AdmittedOver(more)) <= Limit + (n + 1)
  <2>1. /\ IsFiniteSet(AdmittedOver(counts) \cup {x})
        /\ Cardinality(AdmittedOver(counts) \cup {x}) =
             IF x \in AdmittedOver(counts) THEN Cardinality(AdmittedOver(counts))
             ELSE Cardinality(AdmittedOver(counts)) + 1
    <3> HIDE DEF x
    <3> QED BY <1>4, FS_AddElement
  <2> DEFINE k == Cardinality(AdmittedOver(counts))
             m == Cardinality(AdmittedOver(more))
  <2>2. (m = k \/ m = k + 1) /\ k \in Nat /\ k <= Limit + n /\ Limit \in Nat
    BY <2>1, <1>3, <1>4, <1>5, RateAssumption
  <2>3. m <= Limit + (n + 1)
    <3> HIDE DEF k, m
    <3> QED BY <2>2
  <2> QED BY <2>1, <2>3, <1>3
<1>7. Cardinality({p \in AdmittedOver(more) : p[1] < began}) <= n + 1
  <2> DEFINE new == {p \in AdmittedOver(more) : p[1] < began}
  <2>1. new = old \/ new = old \cup {x}
    BY <1>3
  <2>2. IsFiniteSet(old \cup {x}) /\ Cardinality(old \cup {x}) <= Cardinality(old) + 1
    <3> HIDE DEF x, old
    <3>1. /\ IsFiniteSet(old \cup {x})
          /\ Cardinality(old \cup {x}) =
               IF x \in old THEN Cardinality(old) ELSE Cardinality(old) + 1
      BY <1>5, FS_AddElement
    <3> QED BY <3>1, <1>5
  <2>3. Cardinality(old \cup {x}) \in Nat
    BY <2>2, FS_CardinalityType
  <2>4. Cardinality(new) = Cardinality(old) \/ Cardinality(new) = Cardinality(old \cup {x})
    BY <2>1
  <2> QED BY <2>2, <2>3, <2>4, <1>4, <1>5
<1> QED BY <1>2, <1>6, <1>7 DEF WithinBudgets, more

\* The first request of a window: what was admitted before it is at most a
\* budget, since the window before began long ago.
LEMMA WindowBegun ==
  ASSUME NEW counts, NEW n \in 0..Limit, WithinBudgets(counts, n, Gap)
  PROVE  WithinBudgets([counts EXCEPT ![0] = @ + 1], 1, 0)
<1> DEFINE empty == {p \in AdmittedOver(counts) : p[1] < 0}
<1>1. {p \in AdmittedOver(counts) : p[1] < Gap} = AdmittedOver(counts)
  BY RequestsAre, GapPositive
<1>2. empty = {}
  BY RequestsAre, GapPositive
<1>3. /\ Cardinality(AdmittedOver(counts)) \in Nat
      /\ Cardinality({p \in AdmittedOver(counts) : p[1] < Gap}) <= n
  BY FS_CardinalityType DEF WithinBudgets
<1>4. Cardinality(AdmittedOver(counts)) <= Limit + 0 /\ Cardinality(empty) <= 0
  <2>1. Cardinality(AdmittedOver(counts)) <= n
    BY <1>1, <1>3
  <2>2. Cardinality(empty) = 0
    BY <1>2, FS_EmptySet
  <2> HIDE DEF empty
  <2> QED BY <2>1, <2>2, <1>3, RateAssumption
<1>5. WithinBudgets(counts, 0, 0)
  BY <1>4 DEF WithinBudgets
<1>6. 0 \in Nat /\ 0 \in 0..Gap /\ 0 + 1 = 1
  BY GapPositive
<1>7. WithinBudgets([counts EXCEPT ![0] = @ + 1], 0 + 1, 0)
  BY <1>5, <1>6, OneAdmitted
<1> QED BY <1>6, <1>7

\* A tick later the same requests are a tick older, and the oldest are out.
LEMMA TimeAdmitted ==
  ASSUME NEW counts, NEW n \in Nat, NEW began \in 0..Gap, WithinBudgets(counts, n, began)
  PROVE  WithinBudgets([a \in 0..Gap - 1 |-> IF a = 0 THEN 0 ELSE counts[a - 1]],
                       n, Later(began, Gap))
<1> DEFINE older == [a \in 0..Gap - 1 |-> IF a = 0 THEN 0 ELSE counts[a - 1]]
           then  == Later(began, Gap)
           Was(p) == <<p[1] - 1, p[2]>>
           old   == {p \in AdmittedOver(counts) : p[1] < began}
           new   == {p \in AdmittedOver(older) : p[1] < then}
<1>1. /\ counts \in [0..Gap - 1 -> Nat] /\ IsFiniteSet(AdmittedOver(counts))
      /\ Cardinality(old) <= n /\ Cardinality(AdmittedOver(counts)) <= Limit + n
  BY DEF WithinBudgets
<1>2. older \in [0..Gap - 1 -> Nat]
  BY <1>1, GapPositive
<1>3. \A p \in AdmittedOver(older) : /\ Was(p) \in AdmittedOver(counts)
                                 /\ p[1] \in Nat /\ p[1] > 0 /\ p[1] < Gap /\ p = <<p[1], p[2]>>
  <2> SUFFICES ASSUME NEW p \in AdmittedOver(older)
               PROVE  /\ Was(p) \in AdmittedOver(counts)
                      /\ p[1] \in Nat /\ p[1] > 0 /\ p[1] < Gap /\ p = <<p[1], p[2]>>
    OBVIOUS
  <2>1. p = <<p[1], p[2]>> /\ p[1] \in 0..Gap - 1 /\ p[2] \in 1..older[p[1]]
    <3> HIDE DEF older
    <3> QED BY RequestsAre
  <2>2. p[1] # 0 /\ older[p[1]] = counts[p[1] - 1]
    BY <2>1
  <2>3. /\ Was(p) = <<Was(p)[1], Was(p)[2]>> /\ Was(p)[1] \in 0..Gap - 1
        /\ Was(p)[2] \in 1..counts[Was(p)[1]]
    BY <2>1, <2>2, GapPositive
  <2>4. Was(p) \in AdmittedOver(counts)
    <3> HIDE DEF Was
    <3> QED BY <2>3, RequestsAre
  <2> QED BY <2>1, <2>2, <2>4, GapPositive
<1> HIDE DEF older
<1>4. ASSUME NEW S \in SUBSET AdmittedOver(older), NEW T \in SUBSET AdmittedOver(counts),
             \A p \in S : Was(p) \in T
      PROVE  IsFiniteSet(S) /\ Cardinality(S) <= Cardinality(T) /\ Cardinality(T) \in Nat
  <2> DEFINE f == [p \in S |-> Was(p)]
  <2>1. f \in [S -> T]
    BY <1>4
  <2>2. \A p, q \in S : f[p] = f[q] => p = q
    <3> SUFFICES ASSUME NEW p \in S, NEW q \in S, Was(p) = Was(q) PROVE p = q
      OBVIOUS
    <3>1. p[1] - 1 = q[1] - 1 /\ p[2] = q[2]
      OBVIOUS
    <3>2. p[1] \in Nat /\ q[1] \in Nat /\ p = <<p[1], p[2]>> /\ q = <<q[1], q[2]>>
      BY <1>3
    <3>3. p[1] = q[1]
      BY <3>1, <3>2
    <3>4. <<p[1], p[2]>> = <<q[1], q[2]>>
      BY <3>1, <3>3
    <3> QED BY <3>2, <3>4
  <2>3. f \in Injection(S, T)
    <3> HIDE DEF f
    <3> QED BY <2>1, <2>2 DEF Injection, IsInjective
  <2>4. IsFiniteSet(T)
    BY <1>1, FS_Subset
  <2> HIDE DEF f
  <2> QED BY <2>3, <2>4, FS_Injection, FS_CardinalityType
<1>5. IsFiniteSet(AdmittedOver(older)) /\ Cardinality(AdmittedOver(older)) <= Limit + n
  <2>1. /\ IsFiniteSet(AdmittedOver(older))
        /\ Cardinality(AdmittedOver(older)) <= Cardinality(AdmittedOver(counts))
        /\ Cardinality(AdmittedOver(counts)) \in Nat
    BY <1>3, <1>4
  <2> QED BY <2>1, <1>1, FS_CardinalityType, RateAssumption
<1>6. Cardinality(new) <= n
  <2>1. \A p \in new : Was(p) \in old
    <3> SUFFICES ASSUME NEW p \in new PROVE Was(p) \in old
      OBVIOUS
    <3>1. p \in AdmittedOver(older) /\ p[1] < then
      OBVIOUS
    <3>2. Was(p) \in AdmittedOver(counts) /\ p[1] \in Nat /\ p[1] < Gap
      BY <3>1, <1>3
    <3>3. p[1] - 1 < began
      BY <3>1, <3>2, GapPositive DEF Later
    <3> QED BY <3>2, <3>3
  <2>2. IsFiniteSet(new) /\ Cardinality(new) <= Cardinality(old) /\ Cardinality(old) \in Nat
    <3>1. new \in SUBSET AdmittedOver(older) /\ old \in SUBSET AdmittedOver(counts)
      OBVIOUS
    <3> HIDE DEF new, old, Was
    <3> QED BY <2>1, <3>1, <1>4
  <2> QED BY <2>2, <1>1, FS_CardinalityType
<1> QED BY <1>2, <1>5, <1>6 DEF WithinBudgets, older

\* What an action does to the histories.
LEMMA Histories ==
  ASSUME LimiterInv, [LimiterNext]_limiterVars
  PROVE  \/ ClockTick
         \/ \E i \in Instances : Redeploy(i)
         \/ \E s \in Stores, age \in 0..MaxLate :
              \E w \in {windows[s], Swept(windows[s], age)} : Count(s, w, age)
         \/ UNCHANGED <<used, since, admitted>>
<1>0. 0 \in 0..MaxLate /\ Table \in Stores /\ Instances \subseteq Stores
  BY RateAssumption DEF Stores
<1>1. ASSUME NEW i \in Instances, MemoryConsume(i)
      PROVE  \E w \in {windows[i], Swept(windows[i], 0)} : Count(i, w, 0)
  BY <1>1 DEF MemoryConsume
<1>2. ASSUME NEW c \in Calls, UpsertLands(c) \/ UpsertUnanswered(c)
      PROVE  Count(Table, windows[Table], call[c]) /\ call[c] \in 0..MaxLate
  BY <1>2 DEF UpsertLands, UpsertUnanswered, LimiterInv, TypeOK, CallType
<1>3. \/ ClockTick
      \/ \E i \in Instances : Redeploy(i) \/ MemoryConsume(i)
      \/ \E c \in Calls : UpsertLands(c) \/ UpsertUnanswered(c)
      \/ UNCHANGED <<used, since, admitted>>
  BY DEF LimiterNext, limiterVars, Throttles, MemorySweep, PostgresSweep, SweepLands, SweepFails,
         PostgresConsume, UpsertFails
<1> QED BY <1>0, <1>1, <1>2, <1>3

LEMMA CountBudgeted ==
  ASSUME BudgetInv, NEW s \in Stores, NEW age \in 0..MaxLate,
         NEW w \in {windows[s], Swept(windows[s], age)}, Count(s, w, age)
  PROVE  Budgeted'
<1> DEFINE next == Upsert(w, age)
           more == [admitted[s] EXCEPT ![0] = @ + 1]
<1>t. /\ admitted \in [Stores -> [0..Gap - 1 -> Nat]] /\ 0 \in 0..Gap - 1
      /\ used \in [Stores -> 0..Limit] /\ since \in [Stores -> 0..Gap]
      /\ windows[s] \in WindowType /\ used[s] \in Nat /\ since[s] \in 0..Gap
      /\ used[s] \in 0..Limit
  BY GapPositive, RateAssumption DEF BudgetInv, Budgeted, LimiterInv, TypeOK
<1>b. \A r \in Stores : WithinBudgets(admitted[r], used[r], since[r])
  BY DEF BudgetInv, Budgeted
<1>c. /\ admitted' = IF Allowed(next) THEN [admitted EXCEPT ![s][0] = @ + 1] ELSE admitted
      /\ used' = [used EXCEPT ![s] = IF Over(w, age) THEN 1
                                     ELSE IF Allowed(next) THEN @ + 1 ELSE @]
      /\ since' = IF Over(w, age) THEN [since EXCEPT ![s] = 0] ELSE since
  BY DEF Count
<1>1. [admitted EXCEPT ![s][0] = @ + 1] = [admitted EXCEPT ![s] = more]
  BY <1>t
<1>2. more \in [0..Gap - 1 -> Nat]
  <2> DEFINE counts == admitted[s]
  <2>1. counts \in [0..Gap - 1 -> Nat] /\ 0 \in 0..Gap - 1
    BY <1>t, Zenon
  <2>2. [counts EXCEPT ![0] = counts[0] + 1] \in [0..Gap - 1 -> Nat]
    <3> HIDE DEF counts
    <3>1. counts[0] + 1 \in Nat
      BY <2>1
    <3> QED BY <2>1, <3>1
  <2> QED BY <2>2
<1>3. CASE ~Allowed(next) /\ ~Over(w, age)
  BY <1>3, <1>b, <1>c, <1>t DEF Budgeted
<1>4. CASE Allowed(next) /\ ~Over(w, age)
  <2>1. WithinBudgets(more, used[s] + 1, since[s])
    BY <1>b, <1>t, OneAdmitted
  <2>2. /\ admitted' = [admitted EXCEPT ![s] = more] /\ since' = since
        /\ used' = [used EXCEPT ![s] = used[s] + 1]
    BY <1>4, <1>c, <1>1
  <2> HIDE DEF more, next
  <2> QED BY <2>1, <2>2, <1>b, <1>t, <1>2 DEF Budgeted
<1>5. CASE Over(w, age)
  <2>1. since[s] = Gap
    <3>1. Over(windows[s], age)
      BY <1>5 DEF Over, Swept
    <3> QED BY <3>1, OverMeansDue DEF BudgetInv
  <2>2. Allowed(next)
    BY <1>5, RateAssumption DEF Upsert, Allowed
  <2>3. WithinBudgets(more, 1, 0)
    BY <2>1, <1>b, <1>t, WindowBegun
  <2>4. /\ admitted' = [admitted EXCEPT ![s] = more] /\ since' = [since EXCEPT ![s] = 0]
        /\ used' = [used EXCEPT ![s] = 1]
    BY <1>5, <2>2, <1>c, <1>1
  <2> HIDE DEF more, next
  <2> QED BY <2>3, <2>4, <1>b, <1>t, <1>2 DEF Budgeted
<1> QED BY <1>3, <1>4, <1>5

LEMMA NextBudgeted ==
  ASSUME BudgetInv, [LimiterNext]_limiterVars
  PROVE  Budgeted'
<1>t. /\ admitted \in [Stores -> [0..Gap - 1 -> Nat]]
      /\ used \in [Stores -> 0..Limit] /\ since \in [Stores -> 0..Gap]
      /\ \A s \in Stores : used[s] \in Nat
  BY RateAssumption DEF BudgetInv, Budgeted, LimiterInv, TypeOK
<1>b. \A s \in Stores : WithinBudgets(admitted[s], used[s], since[s])
  BY DEF BudgetInv, Budgeted
<1>1. CASE ClockTick
  <2>1. /\ admitted' = [s \in Stores |-> [a \in 0..Gap - 1 |->
                          IF a = 0 THEN 0 ELSE admitted[s][a - 1]]]
        /\ since' = [s \in Stores |-> Later(since[s], Gap)] /\ used' = used
    BY <1>1 DEF ClockTick
  <2>2. ASSUME NEW s \in Stores
        PROVE  WithinBudgets(admitted'[s], used'[s], since'[s])
    <3>1. WithinBudgets([a \in 0..Gap - 1 |-> IF a = 0 THEN 0 ELSE admitted[s][a - 1]],
                        used[s], Later(since[s], Gap))
      BY <1>b, <1>t, TimeAdmitted
    <3> QED BY <2>1, <3>1
  <2>3. \A s \in Stores : admitted'[s] \in [0..Gap - 1 -> Nat]
    BY <2>2 DEF WithinBudgets
  <2> QED BY <2>1, <2>2, <2>3 DEF Budgeted
<1>2. ASSUME NEW i \in Instances, Redeploy(i) PROVE Budgeted'
  <2>1. /\ i \in Stores /\ used' = [used EXCEPT ![i] = 0]
        /\ since' = [since EXCEPT ![i] = Gap]
        /\ admitted' = [admitted EXCEPT ![i] = [a \in 0..Gap - 1 |-> 0]]
    BY <1>2 DEF Redeploy, Stores
  <2>2. WithinBudgets([a \in 0..Gap - 1 |-> 0], 0, Gap)
    BY NothingAdmitted
  <2>3. [a \in 0..Gap - 1 |-> 0] \in [0..Gap - 1 -> Nat]
    OBVIOUS
  <2> QED BY <2>1, <2>2, <2>3, <1>b, <1>t DEF Budgeted
<1>3. CASE UNCHANGED <<used, since, admitted>>
  BY <1>3, <1>b, <1>t DEF Budgeted
<1> QED BY <1>1, <1>2, <1>3, CountBudgeted, Histories DEF BudgetInv

LEMMA UncheckedFinite ==
  ASSUME LimiterInv
  PROVE  IsFiniteSet(Unchecked)
<1> DEFINE Ago(a) == {a} \X (-unchecked[a]..-1)
<1>1. ASSUME NEW a \in 0..Gap - 1 PROVE IsFiniteSet(Ago(a))
  <2>1. unchecked[a] \in Nat
    BY DEF LimiterInv, TypeOK
  <2>2. IsFiniteSet(-unchecked[a]..-1)
    <3>1. -unchecked[a] \in Int /\ -1 \in Int
      BY <2>1
    <3> QED BY <3>1, FS_Interval
  <2>3. IsFiniteSet({a})
    BY FS_Singleton
  <2> QED BY <2>2, <2>3, FS_Product
<1>2. IsFiniteSet({Ago(a) : a \in 0..Gap - 1})
  <2>1. IsFiniteSet(0..Gap - 1)
    BY GapPositive, FS_Interval
  <2> DEFINE f == [a \in 0..Gap - 1 |-> Ago(a)]
  <2>2. f \in Surjection(0..Gap - 1, {Ago(a) : a \in 0..Gap - 1})
    <3> HIDE DEF Ago
    <3> QED BY DEF Surjection
  <2> HIDE DEF Ago, f
  <2> QED BY <2>1, <2>2, FS_Surjection
<1>3. \A T \in {Ago(a) : a \in 0..Gap - 1} : IsFiniteSet(T)
  <2> HIDE DEF Ago
  <2> QED BY <1>1
<1>4. IsFiniteSet(UNION {Ago(a) : a \in 0..Gap - 1})
  <2> HIDE DEF Ago
  <2> QED BY <1>2, <1>3, FS_UNION
<1> QED BY <1>4 DEF Unchecked

\* In any Gap ticks, with any number of processes and calls, however late
\* their statements and sweeps land, a store lets through at most two budgets,
\* what was left of one window and the one that began after it, and one request
\* for each statement that failed.
THEOREM TwoBudgetsAtMost == LimiterSpec => []TwoBudgetsPerWindow
<1>1. LimiterInit => BudgetInv
  <2> SUFFICES ASSUME LimiterInit PROVE BudgetInv
    OBVIOUS
  <2>1. admitted = [s \in Stores |-> [a \in 0..Gap - 1 |-> 0]]
        /\ used = [s \in Stores |-> 0]
    BY DEF LimiterInit
  <2>2. \A s \in Stores : WithinBudgets([a \in 0..Gap - 1 |-> 0], 0, since[s])
    BY NothingAdmitted
  <2> QED BY <2>1, <2>2, LimiterStarts DEF BudgetInv, Budgeted
<1>2. BudgetInv /\ [LimiterNext]_limiterVars => BudgetInv'
  BY LimiterStepKeeps, NextBudgeted DEF BudgetInv
<1>3. BudgetInv => TwoBudgetsPerWindow
  <2> SUFFICES ASSUME BudgetInv, NEW s \in Stores
               PROVE  Cardinality(LetThrough(s)) <= 2 * Limit + Cardinality(Failures(s))
    BY DEF TwoBudgetsPerWindow
  <2>1. Lately(s) = AdmittedOver(admitted[s])
    BY DEF Lately, AdmittedOver
  <2>2. WithinBudgets(admitted[s], used[s], since[s]) /\ used[s] \in 0..Limit
    BY DEF BudgetInv, Budgeted, LimiterInv, TypeOK
  <2>3. IsFiniteSet(Lately(s)) /\ Cardinality(Lately(s)) <= 2 * Limit
    <3>1. /\ IsFiniteSet(Lately(s)) /\ Cardinality(Lately(s)) <= Limit + used[s]
          /\ Cardinality(Lately(s)) \in Nat
      BY <2>1, <2>2, FS_CardinalityType DEF WithinBudgets
    <3> QED BY <3>1, <2>2, RateAssumption
  <2>4. IsFiniteSet(Failures(s))
    BY UncheckedFinite, FS_EmptySet DEF Failures, BudgetInv
  <2>5. /\ IsFiniteSet(Lately(s) \cup Failures(s))
        /\ Cardinality(Lately(s) \cup Failures(s)) =
             Cardinality(Lately(s)) + Cardinality(Failures(s))
               - Cardinality(Lately(s) \cap Failures(s))
    BY <2>3, <2>4, FS_Union
  <2>6. IsFiniteSet(Lately(s) \cap Failures(s))
    BY <2>3, FS_Intersection
  <2>7. /\ Cardinality(Lately(s)) \in Nat /\ Cardinality(Failures(s)) \in Nat
        /\ Cardinality(Lately(s) \cap Failures(s)) \in Nat
    BY <2>3, <2>4, <2>6, FS_CardinalityType
  <2> DEFINE k == Cardinality(Lately(s))
             m == Cardinality(Failures(s))
             n == Cardinality(Lately(s) \cap Failures(s))
  <2>8. k + m - n <= 2 * Limit + m
    <3>1. k \in Nat /\ m \in Nat /\ n \in Nat /\ k <= 2 * Limit /\ Limit \in Nat
      BY <2>3, <2>7, RateAssumption
    <3> HIDE DEF k, m, n
    <3> QED BY <3>1
  <2> QED BY <2>5, <2>8 DEF LetThrough
<1> QED BY <1>1, <1>2, <1>3, PTL DEF LimiterSpec
=============================================================================
