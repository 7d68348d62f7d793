------------------------------- MODULE Accounts -------------------------------
(***************************************************************************)
(* One account and the browsers that use it: auth.service.ts, session.ts   *)
(* and the cookie, with the time hashing a password takes between a check  *)
(* and the write that rests on it.                                         *)
(*                                                                         *)
(* A password is the number of times it was set; an expiry is the ticks    *)
(* left.  Each request of a device is a series of steps between awaits,    *)
(* and its process may be lost at any of them.  Left out: addresses, the   *)
(* wording of refusals, bans, the rate limiter (RateLimit), other accounts. *)
(***************************************************************************)
EXTENDS Integers, FiniteSets

CONSTANTS
  Devices,
  SessionIds,    \* bound: sessions and cookies at one time
  LinkIds,       \* bound: reset links ever created
  Scopes,        \* bounds a behaviour keeps to, one of these: how often a password
                 \* is set, which links are created, whether time passes
  Ttl,           \* AUTH_SESSION_TTL_DAYS, in ticks
  Threshold,     \* SLIDING_REFRESH_THRESHOLD_MS, in ticks
  MaxDelay       \* ticks a slide may be late

ASSUME AccountsAssumption ==
  /\ Ttl \in Nat /\ Threshold \in Nat /\ MaxDelay \in Nat
  /\ MaxDelay <= Threshold /\ Threshold + MaxDelay < Ttl
  /\ Scopes \subseteq [passwords : Nat, links : SUBSET LinkIds, timed : BOOLEAN]

VARIABLES
  scope,
  password,   \* the stored one; 0 before the account exists
  session,    \* the session table; owed is history: the ticks for which the
              \* last visit promises the session
  link,       \* the table of reset links
  cookie,     \* per device, the session its cookie names and the ticks the cookie has left
  request,    \* per device, what its request does next
  slides,     \* slideExpiry calls under way: [of, age]
  history     \* of races, losses and what links did

tables == <<password, session, link>>
vars == <<scope, password, session, link, cookie, request, slides, history>>

None     == "none"
NoCookie == [of |-> None, left |-> 0]
NoRow    == [left |-> -1, quiet |-> 0, under |-> 0, owed |-> 0]
Resting  == [pc |-> "idle", under |-> 0, about |-> None, seen |-> {}]

Rows == {s \in SessionIds : session[s] # NoRow}
Unused == {l \in LinkIds : link[l] \in {"live", "expired"}}

\* stale: sessions were ended by a request Overtaken, or its process was lost
\* before ending them;
\* twice: links two confirmations of which overlapped; crossed: two requests
\* for a link overlapped; spent: per link, how often it set the password or was
\* voided.
Init ==
  /\ scope \in Scopes
  /\ password = 0
  /\ session = [s \in SessionIds |-> NoRow]
  /\ link    = [l \in LinkIds |-> None]
  /\ cookie  = [d \in Devices |-> NoCookie]
  /\ request = [d \in Devices |-> Resting]
  /\ slides  = {}
  /\ history = [stale |-> FALSE, crossed |-> FALSE, twice |-> {},
                spent |-> [l \in LinkIds |-> 0]]

At(d, pc)     == request[d].pc = pc
Go(d, next)   == request' = [request EXCEPT ![d] = next]
Step(d, pc)   == Go(d, [request[d] EXCEPT !.pc = pc])
End(d)        == Go(d, Resting)

\* A request begins at an idle device, and about something goes on at pc.
Starts(d, pc, about) == At(d, "idle") /\ Go(d, [Resting EXCEPT !.pc = pc, !.about = about])

\* The next link has an id nobody has seen.
Unborn == {l \in scope.links : link[l] = None}

-----------------------------------------------------------------------------
(* session.ts.                                                             *)

\* createSession, the last step of signing in, registering and setting a
\* password; the cookie goes out with the answer.
Issue(d) == \E s \in SessionIds :
  /\ At(d, "issue")
  /\ s \notin Rows /\ \A e \in Devices \ {d} : cookie[e].of # s /\ request[e].about # s
  /\ \A slide \in slides : slide.of # s
  /\ session' = [session EXCEPT ![s] = [left |-> Ttl, quiet |-> 0, under |-> request[d].under,
                                      owed |-> Ttl - Threshold]]
  /\ cookie' = [cookie EXCEPT ![d] = [of |-> s, left |-> Ttl]]
  /\ End(d)
  /\ UNCHANGED <<scope, password, link, slides, history>>

Valid(d) == cookie[d].of \in Rows /\ session[cookie[d].of].left > 0

\* slideExpiry is started by a visit, and nobody waits for it.
Seen(s) ==
  /\ slides' = IF session[s].quiet >= Threshold
               THEN slides \cup {[of |-> s, age |-> 0]} ELSE slides
  /\ session' = [session EXCEPT ![s].owed = Ttl - Threshold]

\* getOptionalSession finds the session good.
Visit(d) ==
  /\ At(d, "idle") /\ Valid(d)
  /\ Seen(cookie[d].of)
  /\ UNCHANGED <<scope, password, link, cookie, request, history>>

\* It finds the session expired, and deletes it in a statement of its own.
VisitExpired(d) ==
  /\ cookie[d].of \in Rows /\ session[cookie[d].of].left <= 0
  /\ Starts(d, "sweep", cookie[d].of)
  /\ UNCHANGED <<scope, cookie, slides, history>> /\ UNCHANGED tables

DeleteExpired(d) ==
  /\ At(d, "sweep")
  /\ session' = [session EXCEPT ![request[d].about] = NoRow]
  /\ End(d)
  /\ UNCHANGED <<scope, password, link, cookie, slides, history>>

\* Faulty variant: the new expiry counts from the old one.
SlideLandsShort(slide) ==
  /\ slide \in slides
  /\ session' = IF slide.of \in Rows
                THEN [session EXCEPT ![slide.of].quiet = slide.age] ELSE session
  /\ slides' = slides \ {slide}
  /\ UNCHANGED <<scope, password, link, cookie, request, history>>

\* The update is of a row by its id; that it is gone is caught.
SlideLands(slide) ==
  /\ slide \in slides
  /\ session' = IF slide.of \in Rows
                THEN [session EXCEPT ![slide.of].left = Ttl - slide.age,
                                     ![slide.of].quiet = slide.age]
                ELSE session
  /\ slides' = slides \ {slide}
  /\ UNCHANGED <<scope, password, link, cookie, request, history>>

\* The failure is logged; the visit it was for promises nothing.
SlideFails(slide) ==
  /\ slide \in slides
  /\ slides' = slides \ {slide}
  /\ session' = IF slide.of \in Rows THEN [session EXCEPT ![slide.of].owed = 0] ELSE session
  /\ UNCHANGED <<scope, password, link, cookie, request, history>>

\* The browser drops a cookie that has run out, by its own clock.
CookieExpires(d) ==
  /\ cookie[d] # NoCookie /\ cookie[d].left = 0
  /\ cookie' = [cookie EXCEPT ![d] = NoCookie]
  /\ UNCHANGED <<scope, password, session, link, request, slides, history>>

\* destroyCurrentSession: the cookie goes whether or not the row does.
Logout(d) ==
  /\ At(d, "idle") /\ cookie[d] # NoCookie
  /\ cookie' = [cookie EXCEPT ![d] = NoCookie]
  /\ session' \in {session, [session EXCEPT ![cookie[d].of] = NoRow]}
  /\ UNCHANGED <<scope, password, link, request, slides, history>>

\* A login that checked an older password is yet to be issued its session, or
\* the password this request set has been replaced already.
Overtaken(d) == request[d].under # password \/ \E e \in Devices \ {d} : At(e, "issue")

\* Faulty variant: the device that asked keeps its session.
EndSessionsButOwn(d) ==
  /\ At(d, "end")
  /\ session' = [s \in SessionIds |-> IF s = cookie[d].of THEN session[s] ELSE NoRow]
  /\ history' = [history EXCEPT !.stale = @ \/ Overtaken(d)]
  /\ Step(d, "issue")
  /\ UNCHANGED <<scope, password, link, cookie, slides>>

\* destroyAllSessionsForUser, after the password was set.
EndSessions(d) ==
  /\ At(d, "end")
  /\ session' = [s \in SessionIds |-> NoRow]
  /\ history' = [history EXCEPT !.stale = @ \/ Overtaken(d)]
  /\ Step(d, "issue")
  /\ UNCHANGED <<scope, password, link, cookie, slides>>

-----------------------------------------------------------------------------
(* register and login.                                                     *)

RegisterFind(d) ==
  /\ password = 0
  /\ Starts(d, "create", None)
  /\ UNCHANGED <<scope, cookie, slides, history>> /\ UNCHANGED tables

\* The unique index refuses the second of two that found the name free.
RegisterCreate(d) ==
  /\ At(d, "create")
  /\ IF password = 0
       THEN password' = 1 /\ Go(d, [request[d] EXCEPT !.pc = "issue", !.under = 1])
       ELSE UNCHANGED password /\ End(d)
  /\ UNCHANGED <<scope, session, link, cookie, slides, history>>

\* The password is compared with the hash read here; the session comes later.
Login(d) ==
  /\ At(d, "idle") /\ password > 0
  /\ Go(d, [Resting EXCEPT !.pc = "issue", !.under = password])
  /\ UNCHANGED <<scope, cookie, slides, history>> /\ UNCHANGED tables

-----------------------------------------------------------------------------
(* Setting a password.                                                     *)

SetPassword(d) ==
  /\ password' = password + 1
  /\ Go(d, [request[d] EXCEPT !.pc = "end", !.under = password + 1])

\* changePassword has compared the current password.
ChangeCheck(d) ==
  /\ Valid(d) /\ password < scope.passwords
  /\ Starts(d, "change", None)
  /\ Seen(cookie[d].of)
  /\ UNCHANGED <<scope, password, link, cookie, history>>

ChangeWrite(d) ==
  /\ At(d, "change") /\ password < scope.passwords
  /\ SetPassword(d)
  /\ UNCHANGED <<scope, session, link, cookie, slides, history>>

\* requestPasswordReset: the links seen unused go when the new one comes.
LinkDelete(d) ==
  /\ At(d, "idle") /\ password > 0
  /\ Go(d, [Resting EXCEPT !.pc = "link", !.seen = Unused])
  /\ history' = [history EXCEPT !.crossed = @ \/ \E e \in Devices \ {d} : At(e, "link")]
  /\ UNCHANGED <<scope, cookie, slides>> /\ UNCHANGED tables

\* Faulty variant: the links sent before stay.
LinkCreateOnly(d) == \E l \in Unborn :
  /\ At(d, "link")
  /\ link' = [link EXCEPT ![l] = "live"]
  /\ End(d)
  /\ UNCHANGED <<scope, password, session, cookie, slides, history>>

LinkCreate(d) == \E l \in Unborn :
  /\ At(d, "link")
  /\ link' = [k \in LinkIds |-> CASE k = l -> "live"
                                  [] k \in request[d].seen \cap Unused -> "deleted"
                                  [] OTHER -> link[k]]
  /\ End(d)
  /\ UNCHANGED <<scope, password, session, cookie, slides, history>>

\* confirmPasswordReset has found the link good, and hashes the password.
ConfirmCheck(d) == \E l \in LinkIds :
  /\ link[l] = "live" /\ password < scope.passwords
  /\ Starts(d, "confirm", l)
  /\ UNCHANGED <<scope, cookie, slides, history>> /\ UNCHANGED tables

\* Faulty variant: updateMany, which does not mind that the link has gone.
ConfirmAnyway(d) ==
  LET l == request[d].about IN
  /\ At(d, "confirm") /\ password < scope.passwords
  /\ SetPassword(d)
  /\ link' = [k \in LinkIds |-> IF k = l /\ link[l] # "deleted" THEN "used"
                                ELSE IF k \in Unused THEN "deleted" ELSE link[k]]
  /\ history' = [history EXCEPT
       !.spent = [k \in LinkIds |-> IF k \in Unused \cup {l} THEN @[k] + 1 ELSE @[k]],
       !.twice = IF \E e \in Devices \ {d} : At(e, "confirm") /\ request[e].about = l
                 THEN @ \cup {l} ELSE @]
  /\ UNCHANGED <<scope, session, cookie, slides>>

\* One transaction: the password, this link used, every other unused one gone.
\* A link deleted meanwhile makes the update throw, and the password stays.
Confirm(d) ==
  LET l == request[d].about IN
  /\ At(d, "confirm") /\ password < scope.passwords
  /\ \/ /\ link[l] = "deleted"
        /\ End(d)
        /\ UNCHANGED history /\ UNCHANGED tables
     \/ /\ link[l] # "deleted"
        /\ SetPassword(d)
        /\ link' = [k \in LinkIds |-> IF k = l THEN "used"
                                      ELSE IF k \in Unused THEN "deleted" ELSE link[k]]
        /\ history' = [history EXCEPT
             !.spent = [k \in LinkIds |-> IF k \in Unused \cup {l} THEN @[k] + 1 ELSE @[k]],
             !.twice = IF \E e \in Devices \ {d} : At(e, "confirm") /\ request[e].about = l
                       THEN @ \cup {l} ELSE @]
        /\ UNCHANGED session
  /\ UNCHANGED <<scope, cookie, slides>>

-----------------------------------------------------------------------------
(* The environment.                                                        *)

\* The process is lost, or a statement of the request fails.
Lose(d) ==
  /\ ~At(d, "idle")
  /\ End(d)
  /\ history' = [history EXCEPT !.stale = @ \/ At(d, "end")]
  /\ UNCHANGED <<scope, cookie, slides>> /\ UNCHANGED tables

LinkExpires(l) ==
  /\ link[l] = "live"
  /\ link' = [link EXCEPT ![l] = "expired"]
  /\ UNCHANGED <<scope, password, session, cookie, request, slides, history>>

Tick ==
  /\ scope.timed
  /\ \A slide \in slides : slide.age < MaxDelay
  /\ session' = [s \in SessionIds |->
       IF s \notin Rows THEN NoRow
       ELSE [session[s] EXCEPT !.left = IF @ > 0 THEN @ - 1 ELSE 0,
                               !.quiet = IF @ < Threshold THEN @ + 1 ELSE @,
                               !.owed = IF @ > 0 THEN @ - 1 ELSE 0]]
  /\ slides' = {[slide EXCEPT !.age = @ + 1] : slide \in slides}
  /\ cookie' = [d \in Devices |-> [cookie[d] EXCEPT !.left = IF @ > 0 THEN @ - 1 ELSE 0]]
  /\ UNCHANGED <<scope, password, link, request, history>>

Next ==
  \/ \E d \in Devices :
       \/ Issue(d) \/ Visit(d) \/ VisitExpired(d) \/ DeleteExpired(d) \/ CookieExpires(d) \/ Logout(d)
       \/ EndSessions(d) \/ RegisterFind(d) \/ RegisterCreate(d) \/ Login(d)
       \/ ChangeCheck(d) \/ ChangeWrite(d) \/ LinkDelete(d) \/ LinkCreate(d)
       \/ ConfirmCheck(d) \/ Confirm(d) \/ Lose(d)
  \/ \E slide \in slides : SlideLands(slide) \/ SlideFails(slide)
  \/ \E l \in LinkIds : LinkExpires(l)
  \/ Tick

Spec == Init /\ [][Next]_vars

-----------------------------------------------------------------------------
(* Properties.                                                             *)

\* A password change ends every other session: unless a login checked the old
\* password and is issued its session after the deletion, two changes overlap,
\* or the process is lost between the change and the deletion, no session
\* issued under an older password is left.
ChangeEndsSessions ==
  ~history.stale /\ (\A d \in Devices : ~At(d, "end"))
    => \A s \in Rows : session[s].under = password

\* A reset link sets the password at most once, and not at all once another
\* has: a confirmation that checked its link before it was voided fails.  Only
\* confirmations of one link that overlap can both succeed.
LinkWorksOnce == \A l \in LinkIds \ history.twice : history.spent[l] <= 1

\* Only one reset link is live at a time, unless two requests for one overlapped.
OneLiveLink == ~history.crossed => Cardinality(Unused) <= 1

\* A session that is visited often enough does not expire: each visit is good
\* for Ttl - Threshold ticks, as long as no slide is under way or failed.
ActiveStaysSignedIn == \A s \in Rows :
  session[s].owed > 0 /\ (\A slide \in slides : slide.of # s) => session[s].left > 0
=============================================================================
