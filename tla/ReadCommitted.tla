---------------------------- MODULE ReadCommitted ----------------------------
(***************************************************************************)
(* Interactive transactions as the services use them: $transaction is      *)
(* called without an isolation level, so each runs at READ COMMITTED.      *)
(* A statement sees what is committed when it runs and the transaction's   *)
(* own writes; a statement that writes a row waits until no other open     *)
(* transaction has written it.  db is the committed database, a function   *)
(* from row ids; tx[c].mine is the part of it client c's open transaction  *)
(* has written, and so the rows it holds locked; tx[c].pc is its next      *)
(* statement, beside whatever locals the call has.                         *)
(***************************************************************************)
EXTENDS TLC

CONSTANT Clients   \* concurrent requests

VARIABLES
  db,       \* the committed rows
  tx        \* per client, the call it is in: next statement, locals, writes

Idle == [pc |-> "idle", mine |-> <<>>]

\* f, and g where f has no say.
Over(f, g) == [x \in DOMAIN f \cup DOMAIN g |-> IF x \in DOMAIN f THEN f[x] ELSE g[x]]

\* f with value at r.
With(f, r, value) == [x \in DOMAIN f \cup {r} |-> IF x = r THEN value ELSE f[x]]

See(c)     == Over(tx[c].mine, db)
Free(c, r) == \A d \in Clients \ {c} : r \notin DOMAIN tx[d].mine

\* c goes on with the locals and the next statement in next.
Advance(c, next) ==
  /\ tx' = [tx EXCEPT ![c] = Over(next, @)]
  /\ UNCHANGED db

Put(c, r, value, next) ==
  /\ Free(c, r)
  /\ tx' = [tx EXCEPT ![c] = Over(next, [tx[c] EXCEPT !.mine = With(@, r, value)])]
  /\ UNCHANGED db

\* A statement that throws, or aborts the transaction, undoes all of it.
Abort(c) ==
  /\ tx' = [tx EXCEPT ![c] = Idle]
  /\ UNCHANGED db

\* The last statement of a transaction, which writes the rows of values, and
\* the commit after it: nobody sees anything in between.
Finish(c, values) ==
  /\ \A r \in DOMAIN values : Free(c, r)
  /\ db' = Over(values, See(c))
  /\ tx' = [tx EXCEPT ![c] = Idle]

Publish(c) ==
  /\ db' = See(c)
  /\ tx' = [tx EXCEPT ![c] = Idle]
=============================================================================
