----------------------------- MODULE WatchStatus -----------------------------
(***************************************************************************)
(* The status of a library entry and the rules syncProgress resolves it    *)
(* by, shared by the modules that run syncProgress.                        *)
(***************************************************************************)
EXTENDS Integers

Statuses == {"PLAN_TO_WATCH", "WATCHING", "COMPLETED", "ON_HOLD", "DROPPED",
             "REWATCHING"}
NotInLibrary == "NONE"   \* no UserShow row; as a request, none made

\* Faulty variant: a completed show stays completed whatever is un-marked.
ResolveStatusStaysCompleted(was, desired, complete, watched) ==
  IF desired \notin {NotInLibrary, "COMPLETED"} THEN desired
  ELSE IF complete \/ was = "COMPLETED" THEN "COMPLETED"
  ELSE IF watched > 0 THEN "WATCHING" ELSE "PLAN_TO_WATCH"

\* The status rules of syncProgress, in the order the code tries them.
\* desired is NotInLibrary when the caller asks for nothing.
ResolveStatus(was, desired, complete, watched) ==
  IF desired \notin {NotInLibrary, "COMPLETED"} THEN desired
  ELSE IF complete THEN IF was = "REWATCHING" THEN was ELSE "COMPLETED"
  ELSE IF was = "COMPLETED" THEN "WATCHING"
  ELSE IF was \in {"DROPPED", "ON_HOLD"} THEN was
  ELSE IF watched > 0 THEN IF was = "REWATCHING" THEN was ELSE "WATCHING"
  ELSE IF was = "WATCHING" THEN "PLAN_TO_WATCH" ELSE was
=============================================================================
