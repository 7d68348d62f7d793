--------------------------- MODULE MCCatalogImport ---------------------------
(***************************************************************************)
(* One page and the script over two works of one title, the second seeded, *)
(* the first without a poster; either the source is revised and seasons    *)
(* are lost, or shows are backfilled and a third work, gated, is listed as *)
(* well.                                                                   *)
(***************************************************************************)
EXTENDS CatalogImport

McAbout == [w \in {"one", "two", "gated"} |->
  [japanese |-> w = "one", animated |-> w = "one", porn |-> FALSE, erotic |-> w = "gated",
   runtimes |-> IF w = "one" THEN {24} ELSE {}, title |-> "same"]]
McWorks == DOMAIN McAbout
McTree  == [w \in McWorks |-> IF w = "one" THEN [n \in {0, 1, 2} |-> 1] ELSE [n \in {1} |-> 1]]
McListings == {<< <<"one", "gated">>, <<"one", "two">> >>, << <<"two">>, <<>>, <<"one">> >>}
McScopes ==
  {[imports |-> 2, revisions |-> 1, lossy |-> TRUE, backfill |-> FALSE,
    listings |-> {<< <<"one">> >>}],
   [imports |-> 3, revisions |-> 0, lossy |-> FALSE, backfill |-> TRUE, listings |-> McListings]}
=============================================================================
