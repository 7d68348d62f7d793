--------------------------- MODULE MetadataProvider ---------------------------
(***************************************************************************)
(* What the metadata providers make of their source: the TMDB provider,    *)
(* and the local one, which serves the catalogue itself.                   *)
(*                                                                         *)
(* A work is a show as the world knows it; About[w] is what the source     *)
(* says of it.  Titles, artwork, dates, cast and credits are left out.     *)
(***************************************************************************)
EXTENDS Integers, SequencesExt

CONSTANTS
  Works,
  About,      \* [Works -> [japanese, animated, porn, erotic : BOOLEAN,
              \*            runtimes : SUBSET Nat, title : a title]]
  PageSize,   \* results on a page of the source
  MaxPages    \* MAX_PAGES

ShortRuntime == 15   \* EROTIC_SHORT_MAX_RUNTIME

\* toSummary: there is no flag for anime.
TypeOf(w) == IF About[w].japanese /\ About[w].animated THEN "ANIME" ELSE "TV"

OfType(w, type) == type \in {TypeOf(w), "ANY"}

\* isPornographic, from the keywords; a missing runtime counts as short.
Gated(w) ==
  \/ About[w].porn
  \/ About[w].erotic /\ \A minutes \in About[w].runtimes : minutes <= ShortRuntime

FirstOf(s, limit) == SubSeq(s, 1, IF Len(s) < limit THEN Len(s) ELSE limit)

\* Each work once, at its first place.
Deduped(s) ==
  FoldLeft(LAMBDA kept, w : IF w \in ToSet(kept) THEN kept ELSE Append(kept, w), <<>>, s)

\* The filtered shortlist of results loses what the gate refuses; a lookup that
\* fails (unsure) refuses nothing.
Search(results, type, limit, unsure) ==
  SelectSeq(FirstOf(SelectSeq(results, LAMBDA w : OfType(w, type)), limit),
            LAMBDA w : w \in unsure \/ ~Gated(w))

\* As many pages as limit results take, the first empty or failed one ends it.
Trending(pages, type, limit) ==
  LET enough == (limit + PageSize - 1) \div PageSize
      asked  == FirstOf(pages, IF enough < MaxPages THEN enough ELSE MaxPages)
      served == SelectInSeq(asked, LAMBDA page : page = <<>>)
      read   == IF served = 0 THEN asked ELSE SubSeq(asked, 1, served - 1)
  IN  FirstOf(Deduped(SelectSeq(FlattenSeq(read), LAMBDA w : OfType(w, type))), limit)

\* getShow: nothing when the request fails or the gate refuses, else the seasons
\* whose own requests are answered; specials are not asked for.
Details(w, tree, answered) ==
  IF Gated(w) THEN {}
  ELSE {[n \in S \ {0} |-> tree[n]] : S \in answered}
=============================================================================
