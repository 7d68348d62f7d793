----------------------------- MODULE CatalogImport -----------------------------
(***************************************************************************)
(* Shows entering the catalogue: catalog.service.ts as the show page calls *)
(* it, in a transaction, and as scripts/import-tmdb.ts does, statement by  *)
(* statement without one, with the backfill that gives seeded shows their  *)
(* provider identity.                                                      *)
(*                                                                         *)
(* A season is a number of episodes, 1 up to it; a slug is a base with a   *)
(* suffix, or with an id.  One studio stands for the genres, credits and   *)
(* people shows share.  Left out: presentation fields, and the rate        *)
(* limiter in front of the page.                                           *)
(***************************************************************************)
EXTENDS ReadCommitted, MetadataProvider, FiniteSetsExt

CONSTANTS
  Script,        \* the client that is the import script; the others are pages
  Seeded,        \* works the seed put into the catalogue
  Posterless,    \* works the provider has no poster of
  Tree,          \* per work, [seasons -> episodes] at the source in the beginning
  Scopes,        \* bounds a behaviour keeps to, one of these: imports begun,
                 \* revisions of the source, whether requests for a season may
                 \* fail, whether the script backfills, the pages it may be served
  MaxEpisodes,   \* bound: episodes of a season
  MaxSuffix,     \* numeric suffixes uniqueSlug tries
  Concurrency,   \* works the script fetches at once
  MaxCopies      \* bound: rows created for a work, no more than a behaviour's imports

ASSUME CatalogAssumption ==
  /\ IsFiniteSet(Works) /\ Seeded \cup Posterless \subseteq Works /\ Script \in Clients
  /\ MaxEpisodes \in Nat /\ {MaxSuffix, Concurrency, MaxCopies} \subseteq Nat \ {0}
  /\ \A w \in Works : DOMAIN Tree[w] \subseteq Nat /\ Tree[w] \in [DOMAIN Tree[w] -> Nat]

VARIABLES
  scope,
  source,    \* per work, the seasons at the source
  script,    \* [left, window]: works listed, and <<work, detail>> fetched
  flawed,    \* history: shows last written short, torn, or by overlapping imports
  history    \* [imports, revisions, disturbed, failed]: counts, whether imports
             \* overlapped or a provider's show was given another identity, and
             \* whether an import threw

vars == <<db, tx, scope, source, script, flawed, history>>

Nothing == <<"nothing">>
NoShow  == [identity |-> <<"none", "none">>, slug |-> <<"none", 0, "none">>,
            seasons |-> 0, episodes |-> 0]

\* A show's row is named by the identity it was created with and a number: once
\* it has been given another identity, the work can be imported again.
SourceIds    == {"local", "tmdb"} \X Works
Shows        == {"local", "tmdb"} \X Works \X (1..MaxCopies)
Show(s)      == <<"Show", s>>
Season(s, n) == <<"Season", s, n>>
Studio       == <<"Credit">>

SeasonsOf(w) == DOMAIN Tree[w] \ {0}
AllSeasons   == UNION {SeasonsOf(w) : w \in Works}

\* The episodes of a function from seasons to their numbers.
Episodes(f) == UNION {{n} \X (1..f[n]) : n \in DOMAIN f}
Sum(f)      == Cardinality(Episodes(f))

Slug(w, k) == <<About[w].title, k, "">>
OwnSlug(w) == <<About[w].title, 0, w>>

NoSeason == [count |-> 0, stored |-> 0]

FromSeed(s) == s[1] = "local" /\ s[2] \in Seeded /\ s[3] = 1

\* seed.ts: identities of its own, slugs from the titles, stamped totals.
SeededShow(w) == [identity |-> <<"local", w>>, slug |-> Slug(w, 1),
                  seasons |-> Cardinality(SeasonsOf(w)),
                  episodes |-> Sum([n \in SeasonsOf(w) |-> Tree[w][n]])]

Init ==
  /\ scope \in Scopes
  /\ source = Tree
  /\ db = [r \in {Show(s) : s \in Shows} \cup {Studio}
               \cup {Season(s, n) : s \in Shows, n \in AllSeasons} |->
             CASE r = Studio -> FALSE
               [] r[1] = "Show" ->
                    IF FromSeed(r[2]) THEN SeededShow(r[2][2]) ELSE NoShow
               [] OTHER ->
                    IF FromSeed(r[2]) /\ r[3] \in SeasonsOf(r[2][2])
                    THEN [count |-> Tree[r[2][2]][r[3]], stored |-> Tree[r[2][2]][r[3]]]
                    ELSE NoSeason]
  /\ tx = [c \in Clients |-> Idle]
  /\ script = [left |-> <<>>, window |-> {}]
  /\ flawed = {}
  /\ history = [imports |-> 0, revisions |-> 0, disturbed |-> FALSE, failed |-> FALSE]

Held(view)         == {s \in Shows : view[Show(s)] # NoShow}
Holders(view, id)  == {s \in Held(view) : view[Show(s)].identity = id}
TakenSlugs(view)   == {view[Show(s)].slug : s \in Held(view)}

At(c, statement) == tx[c].pc = statement

\* A statement of the script commits by itself.
Write(c, r, value, next) ==
  IF c = Script
  THEN /\ Free(c, r)
       /\ db' = With(db, r, value)
       /\ tx' = [tx EXCEPT ![c] = Over(next, @)]
  ELSE Put(c, r, value, next)

\* The import throws: the page's transaction leaves nothing, the script goes on
\* with the next show and leaves what it has written.
Throw(c) ==
  /\ Abort(c)
  /\ flawed' = IF c = Script THEN (flawed \cup {tx[c].show}) \ {Nothing} ELSE flawed
  /\ history' = [history EXCEPT !.failed = TRUE]

Rest == <<scope, source, script>>

-----------------------------------------------------------------------------
(* importShow of tx[c].detail, a function from seasons to episodes.        *)

Importing == {c \in Clients : tx[c].pc # "idle"}

Import(w, detail) ==
  [pc |-> "slug", work |-> w, detail |-> detail, todo |-> DOMAIN detail,
   raced |-> \E c \in Importing : tx[c].work = w, show |-> Nothing, slug |-> Nothing,
   mine |-> <<>>]

\* Two imports, or an import and a claim, under way together disturb each other;
\* n of scope.imports are counted.
Begin(c, w, detail, n) ==
  /\ At(c, "idle")
  /\ tx' = [d \in Clients |-> IF d = c THEN Import(w, detail)
                              ELSE IF d \in Importing /\ tx[d].work = w
                                   THEN [tx[d] EXCEPT !.raced = TRUE] ELSE tx[d]]
  /\ history' = [history EXCEPT !.imports = @ + n, !.disturbed = @ \/ Importing # {}]
  /\ UNCHANGED <<db, scope, source, flawed>>

Answers(w) == IF scope.lossy THEN SUBSET SeasonsOf(w) ELSE {SeasonsOf(w)}

\* ensureShowImported, for an address that names a work of the provider's; the
\* page asks whether or not the catalogue has the work under its own address.
OpenPage(c) == \E w \in Works : \E detail \in Details(w, source[w], Answers(w)) :
  /\ c # Script /\ history.imports < scope.imports
  /\ Begin(c, w, detail, 1)
  /\ UNCHANGED script

\* Faulty variant: the title gives the slug.
SlugFromTitle(c) ==
  /\ At(c, "slug")
  /\ Advance(c, [pc |-> "show", slug |-> Slug(tx[c].work, 1)])
  /\ UNCHANGED Rest /\ UNCHANGED <<flawed, history>>

\* uniqueSlug; what one look finds taken stays taken.
UniqueSlug(c) ==
  LET w     == tx[c].work
      mine  == Holders(See(c), <<"tmdb", w>>)
      free  == {k \in 1..MaxSuffix : Slug(w, k) \notin TakenSlugs(See(c))}
      slug  == IF mine # {} THEN See(c)[Show(CHOOSE s \in mine : TRUE)].slug
               ELSE IF free # {} THEN Slug(w, Min(free)) ELSE OwnSlug(w)
  IN  /\ At(c, "slug")
      /\ Advance(c, [pc |-> "show", slug |-> slug])
      /\ UNCHANGED Rest /\ UNCHANGED <<flawed, history>>

\* What is unique waits for an uncommitted row that has it already.
Awaits(c, field, value) == \E d \in Clients \ {c} : \E s \in Shows :
  /\ Show(s) \in DOMAIN tx[d].mine
  /\ db[Show(s)] = NoShow /\ tx[d].mine[Show(s)][field] = value

\* The numbers that name no row of the work yet.
Unused(w) == {k \in 1..MaxCopies : db[Show(<<"tmdb", w, k>>)] = NoShow}

\* show.upsert on the identity: an update leaves the slug alone, an insert
\* fails on a slug that was taken meanwhile.
ShowUpsert(c) ==
  LET id   == <<"tmdb", tx[c].work>>
      held == Holders(See(c), id)
      new  == <<"tmdb", tx[c].work, Min(Unused(tx[c].work))>>
  IN  /\ At(c, "show")
      /\ UNCHANGED Rest
      /\ \/ /\ held # {}
            /\ \E s \in held : Write(c, Show(s), See(c)[Show(s)], [pc |-> "credits", show |-> s])
            /\ UNCHANGED <<flawed, history>>
         \/ /\ held = {} /\ Unused(tx[c].work) # {}
            /\ ~Awaits(c, "identity", id) /\ ~Awaits(c, "slug", tx[c].slug)
            /\ IF tx[c].slug \in TakenSlugs(See(c))
               THEN Throw(c)
               ELSE /\ Write(c, Show(new), [identity |-> id, slug |-> tx[c].slug,
                                            seasons |-> 0, episodes |-> 0],
                             [pc |-> "credits", show |-> new])
                    /\ UNCHANGED <<flawed, history>>

\* syncGenres, syncCredits and syncCast: an upsert that looks first and inserts.
CreditFind(c) ==
  /\ At(c, "credits")
  /\ Advance(c, [pc |-> IF See(c)[Studio] THEN "season" ELSE "credit"])
  /\ UNCHANGED Rest /\ UNCHANGED <<flawed, history>>

CreditInsert(c) ==
  /\ At(c, "credit") /\ Free(c, Studio)
  /\ IF See(c)[Studio] THEN Throw(c)
     ELSE Write(c, Studio, TRUE, [pc |-> "season"]) /\ UNCHANGED <<flawed, history>>
  /\ UNCHANGED Rest

\* syncSeasons, a season at a time.
SeasonUpsert(c) ==
  LET n == Min(tx[c].todo)
      r == Season(tx[c].show, n)
  IN  /\ At(c, "season") /\ tx[c].todo # {}
      /\ Write(c, r, [See(c)[r] EXCEPT !.count = tx[c].detail[n]], [pc |-> "episodes"])
      /\ UNCHANGED Rest /\ UNCHANGED <<flawed, history>>

\* Faulty variant: the season's episodes are replaced.
EpisodesReplaced(c) ==
  LET n == Min(tx[c].todo)
      r == Season(tx[c].show, n)
  IN  /\ At(c, "episodes")
      /\ Write(c, r, [See(c)[r] EXCEPT !.stored = tx[c].detail[n]],
               [pc |-> "season", todo |-> tx[c].todo \ {n}])
      /\ UNCHANGED Rest /\ UNCHANGED <<flawed, history>>

\* Faulty variant: the season is not left.
EpisodesAgain(c) ==
  LET n == Min(tx[c].todo)
      r == Season(tx[c].show, n)
      had == See(c)[r].stored
  IN  /\ At(c, "episodes")
      /\ Write(c, r, [See(c)[r] EXCEPT !.stored = IF had < tx[c].detail[n]
                                                  THEN tx[c].detail[n] ELSE had],
               [pc |-> "season"])
      /\ UNCHANGED Rest /\ UNCHANGED <<flawed, history>>

\* Episodes the season lacks are inserted, duplicates skipped, none deleted.
EpisodesInsert(c) ==
  LET n == Min(tx[c].todo)
      r == Season(tx[c].show, n)
      had == See(c)[r].stored
  IN  /\ At(c, "episodes")
      /\ Write(c, r, [See(c)[r] EXCEPT !.stored = IF had < tx[c].detail[n]
                                                  THEN tx[c].detail[n] ELSE had],
               [pc |-> "season", todo |-> tx[c].todo \ {n}])
      /\ UNCHANGED Rest /\ UNCHANGED <<flawed, history>>

\* The catalogue has an episode, or a season, that the detail lacks.
Short(c) == \E n \in AllSeasons :
  LET row == See(c)[Season(tx[c].show, n)]
  IN  IF n \in DOMAIN tx[c].detail THEN row.stored > tx[c].detail[n] ELSE row # NoSeason

Stamped(c, episodes) == [See(c)[Show(tx[c].show)] EXCEPT
  !.seasons = Cardinality(DOMAIN tx[c].detail), !.episodes = episodes]

StampWith(c, episodes) ==
  LET s == tx[c].show IN
  /\ At(c, "season") /\ tx[c].todo = {}
  /\ Finish(c, [r \in {Show(s)} |-> Stamped(c, episodes)])
  /\ flawed' = IF Short(c) \/ tx[c].raced THEN flawed \cup {s} ELSE flawed \ {s}
  /\ UNCHANGED Rest /\ UNCHANGED history

\* Faulty variant: only a first import is totalled.
StampOnce(c) ==
  LET s == tx[c].show
      had == See(c)[Show(s)].episodes
  IN  StampWith(c, IF had > 0 THEN had ELSE Sum(tx[c].detail))

\* The totals of the detail go onto the show; the page's transaction commits.
Stamp(c) == StampWith(c, Sum(tx[c].detail))

-----------------------------------------------------------------------------
(* scripts/import-tmdb.ts.                                                 *)

\* collect: what is trending, or the results of a query, on one page.
Collected(pages, type, limit) ==
  {IF type = "ANY" THEN Deduped(Trending(pages, "ANIME", limit) \o Trending(pages, "TV", limit))
   ELSE Trending(pages, type, limit),
   Search(pages[1], type, limit, {})}

Known(w) == Holders(db, <<"tmdb", w>>) # {}

\* A run lists what it will import: all of it, or what the catalogue lacks.
ScriptLists == \E pages \in scope.listings, type \in {"ANY", "TV"}, refresh \in BOOLEAN :
  \E listed \in Collected(pages, type, Len(pages) * PageSize) :
  /\ At(Script, "idle") /\ script.left = <<>> /\ script.window = {}
  /\ script' = [left |-> SelectSeq(listed, LAMBDA w : refresh \/ ~Known(w)), window |-> {}]
  /\ script' # script
  /\ history.imports + Len(script'.left) <= scope.imports
  /\ history' = [history EXCEPT !.imports = @ + Len(script'.left)]
  /\ UNCHANGED <<db, tx, scope, source, flawed>>

\* The next window.
Listed == {w \in Works : \E i \in DOMAIN script.left : i <= Concurrency /\ script.left[i] = w}

\* A window of works is fetched at once; one that yields nothing is skipped.
ScriptFetches ==
  /\ At(Script, "idle") /\ script.window = {} /\ script.left # <<>>
  /\ \E fetched \in SUBSET UNION {{w} \X Details(w, source[w], Answers(w)) : w \in Listed} :
       /\ \A w \in Listed : Cardinality({f \in fetched : f[1] = w}) <= 1
       /\ ~scope.lossy => \A w \in Listed : ~Gated(w) => \E f \in fetched : f[1] = w
       /\ script' = [left   |-> SubSeq(script.left, Concurrency + 1, Len(script.left)),
                     window |-> fetched]
  /\ UNCHANGED <<db, tx, scope, source, flawed, history>>

\* They are written one by one.
ScriptImports == \E f \in script.window :
  /\ Begin(Script, f[1], f[2], 0)
  /\ script' = [script EXCEPT !.window = @ \ {f}]

\* backfillArtwork for a show that has no identity of the provider's or no poster.
\* The match is what a search by title brings first, another work than the show's
\* even, and counts if it has a poster; whether another show has its identity is
\* asked.  A poster the backfill has filled in may be lacking again: the next
\* import of the show puts the provider's back, none.
BackfillMatch == \E s \in Held(db), m \in Works \ Posterless :
  /\ scope.backfill /\ At(Script, "idle") /\ script.left = <<>> /\ script.window = {}
  /\ db[Show(s)].identity[1] # "tmdb" \/ db[Show(s)].identity[2] \in Posterless
  /\ history.imports < scope.imports
  /\ tx' = [tx EXCEPT ![Script] =
       [pc |-> "claim", work |-> m, show |-> s, raced |-> FALSE, mine |-> <<>>,
        slug |-> IF Holders(db, <<"tmdb", m>>) \ {s} = {} THEN "free" ELSE "taken"]]
  /\ history' = [history EXCEPT !.imports = @ + 1,
                                !.disturbed = \/ @ \/ Importing # {}
                                              \/ db[Show(s)].identity[1] = "tmdb"]
  /\ UNCHANGED <<db, flawed>> /\ UNCHANGED Rest

\* The update; it throws when the identity has been taken since.
Claim ==
  LET t == tx[Script]
      id == <<"tmdb", t.work>>
  IN  /\ At(Script, "claim") /\ Free(Script, Show(t.show))
      /\ t.slug = "free" => ~Awaits(Script, "identity", id)
      /\ IF t.slug = "free" /\ Holders(db, id) \ {t.show} # {} THEN Throw(Script)
         ELSE /\ db' = IF t.slug = "free"
                       THEN With(db, Show(t.show), [db[Show(t.show)] EXCEPT !.identity = id])
                       ELSE db
              /\ tx' = [tx EXCEPT ![Script] = Idle]
              /\ UNCHANGED <<flawed, history>>
      /\ UNCHANGED Rest

-----------------------------------------------------------------------------
(* The environment.                                                        *)

\* The page's transaction runs out of its 30 s or its process is lost.
PageLost(c) ==
  /\ c # Script /\ ~At(c, "idle")
  /\ Abort(c)
  /\ UNCHANGED Rest /\ UNCHANGED <<flawed, history>>

ScriptLost ==
  /\ ~At(Script, "idle") \/ script.left # <<>> \/ script.window # {}
  /\ Abort(Script)
  /\ script' = [left |-> <<>>, window |-> {}]
  /\ flawed' = IF At(Script, "idle") THEN flawed ELSE (flawed \cup {tx[Script].show}) \ {Nothing}
  /\ UNCHANGED <<scope, source, history>>

\* Episodes are announced, or withdrawn.
Revise == \E w \in Works : \E n \in SeasonsOf(w), k \in 0..MaxEpisodes :
  /\ history.revisions < scope.revisions
  /\ source' = [source EXCEPT ![w][n] = k] /\ source' # source
  /\ history' = [history EXCEPT !.revisions = @ + 1]
  /\ UNCHANGED <<db, tx, scope, script, flawed>>

Statement(c) ==
  \/ UniqueSlug(c) \/ ShowUpsert(c) \/ CreditFind(c) \/ CreditInsert(c)
  \/ SeasonUpsert(c) \/ EpisodesInsert(c) \/ Stamp(c)

Run == ScriptFetches \/ ScriptImports \/ Claim \/ Statement(Script)

Next ==
  \/ \E c \in Clients : OpenPage(c) \/ Statement(c) \/ PageLost(c)
  \/ ScriptLists \/ ScriptFetches \/ ScriptImports \/ BackfillMatch \/ Claim
  \/ ScriptLost \/ Revise

\* The script's process goes on, and a page's transaction ends, if by its timeout.
Spec == Init /\ [][Next]_vars /\ WF_vars(Run)
             /\ \A c \in Clients \ {Script} : WF_vars(Statement(c) \/ PageLost(c))

-----------------------------------------------------------------------------
(* Properties.                                                             *)

\* The rows a show has are what it is stamped with, unless its last import was
\* short of what is stored, overlapped with another, or stopped half way and
\* no later one was whole.
TotalsMatchRows ==
  \A s \in Held(db) \ flawed :
    (~At(Script, "idle") => tx[Script].show # s)
      => LET stored == [n \in AllSeasons |-> db[Season(s, n)].stored]
         IN  /\ db[Show(s)].episodes = Sum(stored)
             /\ \A n \in AllSeasons : db[Season(s, n)].count = stored[n]

\* An import or a claim that nothing else overlaps with never throws, whatever
\* shows of the same title, shared studios and identities there are already; a
\* show of the provider's that was given another work's identity keeps the slug
\* uniqueSlug may fall back to, and is excepted.
AloneNeverFails == history.failed => history.disturbed

\* "Slugs must never change once assigned" and existing progress survives: no
\* import or claim takes a show, its address or an episode away.
NothingTakenAway ==
  [][\A s \in Held(db) :
       /\ s \in Held(db') /\ db'[Show(s)].slug = db[Show(s)].slug
       /\ \A n \in AllSeasons : db'[Season(s, n)].stored >= db[Season(s, n)].stored]_vars

\* A run of the script comes to its end: neither a show that fails nor a row a
\* page's transaction holds stops it.
RunEnds == script.left # <<>> ~> At(Script, "idle") /\ script.left = <<>> /\ script.window = {}
=============================================================================
