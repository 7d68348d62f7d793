------------------------- MODULE CatalogImportProofs -------------------------
(***************************************************************************)
(* The catalogue for any number of works, of seasons and of page requests  *)
(* beside the import script: what the catalogue holds it keeps, a show's   *)
(* totals are its rows, and an import alone always succeeds.               *)
(***************************************************************************)
EXTENDS CatalogImport, ReadCommittedProofs, WellFoundedInduction, TLAPS

----------------------------------------------------------------------------
(* The inductive invariant.  t is the record of an open call and base the  *)
(* committed rows; a call sees its own writes over them.                   *)

View(t, base, r) == IF Wrote(t, r) THEN t.mine[r] ELSE base[r]

Rows == {Show(s) : s \in Shows} \cup {Studio}
          \cup {Season(s, n) : s \in Shows, n \in AllSeasons}

Tmdb(w) == <<"tmdb", w>>

\* A slug that ends in an id is the identity's own.
SlugOK(id, slug) == slug[2] # 0 \/ (id[1] = "tmdb" /\ slug = OwnSlug(id[2]))

ShowRow(row) ==
  /\ DOMAIN row = {"identity", "slug", "seasons", "episodes"}
  /\ row # NoShow => row.identity \in SourceIds

SeasonRow(row) == row \in [count : Nat, stored : Nat]

BaseOK(base) ==
  /\ DOMAIN base = Rows
  /\ \A s \in Shows : ShowRow(base[Show(s)])
  /\ \A s \in Shows, n \in AllSeasons :
       /\ SeasonRow(base[Season(s, n)])
       /\ base[Show(s)] = NoShow =>
            base[Season(s, n)].count = base[Season(s, n)].stored
  /\ \A s, u \in Shows :
       base[Show(s)].identity = base[Show(u)].identity /\ base[Show(s)].identity[1] = "tmdb"
         => s = u

DetailOK(w, detail) ==
  /\ w \in Works /\ DOMAIN detail \subseteq SeasonsOf(w)
  /\ detail \in [DOMAIN detail -> Nat]

Open(t)      == t.pc # "idle"
Importer(t)  == t.pc \notin {"idle", "claim"}
Working(t)   == Importer(t) /\ t.pc \notin {"slug", "show"}

ImportTyped(t) ==
  /\ DOMAIN t = {"pc", "work", "detail", "todo", "raced", "show", "slug", "mine"}
  /\ t.pc \in {"slug", "show", "credits", "credit", "season", "episodes"}
  /\ DetailOK(t.work, t.detail) /\ t.todo \subseteq DOMAIN t.detail
  /\ t.pc \in {"slug", "show"} => t.show = Nothing
  /\ t.pc \notin {"season", "episodes"} => t.todo = DOMAIN t.detail
  /\ t.pc = "episodes" => t.todo # {}
  /\ Working(t) => t.show \in Shows

ClaimTyped(t) ==
  /\ DOMAIN t = {"pc", "work", "show", "raced", "mine", "slug"}
  /\ t.pc = "claim" /\ t.work \in Works /\ t.show \in Shows

\* The show a call works on is the work's, and a page has it locked.
ShowOK(t, base) ==
  Working(t) => View(t, base, Show(t.show)).identity = Tmdb(t.work)

\* s is the row the next show created for the work gets.
NextRow(base, w, s) ==
  /\ s \in Shows /\ s[1] = "tmdb" /\ s[2] = w
  /\ \A k \in 1..MaxCopies : k < s[3] => base[Show(<<"tmdb", w, k>>)] # NoShow

WritesOK(t, base) ==
  /\ Working(t) => Wrote(t, Show(t.show))
  /\ \A r \in DOMAIN t.mine :
       /\ Working(t)
       /\ r \in {Show(t.show), Studio} \cup {Season(t.show, n) : n \in DOMAIN t.detail}
  /\ Working(t) =>
       /\ ShowRow(t.mine[Show(t.show)]) /\ t.mine[Show(t.show)] # NoShow
       /\ IF base[Show(t.show)] = NoShow
          THEN /\ NextRow(base, t.work, t.show) /\ t.mine[Show(t.show)].slug = t.slug
               /\ \A s \in Shows : base[Show(s)].identity # Tmdb(t.work)
          ELSE t.mine[Show(t.show)] = base[Show(t.show)]
       /\ \A n \in DOMAIN t.detail : Wrote(t, Season(t.show, n)) =>
            /\ SeasonRow(t.mine[Season(t.show, n)])
            /\ t.mine[Season(t.show, n)].stored >= base[Season(t.show, n)].stored

\* What an import that no other of its work overlaps has made of its show.
Progress(t, base, bad) ==
  Working(t) /\ ~t.raced =>
    \A n \in AllSeasons :
      LET row == View(t, base, Season(t.show, n)) IN
        IF n \in DOMAIN t.detail \ t.todo
        THEN row.count = t.detail[n] /\ row.stored >= t.detail[n]
        ELSE IF t.pc = "episodes" /\ n = Min(t.todo)
        THEN row.count = t.detail[n]
        ELSE t.show \notin bad => row.count = row.stored

\* What it has found still holds as long as it is the only one.
FoundOK(t, base) ==
  /\ t.pc = "show" => \/ \E s \in Shows : base[Show(s)] # NoShow /\ base[Show(s)].identity = Tmdb(t.work)
                      \/ \A s \in Shows : base[Show(s)] # NoShow => base[Show(s)].slug # t.slug
  /\ Importer(t) /\ t.pc # "slug" => SlugOK(Tmdb(t.work), t.slug)
  /\ t.pc = "credit" => ~View(t, base, Studio)
  /\ t.pc = "claim" => base[Show(t.show)].identity[1] # "tmdb"
  /\ t.pc = "claim" /\ t.slug = "free" =>
       \A s \in Shows \ {t.show} : base[Show(s)] # NoShow => base[Show(s)].identity # Tmdb(t.work)

ImportOK(t, base, bad) ==
  ImportTyped(t) /\ ShowOK(t, base) /\ Progress(t, base, bad)

ClaimOK(t, base) ==
  ClaimTyped(t) /\ base[Show(t.show)] # NoShow

CallOK(c, t, base, bad) ==
  \/ t = Idle
  \/ ImportOK(t, base, bad) /\ IF c = Script THEN DOMAIN t.mine = {} ELSE WritesOK(t, base)
  \/ c = Script /\ DOMAIN t.mine = {} /\ ClaimOK(t, base)

CallsOK ==
  /\ tx = [c \in Clients |-> tx[c]]
  /\ \A c \in Clients : CallOK(c, tx[c], db, flawed)
  /\ ~history.disturbed => \A c \in Clients : FoundOK(tx[c], db)

\* Slugs that end in an id, while no show's identity has been exchanged.
SlugsHold(base) ==
  \A s \in Shows : base[Show(s)] # NoShow => SlugOK(base[Show(s)].identity, base[Show(s)].slug)

SlugsOK == ~history.disturbed => SlugsHold(db)

\* Only rivals are open together, and imports of one work know of each other.
RivalsOK ==
  /\ \A c, d \in Clients : c # d /\ Open(tx[c]) /\ Open(tx[d]) => history.disturbed
  /\ \A c, d \in Clients :
       c # d /\ Importer(tx[c]) /\ Importer(tx[d]) /\ tx[c].work = tx[d].work => tx[c].raced

Sourced ==
  /\ \A w \in Works : source[w] \in [DOMAIN Tree[w] -> Nat]
  /\ \A f \in script.window : DetailOK(f[1], f[2])
  /\ DOMAIN history = {"imports", "revisions", "disturbed", "failed"}

Matched(base, s) ==
  LET stored == [n \in AllSeasons |-> base[Season(s, n)].stored]
  IN  /\ base[Show(s)].episodes = Sum(stored)
      /\ \A n \in AllSeasons : base[Season(s, n)].count = stored[n]

\* Totals of the shows the script is not importing.
TotalsOK ==
  \A s \in Shows :
    db[Show(s)] # NoShow /\ s \notin flawed /\ ~(Working(tx[Script]) /\ tx[Script].show = s)
      => Matched(db, s)

CatalogInv ==
  /\ BaseOK(db) /\ Sourced /\ CallsOK /\ RivalsOK /\ Locked /\ TotalsOK /\ SlugsOK
  /\ AloneNeverFails

----------------------------------------------------------------------------
(* Rows, and the least of a set.                                           *)

LEMMA RowIds ==
  /\ \A s, u : Show(s) = Show(u) => s = u
  /\ \A s, u, m, n : Season(s, m) = Season(u, n) => s = u /\ m = n
  /\ \A s, u, n : Show(s) # Season(u, n) /\ Show(s) # Studio /\ Season(u, n) # Studio
BY DEF Show, Season, Studio

LEMMA RowTypes ==
  /\ Studio \in Rows
  /\ \A s \in Shows : Show(s) \in Rows
  /\ \A s \in Shows, n \in AllSeasons : Season(s, n) \in Rows
<1>1. ASSUME NEW s \in Shows PROVE Show(s) \in Rows
  BY DEF Rows
<1>2. ASSUME NEW s \in Shows, NEW n \in AllSeasons PROVE Season(s, n) \in Rows
  BY DEF Rows
<1> QED BY <1>1, <1>2 DEF Rows

LEMMA Identities ==
  /\ Nothing \notin Shows
  /\ \A s \in Shows : s = <<s[1], s[2], s[3]>> /\ s[2] \in Works /\ s[3] \in 1..MaxCopies
  /\ \A w \in Works : Tmdb(w) \in SourceIds /\ Tmdb(w)[1] = "tmdb" /\ Tmdb(w)[2] = w
  /\ \A id \in SourceIds : id = <<id[1], id[2]>> /\ id[2] \in Works /\ id # NoShow.identity
  /\ \A id \in SourceIds : id[1] = "tmdb" => id = Tmdb(id[2])
  /\ NoShow.identity[1] # "tmdb"
  /\ \A w : NoShow.identity # Tmdb(w)
<1>1. Nothing \notin Shows
  <2>1. DOMAIN Nothing = {1}
    BY DEF Nothing
  <2>2. \A id \in Shows : 2 \in DOMAIN id
    BY DEF Shows
  <2> QED BY <2>1, <2>2
<1>2. \A s \in Shows : s = <<s[1], s[2], s[3]>> /\ s[2] \in Works /\ s[3] \in 1..MaxCopies
  BY DEF Shows
<1> QED BY <1>1, <1>2 DEF SourceIds, Tmdb, NoShow

\* Two rows that are next for a work are one.
LEMMA OneNext ==
  ASSUME NEW base, NEW w, NEW s, NEW u, NextRow(base, w, s), NextRow(base, w, u),
         base[Show(s)] = NoShow, base[Show(u)] = NoShow
  PROVE  s = u
<1>1. /\ s = <<"tmdb", w, s[3]>> /\ u = <<"tmdb", w, u[3]>>
      /\ s[3] \in 1..MaxCopies /\ u[3] \in 1..MaxCopies
  BY Identities DEF NextRow
<1>2. ~(s[3] < u[3]) /\ ~(u[3] < s[3])
  BY <1>1 DEF NextRow
<1>3. s[3] = u[3]
  BY <1>1, <1>2, CatalogAssumption
<1> QED BY <1>1, <1>3

LEMMA Seasons ==
  ASSUME NEW w \in Works
  PROVE  SeasonsOf(w) \subseteq AllSeasons /\ SeasonsOf(w) \subseteq Nat
BY CatalogAssumption DEF SeasonsOf, AllSeasons

LEMMA LeastIsOne ==
  ASSUME NEW S, S \subseteq Nat, S # {}
  PROVE  Min(S) \in S /\ \A n \in S : ~(n < Min(S))
<1> DEFINE R == {p \in Nat \X Nat : p[1] < p[2]}
<1>1. IsWellFoundedOn(R, Nat)
  BY NatLessThanWellFounded, Zenon DEF OpToRel
<1>2. PICK m \in S : \A n \in S : <<n, m>> \notin R
  <2> HIDE DEF R
  <2> QED BY <1>1, WFMin
<1>3. ASSUME NEW n \in S PROVE m =< n
  <2>1. m \in Nat /\ n \in Nat /\ <<n, m>> \notin R
    BY <1>2
  <2> QED BY <2>1
<1>4. Min(S) \in S /\ \A n \in S : Min(S) =< n
  BY <1>3 DEF Min
<1>5. ASSUME NEW n \in S PROVE ~(n < Min(S))
  <2>1. Min(S) \in Nat /\ n \in Nat /\ Min(S) =< n
    BY <1>4
  <2> HIDE DEF Min
  <2> QED BY <2>1
<1> QED BY <1>4, <1>5

\* What is said of a call at each of its statements.
LEMMA InHand ==
  ASSUME CatalogInv, NEW c \in Clients
  PROVE  /\ tx = [d \in Clients |-> tx[d]] /\ DOMAIN db = Rows
         /\ DOMAIN tx[c].mine \subseteq Rows /\ "mine" \in DOMAIN tx[c]
         /\ DOMAIN See(c) = Rows
         /\ \A r \in Rows : See(c)[r] = View(tx[c], db, r)
         /\ c = Script => \A r \in Rows : View(tx[c], db, r) = db[r]
         /\ Importer(tx[c]) =>
              /\ ImportOK(tx[c], db, flawed)
              /\ IF c = Script THEN DOMAIN tx[c].mine = {} ELSE WritesOK(tx[c], db)
         /\ tx[c].pc = "claim" => c = Script /\ DOMAIN tx[c].mine = {} /\ ClaimOK(tx[c], db)
<1>1. /\ tx = [d \in Clients |-> tx[d]] /\ DOMAIN db = Rows
      /\ CallOK(c, tx[c], db, flawed)
  BY DEF CatalogInv, CallsOK, BaseOK
<1>2. Importer(tx[c]) =>
         /\ ImportOK(tx[c], db, flawed)
         /\ IF c = Script THEN DOMAIN tx[c].mine = {} ELSE WritesOK(tx[c], db)
  BY <1>1, NothingWritten DEF CallOK, Importer, ClaimOK, ClaimTyped
<1>3. tx[c].pc = "claim" => c = Script /\ DOMAIN tx[c].mine = {} /\ ClaimOK(tx[c], db)
  BY <1>1, NothingWritten DEF CallOK, ImportOK, ImportTyped
<1>4. DOMAIN tx[c].mine \subseteq Rows
  <2>1. CASE tx[c] = Idle
    BY <2>1, NothingWritten
  <2>2. CASE c = Script
    BY <1>1, <2>2, NothingWritten DEF CallOK
  <2>3. CASE tx[c] # Idle /\ c # Script
    <3>1. WritesOK(tx[c], db) /\ ImportTyped(tx[c])
      BY <1>1, <2>3 DEF CallOK, ImportOK
    <3>2. ASSUME NEW r \in DOMAIN tx[c].mine PROVE r \in Rows
      <4>1. /\ tx[c].show \in Shows
            /\ r \in {Show(tx[c].show), Studio} \cup {Season(tx[c].show, n) : n \in DOMAIN tx[c].detail}
        BY <3>1 DEF WritesOK, ImportTyped
      <4>2. DOMAIN tx[c].detail \subseteq AllSeasons
        BY <3>1, Seasons DEF ImportTyped, DetailOK
      <4> QED BY <4>1, <4>2, RowTypes
    <3> QED BY <3>2
  <2> QED BY <2>1, <2>2, <2>3
<1>5. "mine" \in DOMAIN tx[c]
  BY <1>1 DEF CallOK, Idle, ImportOK, ImportTyped, ClaimOK, ClaimTyped
<1>6. /\ DOMAIN See(c) = Rows
      /\ \A r \in Rows : See(c)[r] = View(tx[c], db, r)
  BY <1>1, <1>4, SeeEffect DEF View
<1>7. c = Script => \A r \in Rows : View(tx[c], db, r) = db[r]
  BY <1>1, NothingWritten DEF CallOK, View, Wrote
<1> QED BY <1>1, <1>2, <1>3, <1>4, <1>5, <1>6, <1>7

\* What writing a row does: the script's is committed, a page's is its own.
Written(c, r, v, next) ==
  /\ Others(c) /\ Free(c, r) /\ GoneOn(tx[c], tx'[c], next)
  /\ c = Script => /\ tx'[c].mine = tx[c].mine
                   /\ DOMAIN db' = Rows /\ db'[r] = v
                   /\ \A x \in Rows : x # r => db'[x] = db[x]
  /\ c # Script => db' = db /\ OneRow(tx[c], tx'[c], r, v)

LEMMA WriteEffect ==
  ASSUME CatalogInv, NEW c \in Clients, NEW r \in Rows, NEW v,
         NEW next, DOMAIN next \subseteq DOMAIN tx[c], "mine" \notin DOMAIN next,
         Write(c, r, v, next)
  PROVE  Written(c, r, v, next)
<1>1. tx = [d \in Clients |-> tx[d]] /\ DOMAIN db = Rows /\ "mine" \in DOMAIN tx[c]
  BY InHand
<1>2. CASE c # Script
  <2>1. Put(c, r, v, next)
    BY <1>2 DEF Write
  <2> QED BY <1>1, <1>2, <2>1, PutEffect DEF Written
<1>3. CASE c = Script
  <2>1. Free(c, r) /\ db' = With(db, r, v) /\ tx' = [tx EXCEPT ![c] = Over(next, tx[c])]
    BY <1>3 DEF Write
  <2>2. tx'[c] = Over(next, tx[c]) /\ Others(c)
    BY <1>1, <2>1 DEF Others
  <2>3. /\ DOMAIN Over(next, tx[c]) = DOMAIN next \cup DOMAIN tx[c]
        /\ \A f \in DOMAIN next : Over(next, tx[c])[f] = next[f]
        /\ \A f \in DOMAIN tx[c] : f \notin DOMAIN next => Over(next, tx[c])[f] = tx[c][f]
    BY OverTypes
  <2>4. GoneOn(tx[c], tx'[c], next) /\ tx'[c].mine = tx[c].mine
    BY <1>1, <2>2, <2>3 DEF GoneOn
  <2>5. DOMAIN db' = Rows /\ db'[r] = v /\ \A x \in Rows : x # r => db'[x] = db[x]
    BY <1>1, <2>1 DEF With
  <2> QED BY <1>3, <2>1, <2>2, <2>4, <2>5 DEF Written
<1> QED BY <1>2, <1>3

\* Two imports that have reached a show have reached different ones, unless
\* they are of one work.
LEMMA Apart ==
  ASSUME CatalogInv, NEW c \in Clients, NEW d \in Clients, c # d,
         Working(tx[c]), Working(tx[d]), tx[c].show = tx[d].show
  PROVE  tx[c].raced /\ tx[d].raced /\ (c = Script \/ d = Script)
<1>1. c = Script \/ d = Script
  <2> SUFFICES ASSUME c # Script, d # Script PROVE FALSE
    OBVIOUS
  <2>1. WritesOK(tx[c], db) /\ WritesOK(tx[d], db)
    BY InHand DEF Working
  <2>2. Wrote(tx[c], Show(tx[c].show)) /\ Wrote(tx[d], Show(tx[d].show))
    BY <2>1 DEF WritesOK
  <2> QED BY <2>2 DEF Wrote, CatalogInv, Locked
<1>2. ASSUME NEW a \in Clients, a = Script, NEW b \in Clients, b # a,
             Working(tx[a]), Working(tx[b]), tx[a].show = tx[b].show
      PROVE  tx[a].work = tx[b].work
  <2>1. tx[a].show \in Shows /\ db[Show(tx[a].show)].identity = Tmdb(tx[a].work)
    <3>1. ImportTyped(tx[a]) /\ ShowOK(tx[a], db)
      BY <1>2, InHand DEF Working, ImportOK
    <3>2. tx[a].show \in Shows /\ View(tx[a], db, Show(tx[a].show)).identity = Tmdb(tx[a].work)
      BY <1>2, <3>1 DEF ImportTyped, ShowOK
    <3>3. View(tx[a], db, Show(tx[a].show)) = db[Show(tx[a].show)]
      BY <1>2, <3>2, InHand, RowTypes
    <3> QED BY <3>2, <3>3
  <2>2. tx[b].mine[Show(tx[b].show)].identity = Tmdb(tx[b].work) /\ WritesOK(tx[b], db)
    BY <1>2, InHand DEF Working, ImportOK, ShowOK, WritesOK, View
  <2>3. tx[b].mine[Show(tx[b].show)] = db[Show(tx[b].show)]
    BY <1>2, <2>1, <2>2, Identities DEF WritesOK
  <2> QED BY <1>2, <2>1, <2>2, <2>3 DEF Tmdb
<1>3. tx[c].work = tx[d].work
  BY <1>1, <1>2
<1> QED BY <1>1, <1>3 DEF CatalogInv, RivalsOK, Working

----------------------------------------------------------------------------
(* Statements that commit nothing.                                         *)

\* Less is said of a call when more shows are flawed.
LEMMA MoreFlawed ==
  ASSUME NEW c, NEW t, NEW base, NEW bad, NEW worse, bad \cap Shows \subseteq worse,
         CallOK(c, t, base, bad)
  PROVE  CallOK(c, t, base, worse)
<1>1. ImportTyped(t) /\ Progress(t, base, bad) => Progress(t, base, worse)
  BY DEF Progress, ImportTyped
<1> QED BY <1>1 DEF CallOK, ImportOK

\* c's call is given up, or goes on as it may.
Goes(c) ==
  \/ tx'[c] = Idle
  \/ /\ Importer(tx[c]) /\ Importer(tx'[c])
     /\ tx'[c].work = tx[c].work /\ tx'[c].raced = tx[c].raced
     /\ \A r \in DOMAIN tx'[c].mine : Wrote(tx[c], r) \/ Free(c, r)

\* The script does not leave a show that has been unmatched by it.
Leaves(c) ==
  c = Script /\ Working(tx[c]) =>
    \/ Working(tx'[c]) /\ tx'[c].show = tx[c].show
    \/ tx[c].show \in flawed'

Onward(c) ==
  /\ Others(c) /\ Goes(c) /\ Leaves(c)
  /\ db' = db /\ flawed \cap Shows \subseteq flawed' /\ history'.disturbed = history.disturbed
  /\ CallOK(c, tx'[c], db, flawed')
  /\ ~history.disturbed => FoundOK(tx'[c], db)

LEMMA RivalsKept ==
  ASSUME CatalogInv, NEW c \in Clients, Others(c), Goes(c), history'.disturbed = history.disturbed
  PROVE  RivalsOK' /\ Locked'
<1>1. \A d \in Clients : /\ Open(tx'[d]) => Open(tx[d])
                         /\ Importer(tx'[d]) =>
                              /\ Importer(tx[d]) /\ tx'[d].work = tx[d].work
                              /\ tx'[d].raced = tx[d].raced
  BY NothingWritten DEF Others, Goes, Open, Importer
<1>2. RivalsOK'
  BY <1>1 DEF CatalogInv, RivalsOK
<1>3. \A r \in DOMAIN tx'[c].mine : Wrote(tx[c], r) \/ Free(c, r)
  BY NothingWritten DEF Goes
<1>4. Locked'
  BY <1>3, LockedKept DEF CatalogInv
<1> QED BY <1>2, <1>4

LEMMA OnwardKeeps ==
  ASSUME CatalogInv, NEW c \in Clients, Onward(c), Sourced', AloneNeverFails'
  PROVE  CatalogInv'
<1>1. BaseOK(db)'
  BY DEF CatalogInv, Onward, BaseOK
<1>2. RivalsOK' /\ Locked'
  BY RivalsKept DEF Onward
<1>3. CallsOK'
  <2>1. tx' = [d \in Clients |-> tx'[d]]
    BY DEF Onward, Others
  <2>2. \A d \in Clients : CallOK(d, tx'[d], db, flawed')
    BY MoreFlawed DEF CatalogInv, CallsOK, Onward, Others
  <2>3. ~history'.disturbed => \A d \in Clients : FoundOK(tx'[d], db)
    BY DEF CatalogInv, CallsOK, Onward, Others
  <2>4. db' = db
    BY DEF Onward
  <2> QED BY <2>1, <2>2, <2>3, <2>4 DEF CallsOK
<1>4. TotalsOK'
  <2> SUFFICES ASSUME NEW s \in Shows, db'[Show(s)] # NoShow, s \notin flawed',
                      ~(Working(tx'[Script]) /\ tx'[Script].show = s)
               PROVE  Matched(db', s)
    BY DEF TotalsOK
  <2>1. ~(Working(tx[Script]) /\ tx[Script].show = s)
    BY CatalogAssumption DEF Onward, Others, Leaves
  <2> QED BY <2>1 DEF CatalogInv, TotalsOK, Onward
<1>5. SlugsOK'
  BY DEF CatalogInv, SlugsOK, SlugsHold, Onward
<1> QED BY <1>1, <1>2, <1>3, <1>4, <1>5 DEF CatalogInv

\* Before it has a show a call sees the committed rows.
LEMMA Unwritten ==
  ASSUME CatalogInv, NEW c \in Clients, Importer(tx[c]), ~Working(tx[c])
  PROVE  /\ DOMAIN tx[c].mine = {}
         /\ \A r \in Rows : See(c)[r] = db[r] /\ View(tx[c], db, r) = db[r]
         /\ ImportTyped(tx[c]) /\ tx[c].show = Nothing /\ tx[c].todo = DOMAIN tx[c].detail
         /\ tx[c].pc \in {"slug", "show"}
<1>1. ImportTyped(tx[c]) /\ DOMAIN tx[c].mine = {}
  BY InHand DEF ImportOK, WritesOK
<1>2. \A r \in Rows : See(c)[r] = db[r] /\ View(tx[c], db, r) = db[r]
  BY <1>1, InHand DEF View, Wrote
<1> QED BY <1>1, <1>2 DEF ImportTyped, Working, Importer

\* The slug uniqueSlug finds is the show's, or nobody's.
LEMMA SlugFound ==
  ASSUME BaseOK(db), SlugsHold(db), NEW w \in Works, NEW view,
         \A r \in Rows : view[r] = db[r], NEW slug,
         LET mine == Holders(view, Tmdb(w))
             free == {k \in 1..MaxSuffix : Slug(w, k) \notin TakenSlugs(view)}
         IN  slug = IF mine # {} THEN view[Show(CHOOSE s \in mine : TRUE)].slug
                    ELSE IF free # {} THEN Slug(w, Min(free)) ELSE OwnSlug(w)
  PROVE  /\ SlugOK(Tmdb(w), slug)
         /\ \/ \E s \in Shows : db[Show(s)] # NoShow /\ db[Show(s)].identity = Tmdb(w)
            \/ \A s \in Shows : db[Show(s)] # NoShow => db[Show(s)].slug # slug
<1> DEFINE mine == Holders(view, Tmdb(w))
           free == {k \in 1..MaxSuffix : Slug(w, k) \notin TakenSlugs(view)}
<1>1. \A s : s \in mine <=> s \in Shows /\ db[Show(s)] # NoShow /\ db[Show(s)].identity = Tmdb(w)
  BY RowTypes DEF Holders, Held
<1>2. \A sl : sl \in TakenSlugs(view) <=> \E s \in Shows : db[Show(s)] # NoShow /\ db[Show(s)].slug = sl
  BY RowTypes DEF TakenSlugs, Held
<1>3. CASE mine # {}
  <2>1. PICK s \in mine : slug = view[Show(s)].slug
    BY <1>3
  <2>2. s \in Shows /\ db[Show(s)] # NoShow /\ db[Show(s)].identity = Tmdb(w) /\ slug = db[Show(s)].slug
    BY <1>1, <2>1, RowTypes
  <2>3. SlugOK(Tmdb(w), slug)
    BY <2>2 DEF SlugsHold
  <2> QED BY <2>2, <2>3
<1>4. CASE mine = {} /\ free # {}
  <2>1. slug = Slug(w, Min(free))
    BY <1>4
  <2>2. free \subseteq Nat
    BY CatalogAssumption
  <2>3. Min(free) \in free
    <3> HIDE DEF free
    <3> QED BY <1>4, <2>2, LeastIsOne
  <2>4. Min(free) # 0 /\ slug \notin TakenSlugs(view)
    BY <2>1, <2>3
  <2>5. \A k : Slug(w, k)[2] = k
    BY DEF Slug
  <2>6. slug[2] = Min(free)
    BY <2>1, <2>5
  <2> QED BY <1>2, <2>4, <2>6 DEF SlugOK
<1>5. CASE mine = {} /\ free = {}
  <2>1. slug = OwnSlug(w)
    BY <1>5
  <2>2. ASSUME NEW s \in Shows, db[Show(s)] # NoShow, db[Show(s)].slug = slug PROVE FALSE
    <3>1. SlugOK(db[Show(s)].identity, slug) /\ db[Show(s)].identity \in SourceIds
      BY <2>2 DEF BaseOK, ShowRow, SlugsHold
    <3>2. db[Show(s)].identity[1] = "tmdb" /\ db[Show(s)].identity[2] = w
      BY <2>1, <3>1 DEF SlugOK, OwnSlug
    <3>3. db[Show(s)].identity = Tmdb(w)
      BY <3>1, <3>2, Identities
    <3> QED BY <1>1, <1>5, <2>2, <3>3
  <2> QED BY <2>1, <2>2 DEF SlugOK, Tmdb
<1> QED BY <1>3, <1>4, <1>5

LEMMA UniqueSlugGoes ==
  ASSUME CatalogInv, NEW c \in Clients, UniqueSlug(c)
  PROVE  CatalogInv'
<1> DEFINE t == tx[c]
           s == tx'[c]
           w == tx[c].work
           mine == Holders(See(c), <<"tmdb", w>>)
           free == {k \in 1..MaxSuffix : Slug(w, k) \notin TakenSlugs(See(c))}
           slug == IF mine # {} THEN See(c)[Show(CHOOSE u \in mine : TRUE)].slug
                   ELSE IF free # {} THEN Slug(w, Min(free)) ELSE OwnSlug(w)
<1>1. t.pc = "slug" /\ Advance(c, [pc |-> "show", slug |-> slug])
      /\ source' = source /\ script' = script /\ flawed' = flawed /\ history' = history
  BY DEF UniqueSlug, At, Rest
<1>2. Importer(t) /\ ~Working(t)
  BY <1>1 DEF Importer, Working
<1>3. /\ tx = [d \in Clients |-> tx[d]] /\ "mine" \in DOMAIN t
      /\ ImportTyped(t) /\ DOMAIN t.mine = {}
      /\ \A r \in Rows : See(c)[r] = db[r]
  BY <1>2, InHand, Unwritten
<1>4. ASSUME ~history.disturbed
      PROVE  /\ SlugOK(Tmdb(w), slug)
             /\ \/ \E u \in Shows : db[Show(u)] # NoShow /\ db[Show(u)].identity = Tmdb(w)
                \/ \A u \in Shows : db[Show(u)] # NoShow => db[Show(u)].slug # slug
  <2>1. w \in Works /\ BaseOK(db) /\ SlugsHold(db)
    BY <1>3, <1>4 DEF ImportTyped, DetailOK, CatalogInv, SlugsOK
  <2> QED BY <1>3, <2>1, SlugFound DEF Tmdb
<1> HIDE DEF slug
<1>5. Others(c) /\ db' = db /\ GoneOn(t, s, [pc |-> "show", slug |-> slug]) /\ s.mine = t.mine
  <2>1. DOMAIN [pc |-> "show", slug |-> slug] \subseteq DOMAIN t
    BY <1>3 DEF ImportTyped
  <2> QED BY <1>1, <1>3, <2>1, AdvanceEffect
<1>6. /\ DOMAIN s = DOMAIN t /\ s.pc = "show" /\ s.slug = slug
      /\ s.work = t.work /\ s.detail = t.detail /\ s.todo = t.todo /\ s.raced = t.raced
      /\ s.show = t.show
  BY <1>3, <1>5 DEF GoneOn, ImportTyped
<1>7. ImportTyped(s) /\ ~Working(s) /\ Importer(s)
  BY <1>1, <1>3, <1>6 DEF ImportTyped, Working, Importer
<1>8. CallOK(c, s, db, flawed) /\ (~history.disturbed => FoundOK(s, db))
  <2>1. ImportOK(s, db, flawed)
    BY <1>7 DEF ImportOK, ShowOK, Progress
  <2>2. WritesOK(s, db) /\ DOMAIN s.mine = {}
    BY <1>3, <1>5, <1>7 DEF WritesOK
  <2>3. ~history.disturbed => FoundOK(s, db)
    BY <1>4, <1>6 DEF FoundOK
  <2> QED BY <2>1, <2>2, <2>3 DEF CallOK
<1>9. Onward(c)
  BY <1>1, <1>2, <1>3, <1>5, <1>6, <1>7, <1>8 DEF Onward, Goes, Leaves
<1>10. Sourced' /\ AloneNeverFails'
  BY <1>1 DEF CatalogInv, Sourced, AloneNeverFails
<1> QED BY <1>9, <1>10, OnwardKeeps

\* The call is over, and what the script had begun is flawed.
LEMMA GivenUp ==
  ASSUME CatalogInv, NEW c \in Clients, Abort(c),
         flawed' = IF c = Script THEN (flawed \cup {tx[c].show}) \ {Nothing} ELSE flawed,
         history'.disturbed = history.disturbed, Sourced', AloneNeverFails'
  PROVE  CatalogInv'
<1>1. Others(c) /\ db' = db /\ tx'[c] = Idle
  BY AbortEffect, InHand
<1>2. flawed \cap Shows \subseteq flawed'
  BY Identities
<1>3. Working(tx[c]) /\ c = Script => tx[c].show \in flawed'
  BY InHand, Identities DEF Working, ImportOK, ImportTyped
<1>4. CallOK(c, tx'[c], db, flawed') /\ FoundOK(tx'[c], db)
  BY <1>1, NothingWritten DEF CallOK, FoundOK, Importer
<1> QED BY <1>1, <1>2, <1>3, <1>4, OnwardKeeps DEF Onward, Goes, Leaves

LEMMA ThrowGoes ==
  ASSUME CatalogInv, NEW c \in Clients, Throw(c), history.disturbed,
         UNCHANGED <<source, script>>
  PROVE  CatalogInv' /\ db' = db
<1>1. /\ Abort(c) /\ history' = [history EXCEPT !.failed = TRUE]
      /\ flawed' = IF c = Script THEN (flawed \cup {tx[c].show}) \ {Nothing} ELSE flawed
  BY DEF Throw
<1>2. history'.disturbed = history.disturbed /\ AloneNeverFails' /\ Sourced'
  BY <1>1 DEF AloneNeverFails, CatalogInv, Sourced
<1> QED BY <1>1, <1>2, GivenUp DEF Abort

\* syncCredits looks at the studio, which nobody else touches meanwhile.
LEMMA CreditFindGoes ==
  ASSUME CatalogInv, NEW c \in Clients, CreditFind(c)
  PROVE  CatalogInv'
<1> DEFINE t == tx[c]
           s == tx'[c]
           at == IF See(c)[Studio] THEN "season" ELSE "credit"
<1>1. /\ t.pc = "credits" /\ Advance(c, [pc |-> at])
      /\ source' = source /\ script' = script /\ flawed' = flawed /\ history' = history
  BY DEF CreditFind, At, Rest
<1>2. /\ tx = [d \in Clients |-> tx[d]] /\ "mine" \in DOMAIN t
      /\ ImportOK(t, db, flawed) /\ Working(t) /\ Importer(t)
      /\ IF c = Script THEN DOMAIN t.mine = {} ELSE WritesOK(t, db)
      /\ See(c)[Studio] = View(t, db, Studio)
  BY <1>1, InHand, RowTypes DEF Importer, Working
<1>3. at \in {"season", "credit"} /\ (at = "credit" => ~View(t, db, Studio))
  BY <1>2
<1> HIDE DEF at
<1>4. Others(c) /\ db' = db /\ GoneOn(t, s, [pc |-> at]) /\ s.mine = t.mine
  <2>1. DOMAIN [pc |-> at] \subseteq DOMAIN t
    BY <1>2 DEF ImportOK, ImportTyped
  <2> QED BY <1>1, <1>2, <2>1, AdvanceEffect
<1>5. /\ DOMAIN s = DOMAIN t /\ s.pc = at
      /\ s.work = t.work /\ s.detail = t.detail /\ s.todo = t.todo /\ s.raced = t.raced
      /\ s.show = t.show /\ s.slug = t.slug
  BY <1>2, <1>4 DEF GoneOn, ImportOK, ImportTyped
<1>6. ImportTyped(s) /\ Working(s) /\ Importer(s)
  BY <1>1, <1>2, <1>3, <1>5 DEF ImportOK, ImportTyped, Working, Importer
<1>7. \A r : View(s, db, r) = View(t, db, r) /\ Wrote(s, r) = Wrote(t, r)
  BY <1>4 DEF View, Wrote
<1>8. CallOK(c, s, db, flawed) /\ (~history.disturbed => FoundOK(s, db))
  <2>1. ShowOK(s, db)
    BY <1>2, <1>5, <1>6, <1>7 DEF ImportOK, ShowOK
  <2>2. Progress(s, db, flawed)
    BY <1>1, <1>2, <1>3, <1>5, <1>7 DEF ImportOK, Progress
  <2>3. IF c = Script THEN DOMAIN s.mine = {} ELSE WritesOK(s, db)
    BY <1>2, <1>4, <1>5, <1>6, <1>7 DEF WritesOK
  <2>4. ~history.disturbed => FoundOK(s, db)
    BY <1>1, <1>2, <1>3, <1>5, <1>6, <1>7 DEF FoundOK, CatalogInv, CallsOK
  <2> QED BY <1>6, <2>1, <2>2, <2>3, <2>4 DEF CallOK, ImportOK
<1>9. Onward(c)
  BY <1>1, <1>2, <1>4, <1>5, <1>6, <1>8, <1>7 DEF Onward, Goes, Leaves, Wrote
<1>10. Sourced' /\ AloneNeverFails'
  BY <1>1 DEF CatalogInv, Sourced, AloneNeverFails
<1> QED BY <1>9, <1>10, OnwardKeeps

----------------------------------------------------------------------------
(* Committed rows change.                                                  *)

\* Of the rows in base, those of show u and the studio may be new.
Touches(base, u) ==
  \A r \in Rows : base[r] = db[r] \/ r \in {Show(u), Studio} \/ \E n : r = Season(u, n)

\* The identity of u is what it was, or one that d is not about to insert.
Inserts(t, w) == Working(t) /\ db[Show(t.show)] = NoShow /\ t.work = w

Identified(base, u, t) ==
  \/ base[Show(u)].identity = db[Show(u)].identity
  \/ \E w \in Works : base[Show(u)].identity = Tmdb(w) /\ ~Inserts(t, w)

ShowsStay(base) == \A s \in Shows : db[Show(s)] # NoShow => base[Show(s)] # NoShow

\* What does not reach into a page's own rows leaves its call as it was.
LEMMA PageKept ==
  ASSUME CatalogInv, NEW d \in Clients, d # Script, NEW base, NEW bad, NEW u \in Shows,
         Touches(base, u), Identified(base, u, tx[d]), ShowsStay(base),
         \A r \in DOMAIN tx[d].mine : base[r] = db[r],
         flawed \cap Shows \subseteq bad \cup {u},
         Working(tx[d]) /\ tx[d].show = u => tx[d].raced
  PROVE  CallOK(d, tx[d], base, bad)
<1> DEFINE t == tx[d]
<1> SUFFICES ASSUME t # Idle PROVE CallOK(d, t, base, bad)
  BY DEF CallOK
<1>1. ImportOK(t, db, flawed) /\ WritesOK(t, db) /\ DOMAIN t.mine \subseteq Rows
  <2>1. CallOK(d, t, db, flawed)
    BY DEF CatalogInv, CallsOK
  <2> QED BY <2>1, InHand DEF CallOK
<1>2. ShowOK(t, base)
  BY <1>1 DEF ImportOK, ShowOK, WritesOK, View
<1>3. Progress(t, base, bad)
  <2> SUFFICES ASSUME Working(t), ~t.raced, NEW n \in AllSeasons
               PROVE  /\ View(t, base, Season(t.show, n)) = View(t, db, Season(t.show, n))
                      /\ t.show \notin bad => t.show \notin flawed
    BY <1>1 DEF Progress, ImportOK
  <2>1. t.show \in Shows /\ t.show # u
    BY <1>1 DEF ImportOK, ImportTyped
  <2>2. base[Season(t.show, n)] = db[Season(t.show, n)]
    BY <2>1, RowTypes, RowIds DEF Touches
  <2> QED BY <2>1, <2>2 DEF View
<1>4. WritesOK(t, base)
  <2>1. Working(t) => Wrote(t, Show(t.show)) /\ base[Show(t.show)] = db[Show(t.show)]
    BY <1>1 DEF WritesOK, Wrote
  <2>2. ASSUME Working(t), db[Show(t.show)] = NoShow, NEW s \in Shows
        PROVE  base[Show(s)].identity # Tmdb(t.work)
    <3>1. db[Show(s)].identity # Tmdb(t.work)
      BY <1>1, <2>2 DEF WritesOK
    <3>2. CASE s # u
      <4>1. base[Show(s)] = db[Show(s)]
        BY <3>2, RowTypes, RowIds DEF Touches
      <4> QED BY <3>1, <4>1
    <3>3. CASE s = u
      BY <2>2, <3>1, <3>3 DEF Identified, Inserts, Tmdb
    <3> QED BY <3>2, <3>3
  <2>3. \A n \in DOMAIN t.detail : Wrote(t, Season(t.show, n)) =>
          base[Season(t.show, n)] = db[Season(t.show, n)]
    BY DEF Wrote
  <2>4. NextRow(db, t.work, t.show) => NextRow(base, t.work, t.show)
    <3>1. \A k \in 1..MaxCopies : t.work \in Works => <<"tmdb", t.work, k>> \in Shows
      BY DEF Shows
    <3> QED BY <3>1, Identities DEF NextRow, ShowsStay
  <2> QED BY <1>1, <2>1, <2>2, <2>3, <2>4 DEF WritesOK
<1> QED BY <1>1, <1>2, <1>3, <1>4 DEF CallOK, ImportOK

\* A show keeps its totals with its rows.
LEMMA MatchedKept ==
  ASSUME NEW base, NEW other, NEW s, Matched(base, s),
         other[Show(s)].episodes = base[Show(s)].episodes,
         \A n \in AllSeasons : other[Season(s, n)] = base[Season(s, n)]
  PROVE  Matched(other, s)
<1>1. [n \in AllSeasons |-> base[Season(s, n)].stored] = [n \in AllSeasons |-> other[Season(s, n)].stored]
  OBVIOUS
<1> QED BY <1>1 DEF Matched

\* A call sees what it has written.
LEMMA WrittenView ==
  ASSUME CatalogInv, NEW c \in Clients, NEW r \in Rows, NEW v, NEW next, Written(c, r, v, next)
  PROVE  /\ View(tx'[c], db', r) = v
         /\ \A x \in Rows : x # r => View(tx'[c], db', x) = View(tx[c], db, x)
<1>1. CASE c = Script
  <2>1. \A x : ~Wrote(tx[c], x) /\ ~Wrote(tx'[c], x)
    <3>1. DOMAIN tx[c].mine = {}
      BY <1>1, NothingWritten DEF CatalogInv, CallsOK, CallOK
    <3> QED BY <1>1, <3>1 DEF Written, Wrote
  <2> QED BY <1>1, <2>1 DEF Written, View
<1>2. CASE c # Script
  BY <1>2 DEF Written, OneRow, View
<1> QED BY <1>1, <1>2

\* A statement of the script that writes a row of the show it is at.
LEMMA ScriptWrote ==
  ASSUME CatalogInv, NEW r \in Rows, NEW v, NEW next, Written(Script, r, v, next),
         NEW u \in Shows, r \in {Show(u), Studio} \/ \E n : r = Season(u, n),
         IF r = Show(u)
         THEN /\ v # NoShow
              /\ ~history.disturbed => SlugOK(v.identity, v.slug)
              /\ \/ v.identity = db[r].identity
                 \/ \E w \in Works : v.identity = Tmdb(w) /\ db[Show(u)] = NoShow /\ NextRow(db, w, u)
         ELSE Working(tx[Script]),
         Working(tx[Script]) => tx[Script].show = u,
         Importer(tx[Script]), tx'[Script].work = tx[Script].work, tx'[Script].raced = tx[Script].raced,
         ImportOK(tx'[Script], db', flawed), Working(tx'[Script]), tx'[Script].show = u,
         tx'[Script].pc # "credit", BaseOK(db'), ~history.disturbed => FoundOK(tx'[Script], db'),
         UNCHANGED <<source, script, flawed, history>>
  PROVE  CatalogInv'
<1> DEFINE c == Script
<1>1. c \in Clients /\ Others(c) /\ DOMAIN tx[c].mine = {} /\ DOMAIN tx'[c].mine = {}
  BY CatalogAssumption, InHand DEF Written
<1>2. RivalsOK' /\ Locked'
  <2>1. Goes(c)
    BY <1>1 DEF Goes, Working
  <2> QED BY <1>1, <2>1, RivalsKept
<1>3. /\ Free(c, r) /\ DOMAIN db' = Rows /\ db'[r] = v
      /\ \A x \in Rows : x # r => db'[x] = db[x]
  BY DEF Written
<1>4. ASSUME NEW d \in Clients, d # c PROVE CallOK(d, tx[d], db', flawed)
  <2>1. \A x \in DOMAIN tx[d].mine : db'[x] = db[x]
    BY <1>3, <1>4, InHand DEF Free
  <2>2. Touches(db', u)
    BY <1>3 DEF Touches
  <2>3. Identified(db', u, tx[d])
    <3>1. CASE r = Show(u)
      <4>1. ~Wrote(tx[d], Show(u))
        BY <1>3, <1>4, <3>1 DEF Free, Wrote
      <4>2. ASSUME NEW w \in Works, db[Show(u)] = NoShow, NextRow(db, w, u), Inserts(tx[d], w)
            PROVE  FALSE
        <5>1. WritesOK(tx[d], db)
          BY <1>4, <4>2, InHand DEF Inserts, Working
        <5>2. NextRow(db, w, tx[d].show) /\ Wrote(tx[d], Show(tx[d].show))
          BY <4>2, <5>1 DEF WritesOK, Inserts
        <5> QED BY <4>1, <4>2, <5>2, OneNext DEF Inserts
      <4> QED BY <1>3, <3>1, <4>2 DEF Identified
    <3>2. CASE r # Show(u)
      BY <1>3, <3>2, RowTypes DEF Identified
    <3> QED BY <3>1, <3>2
  <2>4. Working(tx[d]) /\ tx[d].show = u => tx[d].raced
    <3> SUFFICES ASSUME Working(tx[d]), tx[d].show = u PROVE tx[d].raced
      OBVIOUS
    <3>1. CASE r = Show(u)
      <4>1. Wrote(tx[d], Show(u))
        BY <1>4, InHand DEF Working, WritesOK
      <4> QED BY <1>3, <1>4, <3>1, <4>1 DEF Free, Wrote
    <3>2. CASE r # Show(u)
      BY <1>1, <1>4, <3>2, Apart
    <3> QED BY <3>1, <3>2
  <2>5. ShowsStay(db')
    <3> SUFFICES ASSUME NEW s \in Shows, db[Show(s)] # NoShow PROVE db'[Show(s)] # NoShow
      BY DEF ShowsStay
    <3>1. CASE r = Show(s)
      BY <1>3, <3>1, RowIds
    <3>2. CASE r # Show(s)
      BY <1>3, <3>2, RowTypes
    <3> QED BY <3>1, <3>2
  <2> QED BY <1>4, <2>1, <2>2, <2>3, <2>4, <2>5, PageKept
<1>5. CallsOK'
  <2>1. tx' = [d \in Clients |-> tx'[d]] /\ \A d \in Clients : d # c => tx'[d] = tx[d]
    BY <1>1 DEF Others
  <2>2. \A d \in Clients : CallOK(d, tx'[d], db', flawed)
    BY <1>1, <1>4, <2>1 DEF CallOK
  <2>3. ~history.disturbed => \A d \in Clients : FoundOK(tx'[d], db')
    <3> SUFFICES ASSUME ~history.disturbed, NEW d \in Clients PROVE FoundOK(tx'[d], db')
      OBVIOUS
    <3>1. CASE d = c
      BY <3>1
    <3>2. CASE d # c
      <4>1. tx'[d].pc = "idle"
        BY <1>1, <2>1, <3>2 DEF CatalogInv, RivalsOK, Open, Importer
      <4> QED BY <4>1 DEF FoundOK, Importer
    <3> QED BY <3>1, <3>2
  <2> QED BY <2>1, <2>2, <2>3 DEF CallsOK
<1>6. TotalsOK'
  <2> SUFFICES ASSUME NEW s \in Shows, db'[Show(s)] # NoShow, s \notin flawed, s # u
               PROVE  Matched(db', s)
    BY DEF TotalsOK
  <2>1. db'[Show(s)] = db[Show(s)] /\ \A n \in AllSeasons : db'[Season(s, n)] = db[Season(s, n)]
    BY <1>3, RowTypes, RowIds
  <2>2. Matched(db, s)
    BY <2>1 DEF CatalogInv, TotalsOK
  <2> QED BY <2>1, <2>2, MatchedKept
<1>7. Sourced' /\ AloneNeverFails'
  BY DEF CatalogInv, Sourced, AloneNeverFails
<1>8. SlugsOK'
  <2> SUFFICES ASSUME ~history.disturbed, NEW s \in Shows, db'[Show(s)] # NoShow
               PROVE  SlugOK(db'[Show(s)].identity, db'[Show(s)].slug)
    BY DEF SlugsOK, SlugsHold
  <2>1. CASE r = Show(s)
    BY <1>3, <2>1, RowIds
  <2>2. CASE r # Show(s)
    <3>1. db'[Show(s)] = db[Show(s)]
      BY <1>3, <2>2, RowTypes
    <3> QED BY <3>1 DEF CatalogInv, SlugsOK, SlugsHold
  <2> QED BY <2>1, <2>2
<1> QED BY <1>2, <1>5, <1>6, <1>7, <1>8 DEF CatalogInv

\* Nothing the catalogue holds is taken away.
NothingLost ==
  \A s \in Shows : db[Show(s)] # NoShow =>
    /\ db'[Show(s)] # NoShow /\ db'[Show(s)].slug = db[Show(s)].slug
    /\ \A n \in AllSeasons : db'[Season(s, n)].stored >= db[Season(s, n)].stored

LEMMA SameLosesNothing == CatalogInv /\ db' = db => NothingLost
BY DEF CatalogInv, BaseOK, SeasonRow, NothingLost

\* The row of show u changes and the others stay.
ShowChanges(base, u) ==
  /\ DOMAIN base = Rows /\ \A r \in Rows : r # Show(u) => base[r] = db[r]
  /\ ShowRow(base[Show(u)]) /\ base[Show(u)] # NoShow

\* u takes the identity of work w, which no show had.
TakesIdentity(base, u, w) ==
  base[Show(u)].identity = Tmdb(w) /\ \A s \in Shows \ {u} : db[Show(s)].identity # Tmdb(w)

LEMMA BaseShow ==
  ASSUME BaseOK(db), NEW base, NEW u \in Shows, ShowChanges(base, u),
         \/ base[Show(u)].identity = db[Show(u)].identity
         \/ \E w \in Works : TakesIdentity(base, u, w)
  PROVE  BaseOK(base)
<1>1. \A s \in Shows : s # u => base[Show(s)] = db[Show(s)]
  BY RowTypes, RowIds DEF ShowChanges
<1>2. \A s \in Shows, n \in AllSeasons : base[Season(s, n)] = db[Season(s, n)]
  BY RowTypes, RowIds DEF ShowChanges
<1>3. ASSUME NEW s \in Shows PROVE ShowRow(base[Show(s)])
  BY <1>1 DEF ShowChanges, BaseOK
<1>4. ASSUME NEW s \in Shows, base[Show(s)] = NoShow PROVE db[Show(s)] = NoShow
  BY <1>1, <1>4 DEF ShowChanges
<1>6. ASSUME NEW s \in Shows, NEW x \in Shows, base[Show(s)].identity = base[Show(x)].identity,
             base[Show(s)].identity[1] = "tmdb"
      PROVE  s = x
  <2>1. CASE base[Show(u)].identity = db[Show(u)].identity
    <3>1. \A y \in Shows : base[Show(y)].identity = db[Show(y)].identity
      BY <1>1, <2>1
    <3> QED BY <1>6, <3>1 DEF BaseOK
  <2>2. CASE \E w \in Works : TakesIdentity(base, u, w)
    <3>1. \A y \in Shows : y # u => base[Show(y)].identity # base[Show(u)].identity
      BY <1>1, <2>2 DEF TakesIdentity
    <3> QED BY <1>1, <1>6, <3>1 DEF BaseOK
  <2> QED BY <2>1, <2>2
<1> QED BY <1>2, <1>3, <1>4, <1>6 DEF BaseOK, ShowChanges

\* The seasons of the show an import reaches are matched, unless it is flawed.
LEMMA Untouched ==
  ASSUME CatalogInv, NEW c \in Clients, tx[c].pc = "show", ~tx[c].raced, NEW u \in Shows,
         db[Show(u)] = NoShow \/ db[Show(u)].identity = Tmdb(tx[c].work), u \notin flawed,
         NEW n \in AllSeasons
  PROVE  db[Season(u, n)].count = db[Season(u, n)].stored
<1>1. CASE db[Show(u)] = NoShow
  BY <1>1 DEF CatalogInv, BaseOK
<1>2. CASE db[Show(u)] # NoShow /\ Working(tx[Script]) /\ tx[Script].show = u
  <2>1. c # Script /\ Importer(tx[c]) /\ Importer(tx[Script])
    BY <1>2 DEF Working, Importer
  <2>2. ShowOK(tx[Script], db) /\ View(tx[Script], db, Show(u)) = db[Show(u)]
    BY <1>2, <2>1, InHand, RowTypes, CatalogAssumption DEF ImportOK
  <2>3. tx[Script].work = tx[c].work
    BY <1>2, <2>2 DEF ShowOK, Tmdb
  <2> QED BY <2>1, <2>3, CatalogAssumption DEF CatalogInv, RivalsOK
<1>3. CASE db[Show(u)] # NoShow /\ ~(Working(tx[Script]) /\ tx[Script].show = u)
  BY <1>3 DEF CatalogInv, TotalsOK, Matched
<1> QED BY <1>1, <1>2, <1>3

----------------------------------------------------------------------------
(* show.upsert.                                                            *)

\* Show u as it is, or as it is created for the work of t.
Upserted(t, u, v) ==
  /\ v.identity = Tmdb(t.work) /\ ShowRow(v) /\ v # NoShow
  /\ \/ v = db[Show(u)]
     \/ /\ db[Show(u)] = NoShow /\ NextRow(db, t.work, u) /\ v.slug = t.slug
        /\ \A s \in Shows : db[Show(s)].identity # Tmdb(t.work)

LEMMA ShowReached ==
  ASSUME CatalogInv, NEW c \in Clients, tx[c].pc = "show", NEW u \in Shows, NEW v,
         Upserted(tx[c], u, v), Written(c, Show(u), v, [pc |-> "credits", show |-> u]),
         UNCHANGED <<source, script, flawed, history>>
  PROVE  CatalogInv' /\ NothingLost
<1> DEFINE t == tx[c]
           s == tx'[c]
<1>1. /\ Importer(t) /\ ~Working(t) /\ ImportTyped(t) /\ DOMAIN t.mine = {}
      /\ \A r \in Rows : View(t, db, r) = db[r]
      /\ t.todo = DOMAIN t.detail
  BY Unwritten DEF Importer, Working
<1>2. /\ DOMAIN s = DOMAIN t /\ s.pc = "credits" /\ s.show = u /\ s.slug = t.slug
      /\ s.work = t.work /\ s.detail = t.detail /\ s.todo = t.todo /\ s.raced = t.raced
  BY <1>1 DEF Written, GoneOn, ImportTyped
<1>3. Others(c) /\ Free(c, Show(u)) /\ Show(u) \in Rows
  BY RowTypes DEF Written
<1>4. ImportTyped(s) /\ Working(s) /\ Importer(s)
  BY <1>1, <1>2 DEF ImportTyped, Working, Importer
<1>5. /\ View(s, db', Show(u)) = v
      /\ \A r \in Rows : r # Show(u) => View(s, db', r) = View(t, db, r)
  BY <1>3, WrittenView
<1>6. ImportOK(s, db', flawed)
  <2>1. ShowOK(s, db')
    BY <1>2, <1>5 DEF ShowOK, Upserted
  <2>2. Progress(s, db', flawed)
    <3> SUFFICES ASSUME ~t.raced, NEW n \in AllSeasons, u \notin flawed
                 PROVE  View(s, db', Season(u, n)).count = View(s, db', Season(u, n)).stored
      BY <1>1, <1>2 DEF Progress
    <3>1. View(s, db', Season(u, n)) = db[Season(u, n)]
      BY <1>1, <1>5, RowTypes, RowIds
    <3> QED BY <3>1, Untouched DEF Upserted
  <2> QED BY <1>4, <2>1, <2>2 DEF ImportOK
<1>9. ~history.disturbed => SlugOK(Tmdb(t.work), t.slug) /\ \A base : FoundOK(s, base)
  BY <1>1, <1>2 DEF CatalogInv, CallsOK, FoundOK
<1>7. CASE c # Script
  <2>1. db' = db /\ OneRow(t, s, Show(u), v)
    BY <1>7 DEF Written
  <2>2. DOMAIN s.mine = {Show(u)} /\ s.mine[Show(u)] = v
    BY <1>1, <2>1 DEF OneRow, Wrote
  <2>3. WritesOK(s, db)
    <3>1. \A n \in DOMAIN s.detail : ~Wrote(s, Season(u, n))
      BY <2>2, RowIds DEF Wrote
    <3> QED BY <1>2, <1>4, <2>2, <3>1 DEF WritesOK, Wrote, Upserted
  <2>4. CallOK(c, s, db, flawed')
    BY <1>2, <1>6, <1>7, <2>1, <2>3 DEF CallOK
  <2>5. Onward(c)
    BY <1>1, <1>2, <1>3, <1>4, <1>7, <1>9, <2>1, <2>2, <2>4 DEF Onward, Goes, Leaves
  <2>6. Sourced' /\ AloneNeverFails'
    BY DEF CatalogInv, Sourced, AloneNeverFails
  <2> QED BY <2>1, <2>5, <2>6, OnwardKeeps, SameLosesNothing
<1>8. CASE c = Script
  <2>1. DOMAIN db' = Rows /\ db'[Show(u)] = v /\ \A r \in Rows : r # Show(u) => db'[r] = db[r]
    BY <1>8 DEF Written
  <2>2. BaseOK(db')
    <3>1. ShowChanges(db', u)
      BY <2>1 DEF ShowChanges, Upserted
    <3>2. v = db[Show(u)] \/ TakesIdentity(db', u, t.work)
      BY <2>1, Identities DEF Upserted, TakesIdentity
    <3>3. t.work \in Works
      BY <1>1 DEF ImportTyped, DetailOK
    <3> QED BY <2>1, <3>1, <3>2, <3>3, BaseShow DEF CatalogInv
  <2>3. /\ v # NoShow
        /\ \/ v.identity = db[Show(u)].identity
           \/ \E w \in Works : v.identity = Tmdb(w) /\ db[Show(u)] = NoShow /\ NextRow(db, w, u)
        /\ ~history.disturbed => SlugOK(v.identity, v.slug)
    BY <1>1, <1>9 DEF Upserted, ImportTyped, DetailOK, CatalogInv, SlugsOK, SlugsHold
  <2>4. CatalogInv'
    BY <1>1, <1>2, <1>3, <1>4, <1>6, <1>8, <1>9, <2>2, <2>3, ScriptWrote
  <2>5. NothingLost
    <3>1. \A x \in Shows, n \in AllSeasons : db'[Season(x, n)] = db[Season(x, n)]
      BY <2>1, RowTypes, RowIds
    <3>2. \A x \in Shows : db[Show(x)] # NoShow => db'[Show(x)] = db[Show(x)]
      BY <2>1, RowTypes, RowIds DEF Upserted
    <3> QED BY <3>1, <3>2 DEF NothingLost, CatalogInv, BaseOK, SeasonRow
  <2> QED BY <2>4, <2>5
<1> QED BY <1>7, <1>8

\* A show upserted by its identity, or a slug that somebody has taken.
LEMMA ShowUpsertGoes ==
  ASSUME CatalogInv, NEW c \in Clients, ShowUpsert(c)
  PROVE  CatalogInv' /\ NothingLost
<1> DEFINE t == tx[c]
           id == Tmdb(tx[c].work)
           held == Holders(See(c), Tmdb(tx[c].work))
           least == Min(Unused(tx[c].work))
           next == <<"tmdb", tx[c].work, least>>
           new == [identity |-> id, slug |-> t.slug, seasons |-> 0, episodes |-> 0]
<1>1. t.pc = "show" /\ source' = source /\ script' = script
  BY DEF ShowUpsert, At, Rest
<1>2. /\ ImportTyped(t) /\ \A r \in Rows : See(c)[r] = db[r]
      /\ "mine" \in DOMAIN t /\ {"pc", "show"} \subseteq DOMAIN t
  BY <1>1, Unwritten DEF Importer, Working, ImportTyped
<1>3. id \in SourceIds /\ id[1] = "tmdb" /\ t.work \in Works
  BY <1>2, Identities DEF ImportTyped, DetailOK
<1>4. \A s : s \in held <=> s \in Shows /\ db[Show(s)] # NoShow /\ db[Show(s)].identity = id
  BY <1>2, RowTypes DEF Holders, Held
<1>5. \/ /\ held # {}
         /\ \E s \in held : Write(c, Show(s), See(c)[Show(s)], [pc |-> "credits", show |-> s])
         /\ flawed' = flawed /\ history' = history
      \/ /\ held = {} /\ t.slug \in TakenSlugs(See(c)) /\ Throw(c)
      \/ /\ held = {} /\ Unused(t.work) # {}
         /\ Write(c, Show(next), new, [pc |-> "credits", show |-> next])
         /\ flawed' = flawed /\ history' = history
  BY DEF ShowUpsert, Tmdb
<1>6. CASE \E s \in held : /\ Write(c, Show(s), See(c)[Show(s)], [pc |-> "credits", show |-> s])
                           /\ flawed' = flawed /\ history' = history
  <2>1. PICK s \in held : /\ Write(c, Show(s), See(c)[Show(s)], [pc |-> "credits", show |-> s])
                          /\ flawed' = flawed /\ history' = history
    BY <1>6
  <2>2. s \in Shows /\ Show(s) \in Rows /\ See(c)[Show(s)] = db[Show(s)]
    BY <1>2, <1>4, RowTypes
  <2>3. Upserted(t, s, db[Show(s)])
    BY <1>4, <2>2 DEF Upserted, CatalogInv, BaseOK
  <2> HIDE DEF held
  <2>4. Written(c, Show(s), db[Show(s)], [pc |-> "credits", show |-> s])
    BY <1>2, <2>1, <2>2, WriteEffect
  <2> QED BY <1>1, <2>1, <2>2, <2>3, <2>4, ShowReached
<1>7. CASE held = {} /\ t.slug \in TakenSlugs(See(c)) /\ Throw(c)
  <2>1. \E s \in Shows : db[Show(s)] # NoShow /\ db[Show(s)].slug = t.slug
    BY <1>2, <1>7, RowTypes DEF TakenSlugs, Held
  <2>2. history.disturbed
    BY <1>1, <1>4, <1>7, <2>1 DEF CatalogInv, CallsOK, FoundOK
  <2> QED BY <1>1, <1>7, <2>2, ThrowGoes, SameLosesNothing
<1>8. CASE /\ held = {} /\ Unused(t.work) # {}
           /\ Write(c, Show(next), new, [pc |-> "credits", show |-> next])
           /\ flawed' = flawed /\ history' = history
  <2>1. \A s \in Shows : db[Show(s)].identity # id
    BY <1>4, <1>8, Identities
  <2>2. db[Show(next)] = NoShow /\ NextRow(db, t.work, next) /\ next \in Shows
    <3>1. Unused(t.work) \subseteq Nat
      BY CatalogAssumption DEF Unused
    <3>2. least \in Unused(t.work) /\ \A k \in Unused(t.work) : ~(k < least)
      BY <1>8, <3>1, LeastIsOne
    <3> HIDE DEF least
    <3>3. next \in Shows /\ next[1] = "tmdb" /\ next[2] = t.work /\ next[3] = least
      BY <1>3, <3>2 DEF Unused, Shows
    <3> QED BY <3>2, <3>3 DEF NextRow, Unused
  <2>3. ShowRow(new) /\ new # NoShow /\ new.identity = id /\ new.slug = t.slug
    <3>1. new.identity # NoShow.identity
      BY Identities
    <3> QED BY <1>3, <3>1 DEF ShowRow
  <2>6. Show(next) \in Rows
    BY <2>2, RowTypes
  <2> HIDE DEF new, held, next
  <2>4. Upserted(t, next, new)
    BY <2>1, <2>2, <2>3 DEF Upserted
  <2>5. Written(c, Show(next), new, [pc |-> "credits", show |-> next])
    BY <1>2, <1>8, <2>6, WriteEffect
  <2> QED BY <1>1, <1>8, <2>2, <2>4, <2>5, ShowReached
<1> QED BY <1>5, <1>6, <1>7, <1>8

----------------------------------------------------------------------------
(* The studio and the seasons.                                             *)

\* A row of a show that calls write after they have reached it.
Part(t, r, v) ==
  \/ r = Studio
  \/ \E n \in DOMAIN t.detail :
       /\ r = Season(t.show, n) /\ SeasonRow(v)
       /\ v.stored >= View(t, db, r).stored

LEMMA SeasonKeeps ==
  ASSUME CatalogInv, NEW c \in Clients, Working(tx[c]), NEW n \in DOMAIN tx[c].detail
  PROVE  /\ n \in AllSeasons /\ tx[c].show \in Shows /\ Season(tx[c].show, n) \in Rows
         /\ SeasonRow(db[Season(tx[c].show, n)])
         /\ SeasonRow(View(tx[c], db, Season(tx[c].show, n)))
         /\ View(tx[c], db, Season(tx[c].show, n)).stored >= db[Season(tx[c].show, n)].stored
         /\ c = Script => db[Show(tx[c].show)] # NoShow
<1> DEFINE t == tx[c]
           r == Season(tx[c].show, n)
<1>1. /\ ImportTyped(t) /\ ShowOK(t, db)
      /\ IF c = Script THEN DOMAIN t.mine = {} ELSE WritesOK(t, db)
  BY InHand DEF Working, ImportOK
<1>2. t.show \in Shows /\ n \in AllSeasons /\ n \in SeasonsOf(t.work) /\ r \in Rows /\ t.work \in Works
  BY <1>1, Seasons, RowTypes DEF ImportTyped, DetailOK
<1>3. SeasonRow(db[r])
  BY <1>2 DEF CatalogInv, BaseOK
<1>4. SeasonRow(View(t, db, r)) /\ View(t, db, r).stored >= db[r].stored
  <2>1. CASE Wrote(t, r)
    <3>1. c # Script
      BY <1>1, <2>1 DEF Wrote
    <3>2. SeasonRow(t.mine[r]) /\ t.mine[r].stored >= db[r].stored
      BY <1>1, <2>1, <3>1 DEF WritesOK
    <3> QED BY <2>1, <3>2 DEF View
  <2>2. CASE ~Wrote(t, r)
    BY <1>3, <2>2 DEF View, SeasonRow
  <2> QED BY <2>1, <2>2
<1>5. ASSUME c = Script PROVE db[Show(t.show)] # NoShow
  <2>1. db[Show(t.show)].identity = Tmdb(t.work)
    BY <1>1, <1>2, <1>5, InHand, RowTypes DEF ShowOK
  <2> QED BY <2>1, Identities
<1> QED BY <1>2, <1>3, <1>4, <1>5

LEMMA RowWritten ==
  ASSUME CatalogInv, NEW c \in Clients, Working(tx[c]), NEW r, NEW v, Part(tx[c], r, v),
         NEW next, DOMAIN next \subseteq {"pc", "todo"}, Written(c, r, v, next),
         ImportTyped(tx'[c]), tx'[c].pc \in {"season", "episodes"},
         Progress(tx'[c], db', flawed), UNCHANGED <<source, script, flawed, history>>
  PROVE  CatalogInv' /\ NothingLost
<1> DEFINE t == tx[c]
           s == tx'[c]
           u == tx[c].show
<1>1. /\ Importer(t) /\ ImportTyped(t) /\ ShowOK(t, db) /\ u \in Shows
      /\ IF c = Script THEN DOMAIN t.mine = {} ELSE WritesOK(t, db)
  BY InHand DEF Working, ImportOK, ImportTyped
<1>2. Working(s) /\ Importer(s)
  BY DEF Working, Importer
<1>3. /\ s.show = u /\ s.work = t.work /\ s.detail = t.detail /\ s.raced = t.raced
      /\ s.slug = t.slug
  BY <1>1 DEF Written, GoneOn, ImportTyped
<1>9. ~history.disturbed => \A base : FoundOK(s, base)
  BY <1>1, <1>3 DEF CatalogInv, CallsOK, FoundOK, Working
<1>4. /\ r \in Rows /\ r # Show(u) /\ Others(c) /\ Free(c, r)
      /\ r = Studio \/ \E n \in AllSeasons : r = Season(u, n)
  BY SeasonKeeps, RowTypes, RowIds DEF Part, Written
<1>5. /\ View(s, db', r) = v
      /\ \A x \in Rows : x # r => View(s, db', x) = View(t, db, x)
  BY <1>4, WrittenView
<1>6. ImportOK(s, db', flawed)
  <2>1. View(s, db', Show(u)) = View(t, db, Show(u))
    BY <1>1, <1>4, <1>5, RowTypes
  <2> QED BY <1>1, <1>2, <1>3, <2>1 DEF ImportOK, ShowOK, Working
<1>7. CASE c # Script
  <2>1. db' = db /\ OneRow(t, s, r, v)
    BY <1>7 DEF Written
  <2>2. WritesOK(s, db)
    <3>1. WritesOK(t, db) /\ Wrote(s, Show(u)) /\ s.mine[Show(u)] = t.mine[Show(u)]
      BY <1>1, <1>4, <1>7, <2>1 DEF OneRow, WritesOK
    <3>2. \A x \in DOMAIN s.mine :
            x \in {Show(u), Studio} \cup {Season(u, n) : n \in DOMAIN t.detail}
      BY <2>1, <3>1 DEF OneRow, WritesOK, Wrote, Part
    <3>3. ASSUME NEW n \in DOMAIN t.detail, Wrote(s, Season(u, n))
          PROVE  SeasonRow(s.mine[Season(u, n)]) /\ s.mine[Season(u, n)].stored >= db[Season(u, n)].stored
      <4>1. CASE r = Season(u, n)
        <5>1. s.mine[Season(u, n)] = v
          BY <2>1, <4>1 DEF OneRow
        <5>2. SeasonRow(v) /\ v.stored >= View(t, db, r).stored
          BY <4>1, RowIds DEF Part
        <5>3. /\ SeasonRow(View(t, db, r)) /\ SeasonRow(db[r])
              /\ View(t, db, r).stored >= db[r].stored
          BY <4>1, SeasonKeeps
        <5> QED BY <4>1, <5>1, <5>2, <5>3 DEF SeasonRow
      <4>2. CASE r # Season(u, n)
        <5>1. Wrote(t, Season(u, n)) /\ s.mine[Season(u, n)] = t.mine[Season(u, n)]
          BY <2>1, <3>3, <4>2 DEF OneRow
        <5> QED BY <3>1, <5>1 DEF WritesOK
      <4> QED BY <4>1, <4>2
    <3> QED BY <1>2, <1>3, <3>1, <3>2, <3>3 DEF WritesOK
  <2>3. CallOK(c, s, db, flawed')
    BY <1>6, <1>7, <2>1, <2>2 DEF CallOK
  <2>4. \A x \in DOMAIN s.mine : Wrote(t, x) \/ Free(c, x)
    BY <1>4, <2>1 DEF OneRow, Wrote
  <2>5. Onward(c)
    BY <1>1, <1>2, <1>3, <1>4, <1>7, <1>9, <2>1, <2>3, <2>4 DEF Onward, Goes, Leaves
  <2>6. Sourced' /\ AloneNeverFails'
    BY DEF CatalogInv, Sourced, AloneNeverFails
  <2> QED BY <2>1, <2>5, <2>6, OnwardKeeps, SameLosesNothing
<1>8. CASE c = Script
  <2>1. DOMAIN db' = Rows /\ db'[r] = v /\ \A x \in Rows : x # r => db'[x] = db[x]
    BY <1>8 DEF Written
  <2>2. \A x \in Shows : db'[Show(x)] = db[Show(x)]
    BY <1>4, <2>1, RowTypes, RowIds
  <2>3. ASSUME NEW x \in Shows, NEW n \in AllSeasons
        PROVE  /\ SeasonRow(db'[Season(x, n)])
               /\ db[Show(x)] = NoShow => db'[Season(x, n)].count = db'[Season(x, n)].stored
               /\ db'[Season(x, n)].stored >= db[Season(x, n)].stored
    <3>1. CASE r # Season(x, n)
      BY <2>1, <3>1, RowTypes DEF CatalogInv, BaseOK, SeasonRow
    <3>2. CASE r = Season(x, n)
      <4>1. x = u /\ n \in DOMAIN t.detail /\ SeasonRow(v) /\ v.stored >= View(t, db, r).stored
        BY <3>2, RowIds DEF Part
      <4>2. /\ SeasonRow(View(t, db, r)) /\ SeasonRow(db[r]) /\ db[Show(u)] # NoShow
            /\ View(t, db, r).stored >= db[r].stored
        BY <1>8, <3>2, <4>1, SeasonKeeps
      <4> QED BY <2>1, <3>2, <4>1, <4>2 DEF SeasonRow
    <3> QED BY <3>1, <3>2
  <2>4. BaseOK(db')
    BY <2>1, <2>2, <2>3 DEF CatalogInv, BaseOK
  <2>5. NothingLost
    BY <2>2, <2>3 DEF NothingLost
  <2>6. CatalogInv'
    BY <1>1, <1>2, <1>3, <1>4, <1>6, <1>8, <1>9, <2>4, ScriptWrote
  <2> QED BY <2>5, <2>6
<1> QED BY <1>7, <1>8

LEMMA CreditInsertGoes ==
  ASSUME CatalogInv, NEW c \in Clients, CreditInsert(c)
  PROVE  CatalogInv' /\ NothingLost
<1> DEFINE t == tx[c]
           s == tx'[c]
<1>1. /\ t.pc = "credit" /\ source' = source /\ script' = script
      /\ \/ See(c)[Studio] /\ Throw(c)
         \/ /\ Write(c, Studio, TRUE, [pc |-> "season"])
            /\ flawed' = flawed /\ history' = history
  BY DEF CreditInsert, At, Rest
<1>2. /\ Working(t) /\ ImportOK(t, db, flawed) /\ See(c)[Studio] = View(t, db, Studio)
      /\ Studio \in Rows /\ "pc" \in DOMAIN t
  BY <1>1, InHand, RowTypes DEF Working, Importer, ImportOK, ImportTyped
<1>3. CASE See(c)[Studio] /\ Throw(c)
  <2>1. history.disturbed
    BY <1>1, <1>2, <1>3 DEF CatalogInv, CallsOK, FoundOK
  <2> QED BY <1>1, <1>3, <2>1, ThrowGoes, SameLosesNothing
<1>4. CASE /\ Write(c, Studio, TRUE, [pc |-> "season"])
           /\ flawed' = flawed /\ history' = history
  <2>1. Written(c, Studio, TRUE, [pc |-> "season"])
    BY <1>2, <1>4, WriteEffect
  <2>2. /\ DOMAIN s = DOMAIN t /\ s.pc = "season" /\ s.show = t.show /\ s.slug = t.slug
        /\ s.work = t.work /\ s.detail = t.detail /\ s.todo = t.todo /\ s.raced = t.raced
    BY <1>2, <2>1 DEF Written, GoneOn, ImportOK, ImportTyped
  <2>3. ImportTyped(s)
    BY <1>1, <1>2, <2>2 DEF ImportOK, ImportTyped, Working, Importer
  <2>4. Progress(s, db', flawed)
    <3> SUFFICES ASSUME NEW n \in AllSeasons
                 PROVE  View(s, db', Season(t.show, n)) = View(t, db, Season(t.show, n))
      BY <1>1, <1>2, <2>2 DEF Progress, ImportOK, Working, Importer
    <3>1. Season(t.show, n) \in Rows /\ Season(t.show, n) # Studio
      BY <1>2, RowTypes, RowIds DEF ImportOK, ImportTyped
    <3>2. \A x \in Rows : x # Studio => View(s, db', x) = View(t, db, x)
      BY <1>2, <2>1, WrittenView
    <3> QED BY <3>1, <3>2
  <2> QED BY <1>1, <1>2, <1>4, <2>1, <2>2, <2>3, <2>4, RowWritten DEF Part
<1> QED BY <1>1, <1>3, <1>4

LEMMA SeasonUpsertGoes ==
  ASSUME CatalogInv, NEW c \in Clients, SeasonUpsert(c)
  PROVE  CatalogInv' /\ NothingLost
<1> DEFINE t == tx[c]
           s == tx'[c]
           n == Min(tx[c].todo)
           r == Season(tx[c].show, n)
           v == [See(c)[r] EXCEPT !.count = t.detail[n]]
<1>1. /\ t.pc = "season" /\ t.todo # {} /\ Write(c, r, v, [pc |-> "episodes"])
      /\ UNCHANGED <<source, script, flawed, history>>
  BY DEF SeasonUpsert, At, Rest
<1>2. /\ Working(t) /\ ImportTyped(t) /\ Progress(t, db, flawed) /\ "pc" \in DOMAIN t
      /\ \A x \in Rows : See(c)[x] = View(t, db, x)
  BY <1>1, InHand DEF Working, Importer, ImportOK, ImportTyped
<1>3. n \in t.todo /\ n \in DOMAIN t.detail /\ t.detail[n] \in Nat
  BY <1>1, <1>2, LeastIsOne, Seasons DEF ImportTyped, DetailOK
<1> HIDE DEF n
<1>4. /\ r \in Rows /\ See(c)[r] = View(t, db, r) /\ SeasonRow(View(t, db, r)) /\ t.show \in Shows
  BY <1>2, <1>3, SeasonKeeps
<1>5. SeasonRow(v) /\ v.count = t.detail[n] /\ v.stored = View(t, db, r).stored
  BY <1>3, <1>4 DEF SeasonRow
<1> HIDE DEF v
<1>6. Written(c, r, v, [pc |-> "episodes"])
  BY <1>1, <1>2, <1>4, WriteEffect
<1>7. /\ DOMAIN s = DOMAIN t /\ s.pc = "episodes" /\ s.show = t.show /\ s.slug = t.slug
      /\ s.work = t.work /\ s.detail = t.detail /\ s.todo = t.todo /\ s.raced = t.raced
  BY <1>2, <1>6 DEF Written, GoneOn, ImportTyped
<1>8. ImportTyped(s)
  BY <1>1, <1>2, <1>7 DEF ImportTyped, Working, Importer
<1>9. Progress(s, db', flawed)
  <2>1. View(s, db', r) = v
    BY <1>4, <1>6, WrittenView
  <2>2. \A m \in AllSeasons : m # n => View(s, db', Season(t.show, m)) = View(t, db, Season(t.show, m))
    BY <1>4, <1>6, WrittenView, RowTypes, RowIds
  <2> QED BY <1>1, <1>2, <1>3, <1>5, <1>7, <2>1, <2>2 DEF Progress, n
<1>10. Part(t, r, v)
  BY <1>3, <1>4, <1>5 DEF Part, SeasonRow
<1> QED BY <1>1, <1>2, <1>6, <1>7, <1>8, <1>9, <1>10, RowWritten

LEMMA EpisodesInsertGoes ==
  ASSUME CatalogInv, NEW c \in Clients, EpisodesInsert(c)
  PROVE  CatalogInv' /\ NothingLost
<1> DEFINE t == tx[c]
           s == tx'[c]
           n == Min(tx[c].todo)
           r == Season(tx[c].show, n)
           had == See(c)[r].stored
           v == [See(c)[r] EXCEPT !.stored = IF had < t.detail[n] THEN t.detail[n] ELSE had]
           next == [pc |-> "season", todo |-> t.todo \ {n}]
<1>1. /\ t.pc = "episodes" /\ Write(c, r, v, next)
      /\ UNCHANGED <<source, script, flawed, history>>
  BY DEF EpisodesInsert, At, Rest
<1>2. /\ Working(t) /\ ImportTyped(t) /\ Progress(t, db, flawed) /\ {"pc", "todo"} \subseteq DOMAIN t
      /\ \A x \in Rows : See(c)[x] = View(t, db, x)
  BY <1>1, InHand DEF Working, Importer, ImportOK, ImportTyped
<1>3. n \in t.todo /\ n \in DOMAIN t.detail /\ t.detail[n] \in Nat
  BY <1>1, <1>2, LeastIsOne, Seasons DEF ImportTyped, DetailOK
<1> HIDE DEF n
<1>4. /\ r \in Rows /\ See(c)[r] = View(t, db, r) /\ SeasonRow(View(t, db, r)) /\ t.show \in Shows
  BY <1>2, <1>3, SeasonKeeps
<1>5. /\ SeasonRow(v) /\ v.stored >= t.detail[n] /\ v.stored >= View(t, db, r).stored
      /\ v.count = View(t, db, r).count
  BY <1>3, <1>4 DEF SeasonRow
<1> HIDE DEF v
<1>6. Written(c, r, v, next)
  BY <1>1, <1>2, <1>4, WriteEffect
<1>7. /\ DOMAIN s = DOMAIN t /\ s.pc = "season" /\ s.show = t.show /\ s.slug = t.slug
      /\ s.work = t.work /\ s.detail = t.detail /\ s.todo = t.todo \ {n} /\ s.raced = t.raced
  BY <1>2, <1>6 DEF Written, GoneOn, ImportTyped
<1>8. ImportTyped(s)
  BY <1>1, <1>2, <1>7 DEF ImportTyped, Working, Importer
<1>9. Progress(s, db', flawed)
  <2>1. View(s, db', r) = v
    BY <1>4, <1>6, WrittenView
  <2>2. \A m \in AllSeasons : m # n => View(s, db', Season(t.show, m)) = View(t, db, Season(t.show, m))
    BY <1>4, <1>6, WrittenView, RowTypes, RowIds
  <2> SUFFICES ASSUME ~t.raced, NEW m \in AllSeasons
               PROVE  LET row == View(s, db', Season(t.show, m)) IN
                        IF m \in DOMAIN t.detail \ s.todo
                        THEN row.count = t.detail[m] /\ row.stored >= t.detail[m]
                        ELSE t.show \notin flawed => row.count = row.stored
    BY <1>2, <1>7 DEF Progress
  <2>3. CASE m = n
    <3>1. View(t, db, r).count = t.detail[n]
      BY <1>1, <1>2, <1>3, <2>3 DEF Progress, n
    <3> QED BY <1>3, <1>5, <1>7, <2>1, <2>3, <3>1
  <2>4. CASE m # n
    <3>1. LET row == View(t, db, Season(t.show, m)) IN
            IF m \in DOMAIN t.detail \ t.todo
            THEN row.count = t.detail[m] /\ row.stored >= t.detail[m]
            ELSE t.show \notin flawed => row.count = row.stored
      BY <1>2, <2>4 DEF Progress, n
    <3> QED BY <1>7, <2>2, <2>4, <3>1
  <2> QED BY <2>3, <2>4
<1>10. Part(t, r, v)
  BY <1>3, <1>4, <1>5 DEF Part
<1> QED BY <1>1, <1>2, <1>6, <1>7, <1>8, <1>9, <1>10, RowWritten

----------------------------------------------------------------------------
(* The totals, and the commit.                                             *)

\* Seasons with nothing in them add nothing to the sum.
LEMMA SameSum ==
  ASSUME NEW f, NEW g, DOMAIN f \subseteq DOMAIN g, \A n \in DOMAIN f : g[n] = f[n],
         \A n \in DOMAIN g \ DOMAIN f : g[n] = 0
  PROVE  Sum(f) = Sum(g)
<1>1. ASSUME NEW e PROVE e \in Episodes(f) <=> e \in Episodes(g)
  <2>1. e \in Episodes(f) <=> \E n \in DOMAIN f : e \in {n} \X (1..f[n])
    BY DEF Episodes
  <2>2. e \in Episodes(g) <=> \E n \in DOMAIN g : e \in {n} \X (1..g[n])
    BY DEF Episodes
  <2>3. \A n \in DOMAIN g \ DOMAIN f : e \notin {n} \X (1..g[n])
    OBVIOUS
  <2> QED BY <2>1, <2>2, <2>3
<1>2. Episodes(f) = Episodes(g)
  BY <1>1
<1> QED BY <1>2 DEF Sum

\* The seasons of a base may be others.
LEMMA BaseSeasons ==
  ASSUME NEW base, BaseOK(base), NEW other, DOMAIN other = Rows,
         \A s \in Shows : other[Show(s)] = base[Show(s)],
         \A s \in Shows, n \in AllSeasons :
           /\ SeasonRow(other[Season(s, n)])
           /\ base[Show(s)] = NoShow => other[Season(s, n)].count = other[Season(s, n)].stored
  PROVE  BaseOK(other)
BY DEF BaseOK

\* What c's call sees is committed, with v at the show it is at.
Commits(c, v) ==
  /\ Others(c) /\ tx'[c] = Idle /\ Free(c, Show(tx[c].show))
  /\ DOMAIN db' = Rows /\ db'[Show(tx[c].show)] = v
  /\ \A r \in Rows : r # Show(tx[c].show) => db'[r] = View(tx[c], db, r)
  /\ DOMAIN v = {"identity", "slug", "seasons", "episodes"}
  /\ v.identity = View(tx[c], db, Show(tx[c].show)).identity
  /\ v.slug = View(tx[c], db, Show(tx[c].show)).slug

LEMMA StampCommits ==
  ASSUME CatalogInv, NEW c \in Clients, Working(tx[c]), NEW n,
         Finish(c, [r \in {Show(tx[c].show)} |-> Stamped(c, n)])
  PROVE  Commits(c, Stamped(c, n)) /\ Stamped(c, n).episodes = n
<1> DEFINE t == tx[c]
           r == Show(tx[c].show)
           v == Stamped(c, n)
           values == [x \in {r} |-> v]
<1>1. /\ tx = [d \in Clients |-> tx[d]] /\ DOMAIN db = Rows /\ DOMAIN t.mine \subseteq Rows
      /\ t.show \in Shows /\ r \in Rows /\ See(c)[r] = View(t, db, r)
      /\ IF c = Script THEN DOMAIN t.mine = {} ELSE WritesOK(t, db)
  BY InHand, RowTypes DEF Working, ImportOK, ImportTyped
<1>2. DOMAIN View(t, db, r) = {"identity", "slug", "seasons", "episodes"}
  BY <1>1 DEF View, WritesOK, ShowRow, CatalogInv, BaseOK, Wrote
<1>3. /\ DOMAIN v = {"identity", "slug", "seasons", "episodes"} /\ v.episodes = n
      /\ v.identity = View(t, db, r).identity /\ v.slug = View(t, db, r).slug
  BY <1>1, <1>2 DEF Stamped
<1> HIDE DEF v
<1>4. DOMAIN values = {r} /\ values[r] = v
  OBVIOUS
<1>5. Finish(c, values)
  BY DEF v
<1> HIDE DEF values
<1>6. Others(c) /\ tx'[c] = Idle /\ db' = Over(values, See(c)) /\ Free(c, r)
  BY <1>1, <1>4, <1>5, FinishEffect
<1>7. /\ DOMAIN db' = DOMAIN db
      /\ \A x \in DOMAIN db : db'[x] = IF x \in DOMAIN values THEN values[x]
                                       ELSE IF Wrote(t, x) THEN t.mine[x] ELSE db[x]
  BY <1>1, <1>4, <1>6, OverSeen
<1> QED BY <1>1, <1>3, <1>4, <1>6, <1>7 DEF Commits, View, v

\* The committed rows of the show, and of all others.
LEMMA CommitRows ==
  ASSUME CatalogInv, NEW c \in Clients, Working(tx[c]), NEW v, Commits(c, v)
  PROVE  /\ tx[c].show \in Shows /\ tx[c].work \in Works /\ v.identity = Tmdb(tx[c].work)
         /\ ShowRow(v) /\ v # NoShow
         /\ \A s \in Shows : s # tx[c].show =>
              /\ db'[Show(s)] = db[Show(s)]
              /\ \A n \in AllSeasons : db'[Season(s, n)] = db[Season(s, n)]
         /\ \A n \in AllSeasons :
              db'[Season(tx[c].show, n)] = View(tx[c], db, Season(tx[c].show, n))
         /\ \A n \in AllSeasons : n \notin DOMAIN tx[c].detail =>
              db'[Season(tx[c].show, n)] = db[Season(tx[c].show, n)]
         /\ Touches(db', tx[c].show)
         /\ IF db[Show(tx[c].show)] = NoShow
            THEN /\ TakesIdentity(db', tx[c].show, tx[c].work) /\ Wrote(tx[c], Show(tx[c].show))
                 /\ NextRow(db, tx[c].work, tx[c].show) /\ v.slug = tx[c].slug
            ELSE v.identity = db[Show(tx[c].show)].identity /\ v.slug = db[Show(tx[c].show)].slug
<1> DEFINE t == tx[c]
           u == tx[c].show
<1>1. /\ ImportTyped(t) /\ ShowOK(t, db)
      /\ IF c = Script THEN DOMAIN t.mine = {} ELSE WritesOK(t, db)
      /\ \A r \in DOMAIN t.mine :
            r \in {Show(u), Studio} \cup {Season(u, n) : n \in DOMAIN t.detail}
  BY InHand DEF Working, ImportOK, WritesOK
<1>2. u \in Shows /\ t.work \in Works /\ v.identity = Tmdb(t.work)
  BY <1>1 DEF Commits, ImportTyped, ShowOK, DetailOK
<1>3. ShowRow(View(t, db, Show(u))) /\ View(t, db, Show(u)) # NoShow
  <2>1. CASE c # Script
    BY <1>1, <2>1 DEF View, WritesOK, Wrote
  <2>2. CASE c = Script
    <3>1. View(t, db, Show(u)) = db[Show(u)]
      BY <1>1, <2>2 DEF View, Wrote
    <3>2. db[Show(u)].identity = Tmdb(t.work)
      BY <1>1, <3>1 DEF ShowOK
    <3> QED BY <1>2, <3>1, <3>2, Identities DEF CatalogInv, BaseOK
  <2> QED BY <2>1, <2>2
<1>4. ShowRow(v) /\ v # NoShow
  <2>1. v.identity # NoShow.identity
    BY <1>2, Identities
  <2> QED BY <1>3, <2>1 DEF Commits, ShowRow
<1>5. ASSUME NEW s \in Shows, s # u
      PROVE  db'[Show(s)] = db[Show(s)]
  <2>1. ~Wrote(t, Show(s)) /\ Show(s) \in Rows /\ Show(s) # Show(u)
    BY <1>1, <1>5, RowIds, RowTypes DEF Wrote
  <2> QED BY <2>1 DEF Commits, View
<1>6. ASSUME NEW s \in Shows, NEW n \in AllSeasons, s # u \/ n \notin DOMAIN t.detail
      PROVE  db'[Season(s, n)] = db[Season(s, n)]
  <2>1. ~Wrote(t, Season(s, n)) /\ Season(s, n) \in Rows /\ Season(s, n) # Show(u)
    BY <1>1, <1>6, RowIds, RowTypes DEF Wrote
  <2> QED BY <2>1 DEF Commits, View
<1>7. \A n \in AllSeasons : db'[Season(u, n)] = View(t, db, Season(u, n))
  BY <1>2, RowIds, RowTypes DEF Commits
<1>8. Touches(db', u)
  BY <1>1 DEF Touches, Commits, View, Wrote
<1>9. CASE db[Show(u)] = NoShow
  <2>1. c # Script
    <3> SUFFICES ASSUME c = Script PROVE FALSE
      OBVIOUS
    <3>1. View(t, db, Show(u)) = db[Show(u)]
      BY <1>1 DEF View, Wrote
    <3> QED BY <1>3, <1>9, <3>1
  <2>2. /\ Wrote(t, Show(u)) /\ NextRow(db, t.work, u) /\ v.slug = t.slug
        /\ \A s \in Shows : db[Show(s)].identity # Tmdb(t.work)
    BY <1>1, <1>9, <2>1 DEF WritesOK, Commits, View
  <2> QED BY <1>2, <1>4, <1>5, <1>6, <1>7, <1>8, <1>9, <2>2 DEF TakesIdentity, Commits
<1>10. CASE db[Show(u)] # NoShow
  <2>1. View(t, db, Show(u)) = db[Show(u)]
    BY <1>1, <1>10 DEF View, Wrote, WritesOK
  <2> QED BY <1>2, <1>4, <1>5, <1>6, <1>7, <1>8, <1>10, <2>1 DEF Commits
<1> QED BY <1>9, <1>10

\* An import that is whole leaves the show matched.
LEMMA WholeMatches ==
  ASSUME CatalogInv, NEW c \in Clients, tx[c].pc = "season", tx[c].todo = {}, NEW v,
         Commits(c, v), v.episodes = Sum(tx[c].detail), ~Short(c), ~tx[c].raced
  PROVE  Matched(db', tx[c].show)
<1> DEFINE t == tx[c]
           u == tx[c].show
           stored == [n \in AllSeasons |-> db'[Season(u, n)].stored]
<1>1. Working(t) /\ ImportTyped(t) /\ ShowOK(t, db) /\ Progress(t, db, flawed)
  BY InHand DEF Working, Importer, ImportOK
<1>2. u \in Shows /\ DetailOK(t.work, t.detail) /\ DOMAIN t.detail \subseteq AllSeasons
  BY <1>1, Seasons DEF ImportTyped, DetailOK
<1>3. \A n \in AllSeasons : db'[Season(u, n)] = View(t, db, Season(u, n))
  BY <1>1, CommitRows
<1>4. ASSUME NEW n \in AllSeasons
      PROVE  IF n \in DOMAIN t.detail THEN ~(db'[Season(u, n)].stored > t.detail[n])
             ELSE db'[Season(u, n)] = NoSeason
  <2>1. See(c)[Season(u, n)] = db'[Season(u, n)]
    BY <1>2, <1>3, InHand, RowTypes
  <2> QED BY <2>1 DEF Short
<1>5. ASSUME NEW n \in AllSeasons, n \in DOMAIN t.detail
      PROVE  db'[Season(u, n)].stored = t.detail[n] /\ db'[Season(u, n)].count = t.detail[n]
  <2>1. /\ db'[Season(u, n)].count = t.detail[n] /\ db'[Season(u, n)].stored >= t.detail[n]
    BY <1>1, <1>3, <1>5 DEF Progress
  <2>2. SeasonRow(db'[Season(u, n)]) /\ t.detail[n] \in Nat
    BY <1>1, <1>2, <1>3, <1>5, SeasonKeeps DEF DetailOK
  <2> QED BY <1>4, <1>5, <2>1, <2>2 DEF SeasonRow
<1>6. ASSUME NEW n \in AllSeasons, n \notin DOMAIN t.detail
      PROVE  db'[Season(u, n)].stored = 0 /\ db'[Season(u, n)].count = 0
  BY <1>4, <1>6 DEF NoSeason
<1>7. Sum(t.detail) = Sum(stored)
  <2>1. /\ DOMAIN stored = AllSeasons /\ \A n \in DOMAIN t.detail : stored[n] = t.detail[n]
        /\ \A n \in AllSeasons \ DOMAIN t.detail : stored[n] = 0
    BY <1>2, <1>5, <1>6
  <2> HIDE DEF stored
  <2> QED BY <1>2, <2>1, SameSum
<1>8. db'[Show(u)].episodes = Sum(stored)
  BY <1>7 DEF Commits
<1>9. \A n \in AllSeasons : db'[Season(u, n)].count = stored[n]
  BY <1>5, <1>6
<1> QED BY <1>8, <1>9 DEF Matched

\* A commit as its other calls see it.
LEMMA CommitKeeps ==
  ASSUME CatalogInv, NEW c \in Clients, Working(tx[c]), NEW v, Commits(c, v),
         flawed \cap Shows \subseteq flawed' \cup {tx[c].show},
         NEW d \in Clients, d # c
  PROVE  CallOK(d, tx[d], db', flawed')
<1> DEFINE u == tx[c].show
           t == tx[d]
<1>1. /\ u \in Shows /\ Touches(db', u) /\ tx[c].work \in Works
      /\ \A s \in Shows : s # u =>
           /\ db'[Show(s)] = db[Show(s)]
           /\ \A n \in AllSeasons : db'[Season(s, n)] = db[Season(s, n)]
      /\ v.identity = Tmdb(tx[c].work) /\ db'[Show(u)] = v
      /\ IF db[Show(u)] = NoShow
         THEN TakesIdentity(db', u, tx[c].work) /\ Wrote(tx[c], Show(u)) /\ NextRow(db, tx[c].work, u)
         ELSE v.identity = db[Show(u)].identity
      /\ v # NoShow
  BY CommitRows DEF Commits
<1>2. Working(t) /\ t.show = u => t.raced
  BY Apart
<1>3. CASE d # Script
  <2>1. \A r \in DOMAIN t.mine : db'[r] = db[r]
    <3>1. \A r \in DOMAIN t.mine : ~Wrote(tx[c], r) /\ r \in Rows /\ r # Show(u)
      BY InHand DEF CatalogInv, Locked, Wrote, Commits, Free
    <3> QED BY <3>1 DEF Commits, View
  <2>2. Identified(db', u, t)
    <3>1. CASE db[Show(u)] = NoShow
      <4>1. ~Wrote(t, Show(u))
        BY <1>1, <3>1 DEF CatalogInv, Locked, Wrote
      <4>2. ASSUME Inserts(t, tx[c].work) PROVE FALSE
        <5>1. WritesOK(t, db)
          BY <1>3, <4>2, InHand DEF Inserts, Working
        <5>2. NextRow(db, tx[c].work, t.show) /\ Wrote(t, Show(t.show))
          BY <4>2, <5>1 DEF WritesOK, Inserts
        <5> QED BY <1>1, <3>1, <4>1, <4>2, <5>2, OneNext DEF Inserts
      <4> QED BY <1>1, <4>2 DEF Identified
    <3>2. CASE db[Show(u)] # NoShow
      BY <1>1, <3>2 DEF Identified
    <3> QED BY <3>1, <3>2
  <2>3. ShowsStay(db')
    BY <1>1 DEF ShowsStay
  <2> QED BY <1>1, <1>2, <1>3, <2>1, <2>2, <2>3, PageKept
<1>4. CASE d = Script
  <2>1. DOMAIN t.mine = {} /\ \A r : View(t, db, r) = db[r] /\ View(t, db', r) = db'[r]
    <3>1. DOMAIN t.mine = {}
      BY <1>4, NothingWritten DEF CatalogInv, CallsOK, CallOK
    <3> QED BY <3>1 DEF View, Wrote
  <2>2. ASSUME ImportOK(t, db, flawed) PROVE ImportOK(t, db', flawed')
    <3>1. ImportTyped(t) /\ ShowOK(t, db) /\ Progress(t, db, flawed) /\ (Working(t) => t.show \in Shows)
      BY <2>2 DEF ImportOK, ImportTyped
    <3>2. ShowOK(t, db')
      <4> SUFFICES ASSUME Working(t) PROVE db'[Show(t.show)].identity = Tmdb(t.work)
        BY <2>1 DEF ShowOK
      <4>1. db[Show(t.show)].identity = Tmdb(t.work)
        BY <2>1, <3>1 DEF ShowOK
      <4>2. db[Show(t.show)] # NoShow
        BY <4>1, Identities
      <4> QED BY <1>1, <3>1, <4>1, <4>2
    <3>3. Progress(t, db', flawed')
      <4> SUFFICES ASSUME Working(t), ~t.raced, NEW n \in AllSeasons
                   PROVE  /\ View(t, db', Season(t.show, n)) = View(t, db, Season(t.show, n))
                          /\ t.show \notin flawed' => t.show \notin flawed
        BY <3>1 DEF Progress
      <4> QED BY <1>1, <1>2, <2>1, <3>1
    <3> QED BY <3>1, <3>2, <3>3 DEF ImportOK
  <2>3. ASSUME ClaimOK(t, db) PROVE ClaimOK(t, db')
    BY <1>1, <2>3 DEF ClaimOK, ClaimTyped
  <2> QED BY <1>4, <2>1, <2>2, <2>3 DEF CatalogInv, CallsOK, CallOK
<1> QED BY <1>3, <1>4

LEMMA StampGoes ==
  ASSUME CatalogInv, NEW c \in Clients, Stamp(c)
  PROVE  CatalogInv' /\ NothingLost
<1> DEFINE t == tx[c]
           u == tx[c].show
           v == Stamped(c, Sum(tx[c].detail))
           spoilt == Short(c) \/ t.raced
<1>1. /\ t.pc = "season" /\ t.todo = {}
      /\ Finish(c, [r \in {Show(u)} |-> v])
      /\ flawed' = IF spoilt THEN flawed \cup {u} ELSE flawed \ {u}
      /\ UNCHANGED <<source, script, history>>
  BY DEF Stamp, StampWith, At, Rest
<1>2. Working(t)
  BY <1>1 DEF Working, Importer
<1>3. Commits(c, v) /\ v.episodes = Sum(t.detail)
  BY <1>1, <1>2, StampCommits
<1> HIDE DEF v
<1>4. /\ u \in Shows /\ t.work \in Works
      /\ ShowRow(v) /\ v # NoShow /\ db'[Show(u)] = v
      /\ \A s \in Shows : s # u =>
           /\ db'[Show(s)] = db[Show(s)]
           /\ \A n \in AllSeasons : db'[Season(s, n)] = db[Season(s, n)]
      /\ \A n \in AllSeasons : db'[Season(u, n)] = View(t, db, Season(u, n))
      /\ \A n \in AllSeasons : n \notin DOMAIN t.detail => db'[Season(u, n)] = db[Season(u, n)]
      /\ IF db[Show(u)] = NoShow THEN TakesIdentity(db', u, t.work) /\ v.slug = t.slug
         ELSE v.identity = db[Show(u)].identity /\ v.slug = db[Show(u)].slug
      /\ v.identity = Tmdb(t.work)
  BY <1>2, <1>3, CommitRows DEF Commits
<1>5. /\ Others(c) /\ tx'[c] = Idle /\ DOMAIN db' = Rows
  BY <1>3 DEF Commits
<1>6. RivalsOK' /\ Locked'
  BY <1>1, <1>5, RivalsKept DEF Goes
<1>7. CallsOK'
  <2>1. flawed \cap Shows \subseteq flawed' \cup {u}
    BY <1>1
  <2>2. \A d \in Clients : d # c => CallOK(d, tx'[d], db', flawed')
    BY <1>2, <1>3, <1>5, <2>1, CommitKeeps DEF Others
  <2>3. \A d \in Clients : CallOK(d, tx'[d], db', flawed')
    BY <1>5, <2>2 DEF CallOK
  <2>4. ~history.disturbed => \A d \in Clients : tx'[d].pc = "idle"
    BY <1>1, <1>5, NothingWritten DEF CatalogInv, RivalsOK, Open, Others
  <2>5. tx' = [d \in Clients |-> tx'[d]]
    BY <1>5 DEF Others
  <2> QED BY <1>1, <2>3, <2>4, <2>5 DEF CallsOK, FoundOK, Importer
<1>8. ASSUME NEW n \in AllSeasons
      PROVE  /\ SeasonRow(db'[Season(u, n)])
             /\ db'[Season(u, n)].stored >= db[Season(u, n)].stored
  <2>1. CASE n \in DOMAIN t.detail
    BY <1>2, <1>4, <2>1, SeasonKeeps
  <2>2. CASE n \notin DOMAIN t.detail
    BY <1>4, <2>2 DEF CatalogInv, BaseOK, SeasonRow
  <2> QED BY <2>1, <2>2
<1>9. BaseOK(db')
  <2> DEFINE base == [r \in Rows |-> IF r = Show(u) THEN v ELSE db[r]]
  <2>1. /\ DOMAIN base = Rows /\ base[Show(u)] = v
        /\ \A r \in Rows : r # Show(u) => base[r] = db[r]
    BY <1>4, RowTypes
  <2> HIDE DEF base
  <2>2. ShowChanges(base, u)
    BY <1>4, <2>1 DEF ShowChanges
  <2>3. base[Show(u)].identity = db[Show(u)].identity \/ TakesIdentity(base, u, t.work)
    BY <1>4, <2>1 DEF TakesIdentity
  <2>4. BaseOK(base)
    BY <1>4, <2>2, <2>3, BaseShow DEF CatalogInv
  <2>5. \A s \in Shows : db'[Show(s)] = base[Show(s)]
    BY <1>4, <2>1, RowTypes, RowIds
  <2>6. ASSUME NEW s \in Shows, NEW n \in AllSeasons
        PROVE  /\ SeasonRow(db'[Season(s, n)])
               /\ base[Show(s)] = NoShow => db'[Season(s, n)].count = db'[Season(s, n)].stored
    <3>1. base[Season(s, n)] = db[Season(s, n)]
      BY <2>1, RowTypes, RowIds
    <3>2. CASE s # u
      BY <1>4, <2>4, <3>1, <3>2 DEF BaseOK
    <3>3. CASE s = u
      BY <1>4, <1>8, <2>1, <3>3
    <3> QED BY <3>2, <3>3
  <2> QED BY <1>5, <2>4, <2>5, <2>6, BaseSeasons
<1>10. TotalsOK'
  <2> SUFFICES ASSUME NEW s \in Shows, db'[Show(s)] # NoShow, s \notin flawed',
                      ~(Working(tx'[Script]) /\ tx'[Script].show = s)
               PROVE  Matched(db', s)
    BY DEF TotalsOK
  <2>1. CASE s = u
    <3>1. ~spoilt
      BY <1>1, <2>1
    <3> QED BY <1>1, <1>3, <2>1, <3>1, WholeMatches
  <2>2. CASE s # u
    <3>1. ~(Working(tx[Script]) /\ tx[Script].show = s)
      BY <1>5, <2>2, CatalogAssumption DEF Others
    <3>2. Matched(db, s)
      BY <1>1, <1>4, <2>2, <3>1 DEF CatalogInv, TotalsOK
    <3> QED BY <1>4, <2>2, <3>2, MatchedKept
  <2> QED BY <2>1, <2>2
<1>11. NothingLost
  <2> SUFFICES ASSUME NEW s \in Shows, db[Show(s)] # NoShow
               PROVE  /\ db'[Show(s)] # NoShow /\ db'[Show(s)].slug = db[Show(s)].slug
                      /\ \A n \in AllSeasons : db'[Season(s, n)].stored >= db[Season(s, n)].stored
    BY DEF NothingLost
  <2>1. CASE s = u
    BY <1>4, <1>8, <2>1
  <2>2. CASE s # u
    BY <1>4, <2>2 DEF CatalogInv, BaseOK, SeasonRow
  <2> QED BY <2>1, <2>2
<1>12. Sourced' /\ AloneNeverFails'
  BY <1>1 DEF CatalogInv, Sourced, AloneNeverFails
<1>13. SlugsOK'
  <2> SUFFICES ASSUME ~history.disturbed, NEW s \in Shows, db'[Show(s)] # NoShow
               PROVE  SlugOK(db'[Show(s)].identity, db'[Show(s)].slug)
    BY <1>1 DEF SlugsOK, SlugsHold
  <2>1. CASE s # u \/ db[Show(u)] # NoShow
    <3>1. db[Show(s)] # NoShow /\ db'[Show(s)].identity = db[Show(s)].identity
          /\ db'[Show(s)].slug = db[Show(s)].slug
      BY <1>4, <2>1
    <3> QED BY <3>1 DEF CatalogInv, SlugsOK, SlugsHold
  <2>2. CASE s = u /\ db[Show(u)] = NoShow
    <3>1. SlugOK(Tmdb(t.work), t.slug)
      BY <1>1, <1>2 DEF CatalogInv, CallsOK, FoundOK, Working
    <3> QED BY <1>4, <2>2, <3>1
  <2> QED BY <2>1, <2>2
<1> QED BY <1>6, <1>7, <1>9, <1>10, <1>11, <1>12, <1>13 DEF CatalogInv

----------------------------------------------------------------------------
(* Imports begin and claims are made.                                      *)

\* A call that learns of another of its work is the same but for that.
LEMMA RacedKept ==
  ASSUME NEW c, NEW t, NEW base, NEW bad, CallOK(c, t, base, bad), Open(t),
         NEW s, s = [t EXCEPT !.raced = TRUE]
  PROVE  /\ CallOK(c, s, base, bad)
         /\ s.pc = t.pc /\ s.work = t.work /\ s.show = t.show /\ s.mine = t.mine /\ s.raced
<1>1. t # Idle /\ "raced" \in DOMAIN t
  BY NothingWritten DEF Open, CallOK, ImportOK, ImportTyped, ClaimOK, ClaimTyped
<1>2. /\ DOMAIN s = DOMAIN t /\ s.raced
      /\ \A f \in DOMAIN t : f # "raced" => s[f] = t[f]
  BY <1>1
<1>3. CASE ImportOK(t, base, bad) /\ IF c = Script THEN DOMAIN t.mine = {} ELSE WritesOK(t, base)
  <2>1. /\ s.pc = t.pc /\ s.work = t.work /\ s.show = t.show /\ s.mine = t.mine
        /\ s.detail = t.detail /\ s.todo = t.todo /\ s.slug = t.slug
    BY <1>2, <1>3 DEF ImportOK, ImportTyped
  <2>2. /\ (Working(s) <=> Working(t)) /\ \A r : Wrote(s, r) = Wrote(t, r)
        /\ View(s, base, Show(t.show)) = View(t, base, Show(t.show))
    BY <2>1 DEF Working, Importer, Wrote, View
  <2>3. ImportTyped(s)
    BY <1>2, <1>3, <2>1, <2>2 DEF ImportOK, ImportTyped
  <2>4. ShowOK(s, base) /\ Progress(s, base, bad)
    BY <1>2, <1>3, <2>1, <2>2 DEF ImportOK, ShowOK, Progress
  <2>5. IF c = Script THEN DOMAIN s.mine = {} ELSE WritesOK(s, base)
    BY <1>3, <2>1, <2>2 DEF WritesOK
  <2> QED BY <1>2, <2>1, <2>3, <2>4, <2>5 DEF CallOK, ImportOK
<1>4. CASE c = Script /\ DOMAIN t.mine = {} /\ ClaimOK(t, base)
  <2>1. s.pc = t.pc /\ s.work = t.work /\ s.show = t.show /\ s.mine = t.mine
    BY <1>2, <1>4 DEF ClaimOK, ClaimTyped
  <2> QED BY <1>2, <1>4, <2>1 DEF CallOK, ClaimOK, ClaimTyped
<1> QED BY <1>1, <1>3, <1>4 DEF CallOK

LEMMA BeginGoes ==
  ASSUME CatalogInv, NEW c \in Clients, NEW w, NEW detail, NEW n, DetailOK(w, detail),
         Begin(c, w, detail, n), Sourced'
  PROVE  CatalogInv'
<1> DEFINE new == Import(w, detail)
           told(d) == d \in Importing /\ tx[d].work = w
<1>1. /\ tx[c].pc = "idle" /\ db' = db /\ flawed' = flawed
      /\ tx' = [d \in Clients |-> IF d = c THEN new
                                  ELSE IF told(d) THEN [tx[d] EXCEPT !.raced = TRUE] ELSE tx[d]]
  BY DEF Begin, At
<1>2. /\ history'.disturbed = (history.disturbed \/ Importing # {})
      /\ history'.failed = history.failed
  BY DEF Begin, CatalogInv, Sourced
<1>3. /\ DOMAIN new = {"pc", "work", "detail", "todo", "raced", "show", "slug", "mine"}
      /\ new.pc = "slug" /\ new.work = w /\ new.detail = detail /\ new.todo = DOMAIN detail
      /\ new.show = Nothing /\ DOMAIN new.mine = {}
      /\ new.raced = \E d \in Importing : tx[d].work = w
  BY DEF Import
<1> HIDE DEF new
<1>4. CallOK(c, new, db, flawed) /\ FoundOK(new, db)
  <2>1. ImportTyped(new) /\ ~Working(new)
    BY <1>3 DEF ImportTyped, Working
  <2>2. ImportOK(new, db, flawed) /\ WritesOK(new, db)
    BY <1>3, <2>1 DEF ImportOK, ShowOK, Progress, WritesOK
  <2> QED BY <1>3, <2>2 DEF CallOK, FoundOK
<1>5. \A d : d \in Importing <=> d \in Clients /\ Open(tx[d])
  BY DEF Importing, Open
<1>6. ASSUME NEW d \in Clients, d # c
      PROVE  /\ CallOK(d, tx'[d], db, flawed)
             /\ tx'[d].pc = tx[d].pc /\ tx'[d].mine = tx[d].mine
             /\ Open(tx[d]) => tx'[d].work = tx[d].work
             /\ Working(tx[d]) => tx'[d].show = tx[d].show
             /\ tx[d].raced /\ Open(tx[d]) => tx'[d].raced
             /\ Open(tx[d]) /\ tx[d].work = w => tx'[d].raced
             /\ ~Open(tx[d]) => tx'[d] = tx[d]
  <2>1. CallOK(d, tx[d], db, flawed)
    BY DEF CatalogInv, CallsOK
  <2>2. CASE told(d)
    <3>1. Open(tx[d]) /\ tx'[d] = [tx[d] EXCEPT !.raced = TRUE]
      BY <1>1, <1>5, <1>6, <2>2
    <3> QED BY <2>1, <3>1, RacedKept
  <2>3. CASE ~told(d)
    BY <1>1, <1>5, <1>6, <2>1, <2>3
  <2> QED BY <2>2, <2>3
<1>7. tx'[c] = new /\ tx' = [d \in Clients |-> tx'[d]]
  BY <1>1
<1>8. RivalsOK'
  <2>1. ASSUME NEW a \in Clients, NEW b \in Clients, a # b, Open(tx'[a]), Open(tx'[b])
        PROVE  history'.disturbed
    <3>1. CASE a # c /\ b # c
      BY <1>2, <1>6, <2>1, <3>1 DEF CatalogInv, RivalsOK, Open
    <3>2. CASE a = c \/ b = c
      BY <1>2, <1>5, <1>6, <2>1, <3>2 DEF Open
    <3> QED BY <3>1, <3>2
  <2>2. ASSUME NEW a \in Clients, NEW b \in Clients, a # b, Importer(tx'[a]), Importer(tx'[b]),
               tx'[a].work = tx'[b].work
        PROVE  tx'[a].raced
    <3>1. CASE a # c /\ b # c
      <4>1. Importer(tx[a]) /\ Importer(tx[b]) /\ tx[a].work = tx[b].work /\ Open(tx[a])
        BY <1>6, <2>2, <3>1 DEF Importer, Open
      <4> QED BY <1>6, <2>2, <3>1, <4>1 DEF CatalogInv, RivalsOK
    <3>2. CASE a = c
      <4>1. Open(tx[b]) /\ tx[b].work = w
        BY <1>3, <1>6, <1>7, <2>2, <3>2 DEF Importer, Open
      <4> QED BY <1>3, <1>5, <1>7, <3>2, <4>1
    <3>3. CASE b = c
      <4>1. Open(tx[a]) /\ tx[a].work = w
        BY <1>3, <1>6, <1>7, <2>2, <3>3 DEF Importer, Open
      <4> QED BY <1>6, <2>2, <3>3, <4>1
    <3> QED BY <3>1, <3>2, <3>3
  <2> QED BY <2>1, <2>2 DEF RivalsOK
<1>9. CallsOK'
  <2>1. \A d \in Clients : CallOK(d, tx'[d], db, flawed)
    BY <1>4, <1>6, <1>7
  <2>2. ~history'.disturbed => \A d \in Clients : FoundOK(tx'[d], db)
    <3> SUFFICES ASSUME ~history'.disturbed, NEW d \in Clients PROVE FoundOK(tx'[d], db)
      OBVIOUS
    <3>1. CASE d = c
      BY <1>4, <1>7, <3>1
    <3>2. CASE d # c
      <4>1. tx'[d].pc = "idle"
        BY <1>2, <1>5, <1>6, <3>2 DEF Open
      <4> QED BY <4>1 DEF FoundOK, Importer
    <3> QED BY <3>1, <3>2
  <2> QED BY <1>1, <1>7, <2>1, <2>2 DEF CallsOK
<1>10. Locked'
  <2>1. \A d \in Clients : DOMAIN tx'[d].mine \subseteq DOMAIN tx[d].mine
    BY <1>3, <1>6, <1>7
  <2> QED BY <2>1 DEF CatalogInv, Locked
<1>11. TotalsOK'
  <2> SUFFICES ASSUME NEW s \in Shows, db[Show(s)] # NoShow, s \notin flawed,
                      ~(Working(tx'[Script]) /\ tx'[Script].show = s)
               PROVE  Matched(db, s)
    BY <1>1 DEF TotalsOK
  <2>1. ~(Working(tx[Script]) /\ tx[Script].show = s)
    BY <1>1, <1>6, CatalogAssumption DEF Working, Importer
  <2> QED BY <2>1 DEF CatalogInv, TotalsOK
<1>12. BaseOK(db') /\ AloneNeverFails' /\ SlugsOK'
  BY <1>1, <1>2 DEF CatalogInv, AloneNeverFails, SlugsOK
<1> QED BY <1>8, <1>9, <1>10, <1>11, <1>12 DEF CatalogInv

LEMMA BackfillMatchGoes ==
  ASSUME CatalogInv, BackfillMatch
  PROVE  CatalogInv'
<1>1. PICK u \in Held(db), m \in Works \ Posterless :
        /\ tx[Script].pc = "idle"
        /\ tx' = [tx EXCEPT ![Script] =
             [pc |-> "claim", work |-> m, show |-> u, raced |-> FALSE, mine |-> <<>>,
              slug |-> IF Holders(db, <<"tmdb", m>>) \ {u} = {} THEN "free" ELSE "taken"]]
        /\ history' = [history EXCEPT !.imports = @ + 1,
                                      !.disturbed = \/ @ \/ Importing # {}
                                                    \/ db[Show(u)].identity[1] = "tmdb"]
        /\ UNCHANGED <<db, flawed, source, script>>
  BY DEF BackfillMatch, At, Rest
<1>8. /\ history'.disturbed = (\/ history.disturbed \/ Importing # {}
                               \/ db[Show(u)].identity[1] = "tmdb")
      /\ history'.failed = history.failed /\ Sourced'
  BY <1>1 DEF CatalogInv, Sourced
<1> DEFINE slug == IF Holders(db, <<"tmdb", m>>) \ {u} = {} THEN "free" ELSE "taken"
           new == [pc |-> "claim", work |-> m, show |-> u, raced |-> FALSE, mine |-> <<>>, slug |-> slug]
<1>2. u \in Shows /\ db[Show(u)] # NoShow /\ tx = [d \in Clients |-> tx[d]] /\ Script \in Clients
  BY CatalogAssumption, InHand DEF Held
<1>3. /\ DOMAIN new = {"pc", "work", "show", "raced", "mine", "slug"} /\ new.pc = "claim"
      /\ new.work = m /\ new.show = u /\ DOMAIN new.mine = {} /\ new.slug = slug
  OBVIOUS
<1>4. tx' = [tx EXCEPT ![Script] = new]
  BY <1>1
<1>5. /\ ~history'.disturbed => db[Show(u)].identity[1] # "tmdb"
      /\ slug = "free" => \A s \in Shows \ {u} : db[Show(s)] # NoShow => db[Show(s)].identity # Tmdb(m)
  BY <1>8 DEF Holders, Held, Tmdb
<1> HIDE DEF new, slug
<1>6. tx'[Script] = new /\ Others(Script)
  BY <1>2, <1>4 DEF Others
<1>7. CallOK(Script, new, db, flawed) /\ ~Importer(new) /\ ~Working(new)
  BY <1>1, <1>2, <1>3 DEF CallOK, ClaimOK, ClaimTyped, Importer, Working
<1>15. ~history'.disturbed => FoundOK(new, db)
  BY <1>3, <1>5, <1>7 DEF FoundOK
<1>9. \A d : d \in Importing <=> d \in Clients /\ Open(tx[d])
  BY DEF Importing, Open
<1>10. RivalsOK'
  BY <1>6, <1>7, <1>8, <1>9 DEF CatalogInv, RivalsOK, Others
<1>11. CallsOK'
  <2>1. \A d \in Clients : CallOK(d, tx'[d], db, flawed)
    BY <1>6, <1>7 DEF CatalogInv, CallsOK, Others
  <2>2. ~history'.disturbed => \A d \in Clients : FoundOK(tx'[d], db)
    BY <1>6, <1>8, <1>15 DEF CatalogInv, CallsOK, Others
  <2> QED BY <1>1, <1>6, <2>1, <2>2 DEF CallsOK, Others
<1>12. Locked'
  <2>1. \A d \in Clients : DOMAIN tx'[d].mine \subseteq DOMAIN tx[d].mine
    BY <1>3, <1>6 DEF Others
  <2> QED BY <2>1 DEF CatalogInv, Locked
<1>13. TotalsOK'
  <2>1. ~Working(tx[Script])
    BY <1>1 DEF Working, Importer
  <2> QED BY <1>1, <2>1 DEF CatalogInv, TotalsOK
<1>14. BaseOK(db') /\ AloneNeverFails' /\ SlugsOK'
  BY <1>1, <1>8 DEF CatalogInv, AloneNeverFails, SlugsOK
<1> QED BY <1>8, <1>10, <1>11, <1>12, <1>13, <1>14 DEF CatalogInv

\* The identity a show takes was nobody's, and is on no page's way.
LEMMA ClaimTaken ==
  ASSUME CatalogInv, tx[Script].pc = "claim", NEW u, u = tx[Script].show,
         NEW w, w = tx[Script].work,
         db' = With(db, Show(u), [db[Show(u)] EXCEPT !.identity = Tmdb(w)]),
         tx' = [tx EXCEPT ![Script] = Idle], Free(Script, Show(u)),
         ~Awaits(Script, "identity", Tmdb(w)),
         \A s \in Shows \ {u} : db[Show(s)] # NoShow => db[Show(s)].identity # Tmdb(w),
         UNCHANGED <<source, script, flawed, history>>
  PROVE  CatalogInv' /\ NothingLost
<1> DEFINE v == [db[Show(u)] EXCEPT !.identity = Tmdb(w)]
<1>1. /\ Script \in Clients /\ tx = [d \in Clients |-> tx[d]] /\ DOMAIN db = Rows
      /\ ClaimOK(tx[Script], db) /\ u \in Shows /\ w \in Works /\ Show(u) \in Rows
  BY CatalogAssumption, InHand, RowTypes DEF ClaimOK, ClaimTyped
<1>2. ShowRow(db[Show(u)]) /\ db[Show(u)] # NoShow
  BY <1>1 DEF ClaimOK, CatalogInv, BaseOK
<1>3. /\ DOMAIN v = DOMAIN db[Show(u)] /\ v.identity = Tmdb(w)
      /\ v.slug = db[Show(u)].slug /\ v.episodes = db[Show(u)].episodes
  BY <1>2 DEF ShowRow
<1>4. DOMAIN db' = Rows /\ db'[Show(u)] = v /\ \A r \in Rows : r # Show(u) => db'[r] = db[r]
  <2> HIDE DEF v
  <2>1. db' = With(db, Show(u), v)
    BY DEF v
  <2> QED BY <1>1, <2>1 DEF With
<1> HIDE DEF v
<1>5. ShowRow(v) /\ v # NoShow
  <2>1. v.identity # NoShow.identity /\ Tmdb(w) \in SourceIds
    BY <1>1, <1>3, Identities
  <2> QED BY <1>2, <1>3, <2>1 DEF ShowRow
<1>6. TakesIdentity(db', u, w)
  <2>1. \A s \in Shows \ {u} : db[Show(s)].identity # Tmdb(w)
    BY Identities
  <2> QED BY <1>3, <1>4, <2>1 DEF TakesIdentity
<1>7. BaseOK(db')
  BY <1>1, <1>4, <1>5, <1>6, BaseShow DEF ShowChanges, CatalogInv
<1>8. /\ \A s \in Shows : s # u => db'[Show(s)] = db[Show(s)]
      /\ \A s \in Shows, n \in AllSeasons : db'[Season(s, n)] = db[Season(s, n)]
  BY <1>4, RowTypes, RowIds
<1>9. tx'[Script] = Idle /\ Others(Script)
  BY <1>1 DEF Others
<1>10. RivalsOK' /\ Locked'
  BY <1>1, <1>9, RivalsKept DEF Goes
<1>11. CallsOK'
  <2>1. ASSUME NEW d \in Clients, d # Script PROVE CallOK(d, tx[d], db', flawed)
    <3>1. Touches(db', u)
      BY <1>4 DEF Touches
    <3>2. Identified(db', u, tx[d])
      <4>1. ASSUME Inserts(tx[d], w) PROVE FALSE
        <5>1. WritesOK(tx[d], db) /\ ShowOK(tx[d], db) /\ tx[d].show \in Shows
          BY <2>1, <4>1, InHand DEF Inserts, Working, ImportOK, ImportTyped
        <5>2. /\ Show(tx[d].show) \in DOMAIN tx[d].mine
              /\ tx[d].mine[Show(tx[d].show)].identity = Tmdb(w)
          BY <4>1, <5>1 DEF WritesOK, ShowOK, View, Wrote, Inserts
        <5> QED BY <2>1, <4>1, <5>1, <5>2 DEF Awaits, Inserts
      <4> QED BY <1>1, <1>3, <1>4, <4>1 DEF Identified
    <3>3. \A r \in DOMAIN tx[d].mine : db'[r] = db[r]
      BY <1>4, <2>1, InHand DEF Free
    <3>4. Working(tx[d]) => tx[d].show # u
      BY <2>1, InHand DEF Working, WritesOK, Wrote, Free
    <3>5. ShowsStay(db')
      BY <1>4, <1>5, RowTypes DEF ShowsStay
    <3> QED BY <1>1, <2>1, <3>1, <3>2, <3>3, <3>4, <3>5, PageKept
  <2>2. \A d \in Clients : CallOK(d, tx'[d], db', flawed)
    BY <1>9, <2>1 DEF CallOK, Others
  <2>3. ~history.disturbed => \A d \in Clients : tx'[d].pc = "idle"
    BY <1>1, <1>9, NothingWritten DEF CatalogInv, RivalsOK, Open, Others
  <2> QED BY <1>9, <2>2, <2>3 DEF CallsOK, FoundOK, Others, Importer
<1>12. TotalsOK'
  <2> SUFFICES ASSUME NEW s \in Shows, db'[Show(s)] # NoShow, s \notin flawed
               PROVE  Matched(db', s)
    BY DEF TotalsOK
  <2>1. db[Show(s)] # NoShow /\ db'[Show(s)].episodes = db[Show(s)].episodes
    BY <1>2, <1>3, <1>4, <1>8
  <2>2. Matched(db, s)
    BY <2>1 DEF CatalogInv, TotalsOK, Working, Importer
  <2> QED BY <1>8, <2>1, <2>2, MatchedKept
<1>13. NothingLost
  <2>1. \A s \in Shows : db[Show(s)] # NoShow =>
          db'[Show(s)] # NoShow /\ db'[Show(s)].slug = db[Show(s)].slug
    <3> SUFFICES ASSUME NEW s \in Shows, db[Show(s)] # NoShow
                 PROVE  db'[Show(s)] # NoShow /\ db'[Show(s)].slug = db[Show(s)].slug
      OBVIOUS
    <3>1. CASE s = u
      BY <1>3, <1>4, <1>5, <3>1
    <3> QED BY <1>8, <3>1
  <2>2. \A s \in Shows, n \in AllSeasons :
          db[Season(s, n)].stored \in Nat /\ db'[Season(s, n)] = db[Season(s, n)]
    BY <1>8 DEF CatalogInv, BaseOK, SeasonRow
  <2>3. \A s \in Shows, n \in AllSeasons : db'[Season(s, n)].stored >= db[Season(s, n)].stored
    BY <2>2
  <2> QED BY <2>1, <2>3 DEF NothingLost
<1>14. Sourced' /\ AloneNeverFails'
  BY DEF CatalogInv, Sourced, AloneNeverFails
<1>15. SlugsOK'
  <2> SUFFICES ASSUME ~history.disturbed, NEW s \in Shows, db'[Show(s)] # NoShow
               PROVE  SlugOK(db'[Show(s)].identity, db'[Show(s)].slug)
    BY DEF SlugsOK, SlugsHold
  <2>1. SlugsHold(db)
    BY DEF CatalogInv, SlugsOK
  <2>2. CASE s # u
    BY <1>8, <2>1, <2>2 DEF SlugsHold
  <2>3. CASE s = u
    <3>1. db[Show(u)].identity[1] # "tmdb" /\ SlugOK(db[Show(u)].identity, db[Show(u)].slug)
      BY <1>1, <1>2, <2>1 DEF CatalogInv, CallsOK, FoundOK, SlugsHold
    <3> QED BY <1>3, <1>4, <2>3, <3>1 DEF SlugOK
  <2> QED BY <2>2, <2>3
<1> QED BY <1>7, <1>10, <1>11, <1>12, <1>13, <1>14, <1>15 DEF CatalogInv

LEMMA ClaimGoes ==
  ASSUME CatalogInv, Claim
  PROVE  CatalogInv' /\ NothingLost
<1> DEFINE t == tx[Script]
           u == tx[Script].show
           w == tx[Script].work
<1>1. /\ t.pc = "claim" /\ Free(Script, Show(u)) /\ UNCHANGED <<source, script>>
      /\ \/ t.slug = "free" /\ Holders(db, Tmdb(w)) \ {u} # {} /\ Throw(Script)
         \/ /\ t.slug = "free" /\ Holders(db, Tmdb(w)) \ {u} = {}
            /\ ~Awaits(Script, "identity", Tmdb(w))
            /\ db' = With(db, Show(u), [db[Show(u)] EXCEPT !.identity = Tmdb(w)])
            /\ tx' = [tx EXCEPT ![Script] = Idle] /\ UNCHANGED <<flawed, history>>
         \/ db' = db /\ tx' = [tx EXCEPT ![Script] = Idle] /\ UNCHANGED <<flawed, history>>
  BY DEF Claim, At, Rest, Tmdb
<1>2. \A s : s \in Holders(db, Tmdb(w)) <=>
             s \in Shows /\ db[Show(s)] # NoShow /\ db[Show(s)].identity = Tmdb(w)
  BY DEF Holders, Held
<1>3. CASE t.slug = "free" /\ Holders(db, Tmdb(w)) \ {u} # {} /\ Throw(Script)
  <2>1. history.disturbed
    BY <1>1, <1>2, <1>3, CatalogAssumption DEF CatalogInv, CallsOK, FoundOK
  <2> QED BY <1>1, <1>3, <2>1, ThrowGoes, SameLosesNothing, CatalogAssumption
<1>4. CASE /\ t.slug = "free" /\ Holders(db, Tmdb(w)) \ {u} = {}
           /\ ~Awaits(Script, "identity", Tmdb(w))
           /\ db' = With(db, Show(u), [db[Show(u)] EXCEPT !.identity = Tmdb(w)])
           /\ tx' = [tx EXCEPT ![Script] = Idle] /\ UNCHANGED <<flawed, history>>
  BY <1>1, <1>2, <1>4, ClaimTaken
<1>5. CASE db' = db /\ tx' = [tx EXCEPT ![Script] = Idle] /\ UNCHANGED <<flawed, history>>
  <2>1. Script \in Clients /\ tx = [d \in Clients |-> tx[d]]
    BY CatalogAssumption, InHand
  <2>2. tx'[Script] = Idle /\ Others(Script)
    BY <1>5, <2>1 DEF Others
  <2>5. CallOK(Script, tx'[Script], db, flawed') /\ FoundOK(tx'[Script], db)
    BY <2>2, NothingWritten DEF CallOK, FoundOK, Importer
  <2>6. ~Working(tx[Script])
    BY <1>1 DEF Working, Importer
  <2>3. Onward(Script)
    BY <1>5, <2>2, <2>5, <2>6 DEF Onward, Goes, Leaves
  <2>4. Sourced' /\ AloneNeverFails'
    BY <1>1, <1>5 DEF CatalogInv, Sourced, AloneNeverFails
  <2> QED BY <1>5, <2>1, <2>3, <2>4, OnwardKeeps, SameLosesNothing
<1> QED BY <1>1, <1>3, <1>4, <1>5

----------------------------------------------------------------------------
(* The environment, and the whole.                                         *)

\* What a request returns, if anything.
LEMMA DetailsFetched ==
  ASSUME Sourced, NEW w \in Works, NEW detail \in Details(w, source[w], Answers(w))
  PROVE  DetailOK(w, detail)
<1>1. PICK S \in Answers(w) : detail = [n \in S \ {0} |-> source[w][n]]
  BY DEF Details
<1>2. S \subseteq SeasonsOf(w)
  BY <1>1 DEF Answers
<1>3. \A n \in S : n \in DOMAIN Tree[w] /\ n # 0
  BY <1>2 DEF SeasonsOf
<1>4. \A n \in S : source[w][n] \in Nat
  BY <1>3 DEF Sourced
<1> QED BY <1>1, <1>2, <1>3, <1>4 DEF DetailOK

LEMMA QuietKeeps ==
  ASSUME CatalogInv, UNCHANGED <<db, tx, flawed>>, Sourced',
         history'.disturbed = history.disturbed, history'.failed = history.failed
  PROVE  CatalogInv' /\ NothingLost
<1>1. BaseOK(db') /\ CallsOK' /\ RivalsOK' /\ Locked'
  BY DEF CatalogInv, BaseOK, CallsOK, RivalsOK, Locked
<1>2. TotalsOK' /\ AloneNeverFails' /\ SlugsOK'
  BY DEF CatalogInv, TotalsOK, AloneNeverFails, SlugsOK
<1> QED BY <1>1, <1>2, SameLosesNothing DEF CatalogInv

LEMMA ScriptGoes ==
  ASSUME CatalogInv, ScriptLists \/ ScriptFetches \/ ScriptImports \/ ScriptLost \/ Revise
  PROVE  CatalogInv' /\ NothingLost
<1>1. CASE ScriptLists
  <2>0. /\ UNCHANGED <<db, tx, flawed, source>>
        /\ \E left : script' = [left |-> left, window |-> {}]
        /\ history' = [history EXCEPT !.imports = @ + Len(script'.left)]
    BY <1>1 DEF ScriptLists
  <2>1. /\ script'.window = {} /\ history' = [history EXCEPT !.imports = history'.imports]
    <3>1. PICK left : script' = [left |-> left, window |-> {}]
      BY <2>0
    <3>2. script'.window = {}
      BY <3>1
    <3>3. "imports" \in DOMAIN history
      BY DEF CatalogInv, Sourced
    <3> QED BY <2>0, <3>2, <3>3
  <2>2. Sourced' /\ history'.disturbed = history.disturbed /\ history'.failed = history.failed
    BY <2>0, <2>1 DEF CatalogInv, Sourced
  <2> QED BY <2>0, <2>2, QuietKeeps
<1>2. CASE ScriptFetches
  <2>1. PICK fetched \in SUBSET UNION {{w} \X Details(w, source[w], Answers(w)) : w \in Listed} :
          script' = [left   |-> SubSeq(script.left, Concurrency + 1, Len(script.left)),
                     window |-> fetched]
    BY <1>2 DEF ScriptFetches
  <2>2. ASSUME NEW f \in script'.window PROVE DetailOK(f[1], f[2])
    <3>1. PICK w \in Listed : f \in {w} \X Details(w, source[w], Answers(w))
      BY <2>1, <2>2
    <3>2. f[1] = w /\ f[2] \in Details(w, source[w], Answers(w)) /\ w \in Works
      BY <3>1 DEF Listed
    <3> QED BY <3>2, DetailsFetched DEF CatalogInv
  <2>3. UNCHANGED <<db, tx, flawed, source, history>>
    BY <1>2 DEF ScriptFetches
  <2>4. Sourced'
    BY <2>2, <2>3 DEF CatalogInv, Sourced
  <2> QED BY <2>3, <2>4, QuietKeeps
<1>3. CASE ScriptImports
  <2>1. PICK f \in script.window : /\ Begin(Script, f[1], f[2], 0)
                                   /\ script' = [script EXCEPT !.window = @ \ {f}]
    BY <1>3 DEF ScriptImports
  <2>2. DetailOK(f[1], f[2]) /\ Script \in Clients
    BY <2>1, CatalogAssumption DEF CatalogInv, Sourced
  <2>3. db' = db /\ Sourced'
    <3>1. script'.window \subseteq script.window
      BY <2>1
    <3>2. UNCHANGED <<db, source>> /\ DOMAIN history' = DOMAIN history
      BY <2>1 DEF Begin
    <3> QED BY <3>1, <3>2 DEF CatalogInv, Sourced
  <2> QED BY <2>1, <2>2, <2>3, BeginGoes, SameLosesNothing
<1>4. CASE ScriptLost
  <2> DEFINE t == tx[Script]
  <2>1. /\ Abort(Script) /\ script'.window = {} /\ UNCHANGED <<source, history>>
        /\ flawed' = IF t.pc = "idle" THEN flawed ELSE (flawed \cup {t.show}) \ {Nothing}
    BY <1>4 DEF ScriptLost, At
  <2>2. Script \in Clients /\ Others(Script) /\ db' = db /\ tx'[Script] = Idle
    BY <2>1, CatalogAssumption, AbortEffect, InHand
  <2>3. flawed \cap Shows \subseteq flawed'
    BY <2>1, Identities
  <2>4. Working(t) => t.show \in flawed'
    BY <2>1, <2>2, InHand, Identities DEF Working, Importer, ImportOK, ImportTyped
  <2>5. Onward(Script)
    <3>1. CallOK(Script, tx'[Script], db, flawed') /\ FoundOK(tx'[Script], db)
      BY <2>2, NothingWritten DEF CallOK, FoundOK, Importer
    <3> QED BY <2>1, <2>2, <2>3, <2>4, <3>1 DEF Onward, Goes, Leaves
  <2>6. Sourced' /\ AloneNeverFails'
    BY <2>1 DEF CatalogInv, Sourced, AloneNeverFails
  <2> QED BY <2>2, <2>5, <2>6, OnwardKeeps, SameLosesNothing
<1>5. CASE Revise
  <2>w. PICK w \in Works : \E n \in SeasonsOf(w), k \in 0..MaxEpisodes :
          source' = [source EXCEPT ![w][n] = k]
    BY <1>5 DEF Revise
  <2>1. PICK n \in SeasonsOf(w), k \in 0..MaxEpisodes : source' = [source EXCEPT ![w][n] = k]
    BY <2>w
  <2>2. /\ UNCHANGED <<db, tx, script, flawed>>
        /\ history' = [history EXCEPT !.revisions = @ + 1]
    BY <1>5 DEF Revise
  <2>3. ASSUME NEW x \in Works PROVE source'[x] \in [DOMAIN Tree[x] -> Nat]
    <3>1. source[x] \in [DOMAIN Tree[x] -> Nat]
      BY DEF CatalogInv, Sourced
    <3>2. CASE x # w
      BY <2>1, <3>1, <3>2
    <3>3. CASE x = w
      <4>1. source'[w] = [source[w] EXCEPT ![n] = k] \/ source'[w] = source[w]
        BY <2>1
      <4>2. k \in Nat
        BY CatalogAssumption
      <4> QED BY <3>1, <3>3, <4>1, <4>2
    <3> QED BY <3>2, <3>3
  <2>4. Sourced' /\ history'.disturbed = history.disturbed /\ history'.failed = history.failed
    BY <2>2, <2>3 DEF CatalogInv, Sourced
  <2> QED BY <2>2, <2>4, QuietKeeps
<1> QED BY <1>1, <1>2, <1>3, <1>4, <1>5

LEMMA PageGoes ==
  ASSUME CatalogInv, NEW c \in Clients, OpenPage(c) \/ PageLost(c)
  PROVE  CatalogInv' /\ NothingLost
<1>1. CASE OpenPage(c)
  <2>1. PICK w \in Works : \E detail \in Details(w, source[w], Answers(w)) : Begin(c, w, detail, 1)
    BY <1>1 DEF OpenPage
  <2>2. PICK detail \in Details(w, source[w], Answers(w)) : Begin(c, w, detail, 1)
    BY <2>1
  <2>3. UNCHANGED <<db, source, script>> /\ DOMAIN history' = DOMAIN history
    BY <1>1, <2>2 DEF OpenPage, Begin
  <2>4. Sourced'
    BY <2>3 DEF CatalogInv, Sourced
  <2>5. DetailOK(w, detail)
    BY DetailsFetched DEF CatalogInv
  <2> QED BY <2>2, <2>3, <2>4, <2>5, BeginGoes, SameLosesNothing
<1>2. CASE PageLost(c)
  <2>1. c # Script /\ Abort(c) /\ UNCHANGED <<source, script, flawed, history>>
    BY <1>2 DEF PageLost, Rest
  <2>2. Sourced' /\ AloneNeverFails'
    BY <2>1 DEF CatalogInv, Sourced, AloneNeverFails
  <2> QED BY <2>1, <2>2, GivenUp, SameLosesNothing DEF Abort
<1> QED BY <1>1, <1>2

LEMMA CatalogStep == CatalogInv /\ [Next]_vars => CatalogInv' /\ NothingLost
<1> SUFFICES ASSUME CatalogInv, [Next]_vars PROVE CatalogInv' /\ NothingLost
  OBVIOUS
<1>1. ASSUME NEW c \in Clients, Statement(c) PROVE CatalogInv' /\ NothingLost
  <2>1. CASE UniqueSlug(c)
    <3>1. db' = db
      BY <2>1 DEF UniqueSlug, Advance
    <3> QED BY <2>1, <3>1, UniqueSlugGoes, SameLosesNothing
  <2>2. CASE CreditFind(c)
    <3>1. db' = db
      BY <2>2 DEF CreditFind, Advance
    <3> QED BY <2>2, <3>1, CreditFindGoes, SameLosesNothing
  <2> QED BY <1>1, <2>1, <2>2, ShowUpsertGoes, CreditInsertGoes, SeasonUpsertGoes,
             EpisodesInsertGoes, StampGoes DEF Statement
<1>2. CASE BackfillMatch
  <2>1. db' = db
    BY <1>2 DEF BackfillMatch
  <2> QED BY <1>2, <2>1, BackfillMatchGoes, SameLosesNothing
<1>3. CASE UNCHANGED vars
  <2>1. UNCHANGED <<db, tx, source, script, flawed, history>>
    BY <1>3 DEF vars
  <2>2. Sourced'
    BY <2>1 DEF CatalogInv, Sourced
  <2> QED BY <2>1, <2>2, QuietKeeps
<1> QED BY <1>1, <1>2, <1>3, PageGoes, ScriptGoes, ClaimGoes DEF Next

----------------------------------------------------------------------------
(* In the beginning: the seed's shows, and nothing under way.              *)

\* What the seed has put in row r.
AsSeeded(base) ==
  /\ DOMAIN base = Rows
  /\ \A s \in Shows : base[Show(s)] =
       IF FromSeed(s) THEN SeededShow(s[2]) ELSE NoShow
  /\ \A s \in Shows, n \in AllSeasons : base[Season(s, n)] =
       IF FromSeed(s) /\ n \in SeasonsOf(s[2])
       THEN [count |-> Tree[s[2]][n], stored |-> Tree[s[2]][n]] ELSE NoSeason

LEMMA InitSeeds == Init => AsSeeded(db)
<1> SUFFICES ASSUME Init PROVE AsSeeded(db)
  OBVIOUS
<1> DEFINE Row(r) ==
      CASE r = Studio -> FALSE
        [] r[1] = "Show" ->
             IF FromSeed(r[2])
             THEN SeededShow(r[2][2]) ELSE NoShow
        [] OTHER ->
             IF FromSeed(r[2]) /\ r[3] \in SeasonsOf(r[2][2])
             THEN [count |-> Tree[r[2][2]][r[3]], stored |-> Tree[r[2][2]][r[3]]]
             ELSE NoSeason
<1>1. db = [r \in Rows |-> Row(r)]
  BY DEF Init, Rows
<1>2. ASSUME NEW s \in Shows
      PROVE  Row(Show(s)) = IF FromSeed(s) THEN SeededShow(s[2]) ELSE NoShow
  <2>1. Show(s) # Studio /\ Show(s)[1] = "Show" /\ Show(s)[2] = s
    BY RowIds DEF Show
  <2> QED BY <2>1
<1>3. ASSUME NEW s \in Shows, NEW n \in AllSeasons
      PROVE  Row(Season(s, n)) =
               IF FromSeed(s) /\ n \in SeasonsOf(s[2])
               THEN [count |-> Tree[s[2]][n], stored |-> Tree[s[2]][n]] ELSE NoSeason
  <2>1. /\ Season(s, n) # Studio /\ Season(s, n)[1] # "Show"
        /\ Season(s, n)[2] = s /\ Season(s, n)[3] = n
    BY RowIds DEF Season
  <2> QED BY <2>1
<1> HIDE DEF Row
<1> QED BY <1>1, <1>2, <1>3, RowTypes DEF AsSeeded

LEMMA SeededShows ==
  ASSUME AsSeeded(db)
  PROVE  /\ BaseOK(db) /\ SlugsHold(db)
         /\ \A s \in Shows : db[Show(s)] # NoShow => Matched(db, s)
<1>1. ASSUME NEW s \in Shows
      PROVE  /\ ShowRow(db[Show(s)]) /\ db[Show(s)].identity[1] # "tmdb"
             /\ db[Show(s)] # NoShow => SlugOK(db[Show(s)].identity, db[Show(s)].slug)
  <2>1. CASE FromSeed(s)
    <3> DEFINE w == s[2]
    <3>1. /\ db[Show(s)] = SeededShow(w) /\ w \in Works /\ <<"local", w>> \in SourceIds
      BY <2>1, Identities DEF AsSeeded, SourceIds
    <3>2. /\ DOMAIN SeededShow(w) = {"identity", "slug", "seasons", "episodes"}
          /\ SeededShow(w).identity = <<"local", w>> /\ SeededShow(w).slug = Slug(w, 1)
      BY DEF SeededShow
    <3>3. Slug(w, 1)[2] = 1
      BY DEF Slug
    <3> QED BY <2>1, <3>1, <3>2, <3>3 DEF ShowRow, SlugOK
  <2>2. CASE ~FromSeed(s)
    <3>1. db[Show(s)] = NoShow
      BY <2>2 DEF AsSeeded
    <3> QED BY <3>1, Identities DEF ShowRow, NoShow
  <2> QED BY <2>1, <2>2
<1>2. ASSUME NEW s \in Shows, NEW n \in AllSeasons
      PROVE  /\ SeasonRow(db[Season(s, n)]) /\ db[Season(s, n)].count = db[Season(s, n)].stored
  <2>1. CASE FromSeed(s) /\ n \in SeasonsOf(s[2])
    <3>1. db[Season(s, n)] = [count |-> Tree[s[2]][n], stored |-> Tree[s[2]][n]]
      BY <2>1 DEF AsSeeded
    <3>2. s[2] \in Works /\ n \in DOMAIN Tree[s[2]]
      BY <2>1, Identities DEF SeasonsOf
    <3>3. Tree[s[2]][n] \in Nat
      BY <3>2, CatalogAssumption
    <3> QED BY <3>1, <3>3 DEF SeasonRow
  <2>2. CASE ~(FromSeed(s) /\ n \in SeasonsOf(s[2]))
    <3>1. db[Season(s, n)] = NoSeason
      BY <2>2 DEF AsSeeded
    <3> QED BY <3>1 DEF SeasonRow, NoSeason
  <2> QED BY <2>1, <2>2
<1>3. BaseOK(db)
  BY <1>1, <1>2 DEF AsSeeded, BaseOK
<1>4. ASSUME NEW s \in Shows, db[Show(s)] # NoShow PROVE Matched(db, s)
  <2> DEFINE w      == s[2]
             stored == [n \in AllSeasons |-> db[Season(s, n)].stored]
             seeded == [n \in SeasonsOf(w) |-> Tree[w][n]]
  <2>1. db[Show(s)] = SeededShow(w) /\ FromSeed(s) /\ w \in Works
    BY <1>4, Identities DEF AsSeeded
  <2>2. db[Show(s)].episodes = Sum(seeded)
    BY <2>1 DEF SeededShow
  <2>3. SeasonsOf(w) \subseteq AllSeasons
    BY <2>1, Seasons
  <2>4. ASSUME NEW n \in SeasonsOf(w) PROVE stored[n] = seeded[n]
    <3>1. db[Season(s, n)] = [count |-> Tree[w][n], stored |-> Tree[w][n]]
      BY <2>1, <2>3 DEF AsSeeded
    <3> QED BY <2>3, <3>1
  <2>5. ASSUME NEW n \in AllSeasons \ SeasonsOf(w) PROVE stored[n] = 0
    <3>1. db[Season(s, n)] = NoSeason
      BY DEF AsSeeded
    <3> QED BY <3>1 DEF NoSeason
  <2>6. DOMAIN seeded = SeasonsOf(w) /\ DOMAIN stored = AllSeasons
    OBVIOUS
  <2>7. Sum(seeded) = Sum(stored)
    <3> HIDE DEF seeded, stored
    <3> QED BY <2>3, <2>4, <2>5, <2>6, SameSum
  <2> QED BY <1>2, <2>2, <2>7 DEF Matched
<1> QED BY <1>1, <1>3, <1>4 DEF SlugsHold

LEMMA CatalogInit == Init => CatalogInv
<1> SUFFICES ASSUME Init PROVE CatalogInv
  OBVIOUS
<1>1. /\ tx = [c \in Clients |-> Idle] /\ source = Tree /\ flawed = {}
      /\ script = [left |-> <<>>, window |-> {}]
      /\ history = [imports |-> 0, revisions |-> 0, disturbed |-> FALSE, failed |-> FALSE]
  BY DEF Init
<1>2. BaseOK(db) /\ TotalsOK /\ SlugsOK
  BY InitSeeds, SeededShows DEF TotalsOK, SlugsOK
<1>3. CallsOK /\ RivalsOK /\ Locked
  BY <1>1, NothingWritten DEF CallsOK, CallOK, RivalsOK, Locked, FoundOK, Open, Importer, Wrote
<1>4. Sourced /\ AloneNeverFails
  BY <1>1, CatalogAssumption DEF Sourced, AloneNeverFails
<1> QED BY <1>2, <1>3, <1>4 DEF CatalogInv

----------------------------------------------------------------------------
(* The theorems.                                                           *)

\* Whatever imports, claims and page requests interleave, each of them losing
\* races or its process at any statement, and shows given other identities in
\* between: rows keep their shape, an identity of the provider's belongs to one
\* show, and an import that no other of its work overlaps knows how far it got.
THEOREM CatalogInvariant == Spec => []CatalogInv
<1>1. CatalogInv /\ [Next]_vars => CatalogInv'
  BY CatalogStep
<1> QED BY <1>1, CatalogInit, PTL DEF Spec

\* syncSeasons: for any number of works, seasons and pages beside the script,
\* a show's rows are what it is stamped with, but for the imports it names; a
\* posterless show the backfill has re-pointed to another work is no exception.
THEOREM TotalsAreRows == Spec => []TotalsMatchRows
<1>1. CatalogInv => TotalsMatchRows
  <2> SUFFICES ASSUME CatalogInv, NEW s \in Held(db) \ flawed,
                      ~At(Script, "idle") => tx[Script].show # s
               PROVE  Matched(db, s)
    BY DEF TotalsMatchRows, Matched
  <2>1. s \in Shows /\ db[Show(s)] # NoShow
    BY DEF Held
  <2>2. ~(Working(tx[Script]) /\ tx[Script].show = s)
    BY DEF At, Working, Importer
  <2> QED BY <2>1, <2>2 DEF CatalogInv, TotalsOK
<1> QED BY <1>1, CatalogInvariant, PTL

\* importShow and backfillArtwork: only what overlaps it makes an import throw,
\* or a show of the provider's that was given another identity.
THEOREM AloneSucceeds == Spec => []AloneNeverFails
<1>1. CatalogInv => AloneNeverFails
  BY DEF CatalogInv
<1> QED BY <1>1, CatalogInvariant, PTL

\* uniqueSlug and syncSeasons: no show, address or episode is ever taken away.
THEOREM NothingIsTaken == Spec => NothingTakenAway
<1>1. CatalogInv /\ [Next]_vars =>
        [\A s \in Held(db) :
           /\ s \in Held(db') /\ db'[Show(s)].slug = db[Show(s)].slug
           /\ \A n \in AllSeasons : db'[Season(s, n)].stored >= db[Season(s, n)].stored]_vars
  BY CatalogStep DEF NothingLost, Held
<1> QED BY <1>1, CatalogInvariant, PTL DEF Spec, NothingTakenAway

=============================================================================
