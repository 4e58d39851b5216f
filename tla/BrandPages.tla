----------------------------- MODULE BrandPages -----------------------------
(* The list of a partner's sites, page by page.  A page is addressed by the  *)
(* site it follows or precedes, which is looked up again, under the name it  *)
(* has by then; sites come, go and are renamed between two pages.            *)
EXTENDS Naturals, FiniteSets

CONSTANTS
  Sites,     \* identifiers, in their order
  Ranks,     \* names, in their order
  NoSite,
  PageSize,
  MaxEdits   \* bound on edits during a walk

ASSUME PagesAssumption ==
  /\ IsFiniteSet(Sites) /\ Sites \subseteq Nat /\ Ranks \subseteq Nat /\ NoSite \notin Sites
  /\ PageSize \in Nat \ {0} /\ MaxEdits \in Nat

VARIABLES
  row,     \* a site's name, and whether it is live, the partner's, and in the registry
  walk,    \* the page shown and what it links to
  seen,    \* how often each site has been shown in this walk; once it turned back, whether
  steady,  \* sites that were listed throughout, under one name
  spoilt,  \* a site of the page in view has been renamed
  back,    \* the walk has turned back
  edits

pagesVars == <<row, walk, seen, steady, spoilt, back, edits>>

Before(i, j) == row[i].rank < row[j].rank \/ (row[i].rank = row[j].rank /\ i < j)
Listed == {i \in Sites : row[i].listed}

FirstFew(ids) == {i \in ids : Cardinality({j \in ids : Before(j, i)}) < PageSize}
LastFew(ids)  == {i \in ids : Cardinality({j \in ids : Before(i, j)}) < PageSize}
Many(ids)     == Cardinality(ids) > PageSize

\* A page links by its first and its last site, as they are when it is shown.
Page(ids, prev, next) ==
  LET first == {i \in ids : \A j \in ids \ {i} : Before(i, j)}
      last  == {i \in ids : \A j \in ids \ {i} : Before(j, i)}
  IN  [sites |-> ids, before |-> IF prev THEN first ELSE {}, after |-> IF next THEN last ELSE {}]

Follow(ids, prev)  == Page(FirstFew(ids), prev, Many(ids))
Precede(ids) == Page(LastFew(ids), Many(ids), TRUE)

\* Mutant: a page is cut by the name alone, and those of one name fall between two pages.
PageOfByName(cursor) ==
  CASE cursor.dir = "after"  -> Follow({i \in Listed : row[cursor.site].rank < row[i].rank}, TRUE)
    [] cursor.dir = "before" -> Precede({i \in Listed : row[i].rank < row[cursor.site].rank})
    [] OTHER -> Follow(Listed, FALSE)

\* partnerBrandSiteQuery, assemblePartnerBrandSitesPage: one row more than a page tells
\* whether there is another one.
PageOf(cursor) ==
  CASE cursor.dir = "after"  -> Follow({i \in Listed : Before(cursor.site, i)}, TRUE)
    [] cursor.dir = "before" -> Precede({i \in Listed : Before(i, cursor.site)})
    [] OTHER -> Follow(Listed, FALSE)

Start == [dir |-> "start", site |-> NoSite]

\* loadPartnerBrandSitesPage: a boundary that is no longer listed, and a page that
\* turns out empty, both mean the first page.
Lost(cursor) == ~row[cursor.site].listed \/ PageOf(cursor).sites = {}

Counted(page) == [i \in Sites |-> IF i \in page.sites THEN 1 ELSE 0]

----------------------------------------------------------------------------
Opens ==
  /\ walk' = PageOf(Start)
  /\ seen' = Counted(PageOf(Start))
  /\ steady' = Listed /\ spoilt' = FALSE /\ back' = FALSE
  /\ UNCHANGED <<row, edits>>

Follows(dir, at) ==
  LET cursor == [dir |-> dir, site |-> at] IN
  /\ at \in walk[dir]
  /\ IF Lost(cursor) THEN Opens
     ELSE /\ walk' = PageOf(cursor)
          /\ back' = (back \/ dir = "before")
          /\ seen' = [i \in Sites |-> LET n == seen[i] + Counted(PageOf(cursor))[i] IN
                                      IF n > 0 /\ back' THEN 1 ELSE n]
          /\ UNCHANGED <<row, steady, spoilt, edits>>

\* A client is renamed, goes live, churns, or its entry changes.
Edits(i, r) ==
  /\ edits < MaxEdits /\ row[i] # r
  /\ row' = [row EXCEPT ![i] = r] /\ edits' = edits + 1
  /\ steady' = steady \ {i}
  /\ spoilt' = (spoilt \/ (i \in walk.sites /\ r.rank # row[i].rank))
  /\ UNCHANGED <<walk, seen, back>>

PagesInit ==
  /\ row \in [Sites -> [rank : Ranks, listed : BOOLEAN]]
  /\ walk = [sites |-> {}, before |-> {}, after |-> {}]
  /\ seen = [i \in Sites |-> 0] /\ steady = {} /\ spoilt = FALSE /\ back = FALSE /\ edits = 0

PagesNext ==
  \/ Opens /\ walk.sites = {}
  \/ \E dir \in {"after", "before"}, at \in Sites : Follows(dir, at)
  \/ \E i \in Sites, r \in [rank : Ranks, listed : BOOLEAN] : Edits(i, r)

----------------------------------------------------------------------------
\* When there is no further page, every site that was listed throughout has been shown,
\* and once if the partner never went back (lib/partner-brand-sites-pagination.ts:37,81),
\* whatever else came, went or was renamed, unless it was a site a link names.
WalkMissesNobody ==
  ~spoilt /\ walk.sites # {} =>
    \A i \in steady : /\ walk.after = {} => seen[i] >= 1
                      /\ ~back => seen[i] <= 1

PagesSpec == PagesInit /\ [][PagesNext]_pagesVars

\* The inductive invariant behind it: of a page whose sites kept their names, the sites up
\* to its last one have been shown, and on the way forward no others.
PagesTypeOK ==
  /\ row \in [Sites -> [rank : Ranks, listed : BOOLEAN]]
  /\ walk \in [sites : SUBSET Sites, before : SUBSET Sites, after : SUBSET Sites]
  /\ seen \in [Sites -> Nat] /\ steady \subseteq Sites
  /\ spoilt \in BOOLEAN /\ back \in BOOLEAN /\ edits \in Nat

UpTo(i) == \E b \in walk.sites : i = b \/ Before(i, b)

LinksAreEdges ==
  /\ walk.before \subseteq walk.sites
  /\ \A a \in walk.after : a \in walk.sites /\ \A b \in walk.sites \ {a} : Before(b, a)

WalkInv ==
  /\ PagesTypeOK
  /\ \A i \in steady : row[i].listed
  /\ ~spoilt =>
       /\ LinksAreEdges
       /\ \A i \in steady : UpTo(i) => seen[i] >= 1
       /\ ~back => \A i \in steady : seen[i] <= 1 /\ (seen[i] >= 1 => UpTo(i))
       /\ walk.sites # {} /\ walk.after = {} => \A i \in steady : seen[i] >= 1
=============================================================================
