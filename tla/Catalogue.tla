------------------------------ MODULE Catalogue ------------------------------
(***************************************************************************)
(* The template catalogue and its publisher (scripts/catalogue): a run     *)
(* takes a checkout of manifests that has passed validateCatalogue and     *)
(* syncs them one by one, dependencies first, each in a transaction of its *)
(* own under an advisory lock on the template.  The database holds the     *)
(* revisions, which are immutable, and a log of events, which only grows;  *)
(* what readers see is a view of both.                                     *)
(***************************************************************************)
EXTENDS Naturals, Sequences

CONSTANTS
  Syncs,       \* bound: the runs at one time
  MaxEvents,   \* bound: the events ever logged
  Templates,
  Revisions,
  Whole,       \* in place of a revision: revision IS NULL
  Texts,       \* what a manifest says apart from its publication: what is hashed
  NoText,
  VersionOf,   \* of a text, the template and the revision it is written for
  TypeOf,      \* of a text, the type of its template
  NoType,
  Needs,       \* of a text, the versions it refers to
  Reviewed     \* the texts no publication blocker holds back

Versions == Templates \X Revisions
EventKeys     == Templates \X (Revisions \cup {Whole})
Publications == {"unpublished", "published", "withdrawn", "withdrawnWhole"}
Manifests == [text : Texts, status : Publications]
EventTypes == {"PUBLISHED", "WITHDRAWN"}
Events == [key : EventKeys, type : EventTypes]

ASSUME CatalogueAssumption ==
  /\ MaxEvents \in Nat
  /\ Whole \notin Revisions /\ NoText \notin Texts
  /\ VersionOf \in [Texts -> Versions]
  /\ Needs \in [Texts -> SUBSET Versions]
  /\ Reviewed \subseteq Texts
  /\ \A x \in Texts : TypeOf[x] # NoType

VARIABLES
  typed,    \* catalogue.template: the type of each template stored
  stored,   \* catalogue.revision: the text of each version stored
  events,   \* catalogue.revision_event, in the order of event_id
  sync,     \* each run's step, the manifests to go, the one under way, the
            \* dependencies of it to check, the event it found to be the latest
  \* history: what the last transaction about a version reported, and the versions
  \* hidden by others since a transaction began
  reported, hidden

catalogueVars == <<typed, stored, events, sync, reported, hidden>>

Version(m) == VersionOf[m.text]
Template(m) == Version(m)[1]

\* The event a manifest asks for and the key it is logged under.
EventOf(m) == IF m.status = "published" THEN "PUBLISHED" ELSE "WITHDRAWN"
EventKey(m) == IF m.status = "withdrawnWhole" THEN <<Template(m), Whole>> ELSE Version(m)

\* public_revision: reviewed, its latest event published it, and its template was
\* not withdrawn as a whole after that.
Public(v) ==
  /\ stored[v] \in Reviewed
  /\ \E i \in DOMAIN events :
       /\ events[i] = [key |-> v, type |-> "PUBLISHED"]
       /\ \A j \in DOMAIN events : j > i => events[j].key \notin {v, <<v[1], Whole>>}

InTransaction(s) == sync[s].at \in {"begun", "checks", "append"}
NoManifest == [text |-> NoText, status |-> "unpublished"]
IdleSync == [at |-> "idle", todo |-> {}, now |-> NoManifest, left |-> {}, latest |-> "none"]

CatalogueTypeOK ==
  /\ typed \in [Templates -> {NoType} \cup {TypeOf[x] : x \in Texts}]
  /\ stored \in [Versions -> Texts \cup {NoText}]
  /\ events \in Seq(Events)
  /\ sync \in [Syncs -> [at : {"idle", "next", "begun", "checks", "append"}, todo : SUBSET Manifests,
                         now : Manifests \cup {NoManifest}, left : SUBSET Versions,
                         latest : EventTypes \cup {"none"}]]
  /\ \A s \in Syncs : InTransaction(s) => sync[s].now \in Manifests
  /\ reported \in [Versions -> Publications \cup {"nothing"}]
  /\ hidden \in [Syncs -> SUBSET Versions]

CatalogueInit ==
  /\ typed = [t \in Templates |-> NoType]
  /\ stored = [v \in Versions |-> NoText]
  /\ events = <<>>
  /\ sync = [s \in Syncs |-> IdleSync]
  /\ reported = [v \in Versions |-> "nothing"]
  /\ hidden = [s \in Syncs |-> {}]

----------------------------------------------------------------------------
(* A checkout.                                                             *)

\* validateDependencyTargets: what a manifest refers to is there, published if it is.
TargetsFound(c) ==
  \A m \in c : \A v \in Needs[m.text] :
    \E n \in c : Version(n) = v /\ (m.status = "published" => n.status = "published")

\* cycleErrors: of any manifests one refers to none of them.
Acyclic(c) ==
  \A d \in SUBSET c \ {{}} : \E m \in d : \A n \in d : Version(n) \notin Needs[m.text]

Checkouts ==
  {c \in SUBSET Manifests :
     /\ \A m, n \in c : Version(m) = Version(n) => m = n
     /\ \A m \in c : m.status = "published" => m.text \in Reviewed
     /\ TargetsFound(c)
     /\ Acyclic(c)}

----------------------------------------------------------------------------
(* The publisher.                                                          *)

\* A run between two transactions.
Listing(todo) == [IdleSync EXCEPT !.at = "next", !.todo = todo]

\* main: nothing is synced from a checkout with errors.
SyncStarts(s, c) ==
  /\ sync[s].at = "idle" /\ c \in Checkouts
  /\ sync' = [sync EXCEPT ![s] = Listing(c)]
  /\ UNCHANGED <<typed, stored, events, reported, hidden>>

\* Mutant: the lock is not taken.
LockFreeAlways(t) == TRUE

\* pg_advisory_xact_lock: held by a transaction about the template to its end.
LockFree(t) == \A q \in Syncs : InTransaction(q) => Template(sync[q].now) # t

\* dependencyOrder: what a manifest refers to has been synced before it; the names
\* of the files decide the rest.
SyncBegins(s, m) ==
  /\ sync[s].at = "next"
  /\ \A n \in sync[s].todo : Version(n) \notin Needs[m.text]
  /\ LockFree(Template(m))
  /\ sync' = [sync EXCEPT ![s].at = "begun", ![s].now = m, ![s].todo = @ \ {m}]
  /\ UNCHANGED <<typed, stored, events, reported, hidden>>

\* A refusal rolls the transaction back and ends the run.
Refuse(s) == sync' = [sync EXCEPT ![s] = IdleSync] /\ hidden' = [hidden EXCEPT ![s] = {}]

GoOnWith(s, needs) ==
  sync' = [sync EXCEPT ![s].at = "checks", ![s].left = needs] /\ UNCHANGED hidden

\* The template's row and the revision's, inserted or found as the manifest has
\* them; nobody else sees them before the commit.
StoreRevision(s) ==
  LET m == sync[s].now
  IN  /\ sync[s].at = "begun" /\ m.status = "published"
      /\ IF /\ typed[Template(m)] \in {NoType, TypeOf[m.text]}
            /\ stored[Version(m)] \in {NoText, m.text}
            /\ m.text \in Reviewed
         THEN GoOnWith(s, Needs[m.text])
         ELSE Refuse(s)
      /\ UNCHANGED <<typed, stored, events, reported>>

\* Mutant: the revision is looked for among all that are stored.
VisibleIfStored(v) == stored[v] # NoText

Visible(v) == Public(v)

CheckDependency(s, v) ==
  /\ sync[s].at = "checks"
  /\ IF Visible(v) THEN GoOnWith(s, sync[s].left \ {v}) ELSE Refuse(s)
  /\ UNCHANGED <<typed, stored, events, reported>>

\* recordWithdrawal: of the exact revision stored.
RecordWithdrawal(s) ==
  LET m == sync[s].now
  IN  /\ sync[s].at = "begun" /\ m.status \in {"withdrawn", "withdrawnWhole"}
      /\ IF stored[Version(m)] = m.text THEN GoOnWith(s, {}) ELSE Refuse(s)
      /\ UNCHANGED <<typed, stored, events, reported>>

\* keepUnpublishedRevision: a draft is not stored, a stored revision is compared
\* and may not be public.
KeepUnpublished(s) ==
  LET m == sync[s].now
  IN  /\ sync[s].at = "begun" /\ m.status = "unpublished"
      /\ IF stored[Version(m)] = NoText \/ (stored[Version(m)] = m.text /\ ~Public(Version(m)))
         THEN /\ sync' = [sync EXCEPT ![s] = Listing(sync[s].todo)]
              /\ reported' = [reported EXCEPT ![Version(m)] = "unpublished"]
              /\ hidden' = [hidden EXCEPT ![s] = {}]
         ELSE Refuse(s) /\ UNCHANGED reported
      /\ UNCHANGED <<typed, stored, events>>

\* Mutant: the latest event of the template, whatever the revision.
IsLatestOfTemplate(k, y) ==
  \/ y = "none" /\ \A i \in DOMAIN events : events[i].key[1] # k[1]
  \/ \E i \in DOMAIN events :
       /\ events[i].key[1] = k[1] /\ events[i].type = y
       /\ \A j \in DOMAIN events : j > i => events[j].key[1] # k[1]

\* The latest event under a key: the one with the highest event_id.
IsLatest(k, y) ==
  \/ y = "none" /\ \A i \in DOMAIN events : events[i].key # k
  \/ \E i \in DOMAIN events :
       /\ events[i] = [key |-> k, type |-> y]
       /\ \A j \in DOMAIN events : j > i => events[j].key # k

ReadLatest(s) ==
  /\ sync[s].at = "checks" /\ sync[s].left = {}
  /\ \E y \in EventTypes \cup {"none"} :
       /\ IsLatest(EventKey(sync[s].now), y)
       /\ sync' = [sync EXCEPT ![s].at = "append", ![s].latest = y]
  /\ UNCHANGED <<typed, stored, events, reported, hidden>>

\* The versions an event hides from readers.
Hides(k, y) == {v \in Versions : y = "WITHDRAWN" /\ (k = v \/ k = <<v[1], Whole>>)}

\* appendEvent and COMMIT: an event the log ends on already is not logged again.
AppendEvent(s) ==
  LET m == sync[s].now
      k == EventKey(m)
  IN  /\ sync[s].at = "append"
      /\ \/ /\ sync[s].latest = EventOf(m)
            /\ UNCHANGED events
            /\ hidden' = [hidden EXCEPT ![s] = {}]
         \/ /\ sync[s].latest # EventOf(m) /\ Len(events) < MaxEvents
            /\ events' = Append(events, [key |-> k, type |-> EventOf(m)])
            /\ hidden' = [q \in Syncs |-> IF InTransaction(q) /\ q # s THEN hidden[q] \cup Hides(k, EventOf(m)) ELSE {}]
      /\ IF m.status = "published"
         THEN /\ typed' = [typed EXCEPT ![Template(m)] = TypeOf[m.text]]
              /\ stored' = [stored EXCEPT ![Version(m)] = m.text]
         ELSE UNCHANGED <<typed, stored>>
      /\ reported' = [reported EXCEPT ![Version(m)] = m.status]
      /\ sync' = [sync EXCEPT ![s] = Listing(sync[s].todo)]

\* The run is over, or the connection, the process or a statement fails: what was
\* committed stays.
SyncEnds(s) ==
  /\ sync[s].at # "idle"
  /\ Refuse(s)
  /\ UNCHANGED <<typed, stored, events, reported>>

CatalogueNext ==
  \E s \in Syncs :
    \/ \E c \in Checkouts : SyncStarts(s, c)
    \/ \E m \in sync[s].todo : SyncBegins(s, m)
    \/ \E v \in sync[s].left : CheckDependency(s, v)
    \/ StoreRevision(s) \/ RecordWithdrawal(s) \/ KeepUnpublished(s)
    \/ ReadLatest(s) \/ AppendEvent(s) \/ SyncEnds(s)

CatalogueSpec == CatalogueInit /\ [][CatalogueNext]_catalogueVars

----------------------------------------------------------------------------
(* Properties.                                                             *)

\* However runs of different checkouts overlap, an event is logged only where it
\* changes something: under one key, PUBLISHED and WITHDRAWN alternate.
EventsAlternate ==
  \A i, j \in DOMAIN events :
    i < j /\ events[i] = events[j] =>
      \E k \in DOMAIN events : i < k /\ k < j /\ events[k].key = events[i].key /\ events[k].type # events[i].type

\* The last answer about a version tells what readers see of it, for templates that
\* were never withdrawn as a whole.
AnswersHold ==
  \A v \in Versions :
    (\A i \in DOMAIN events : events[i].key # <<v[1], Whole>>) =>
      /\ reported[v] = "published" => Public(v)
      /\ Public(v) => reported[v] = "published"

\* A revision is published on top of revisions readers see, but for one that was
\* hidden by another run since the publishing transaction began.
StandsOnPublic ==
  \A s \in Syncs :
    sync[s].at = "append" /\ sync[s].now.status = "published" =>
      \A v \in Needs[sync[s].now.text] : Public(v) \/ v \in hidden[s]

\* "Hiding a published revision requires an explicit withdrawal manifest"
\* (catalogue/README.md): a version whose withdrawal was recorded, and nothing about
\* it since, is hidden.
WithdrawnIsHidden ==
  \A v \in Versions : reported[v] \in {"withdrawn", "withdrawnWhole"} => ~Public(v)
=============================================================================
