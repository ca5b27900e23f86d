----------------------------- MODULE WorkQueue -----------------------------
(***************************************************************************)
(* Paging through the work queue (Service.ListBatches) while batches are   *)
(* created and move on.  Each page is computed from one clone of the       *)
(* projection; between pages the service remembers nothing, all that is    *)
(* left of a page is the cursor the client holds.                          *)
(***************************************************************************)
EXTENDS Naturals, FiniteSets, SequencesExt, Lifecycle

CONSTANTS
  Ids,       \* the batch identifiers, as numbers: the code compares them
  Stations,  \* the station codes
  Times,     \* the instants the clock of the service can show, as numbers
  Unset,     \* a filter field that is not given
  Filters,   \* the filters a client can ask for
  Limits     \* the page sizes a client can ask for

ASSUME NumbersAssumption == Ids \subseteq Nat /\ IsFiniteSet(Ids) /\ Times \subseteq Nat
ASSUME UnsetAssumption == Unset \notin Stations \cup Statuses
ASSUME FiltersAssumption ==
  /\ Filters # {}
  /\ Filters \subseteq [station : Stations \cup {Unset}, status : Statuses \cup {Unset},
                        from : Nat, to : Nat]
ASSUME LimitsAssumption == Limits \subseteq Nat \ {0}

VARIABLES
  batches,  \* identifier -> the batch, as far as the queue looks at it
  cursor,   \* what the client holds: the cursor of its last page
  phase,    \* of the client: "idle", "paging" or "done"
  filter,   \* the filter it started with
  page,     \* the batches on its last page, in order
  listed,   \* the batches it has been shown
  steady    \* the batches that have matched ever since its first page

vars == <<batches, cursor, phase, filter, page, listed, steady>>

-----------------------------------------------------------------------------
(* The queue. *)

Matches(f, b) ==
  /\ f.station \in {Unset, b.station}
  /\ f.status \in {Unset, b.status}
  /\ b.createdAt \in f.from .. f.to

\* Newest first, batches of one instant by identifier.
Before(i, j) ==
  \/ batches[i].createdAt > batches[j].createdAt
  \/ batches[i].createdAt = batches[j].createdAt /\ i < j

InOrder(s) == \A m, n \in DOMAIN s : m < n => Before(s[m], s[n])

\* The chosen ones of the batches, in the order the store returns them in.
BatchReadSnapshot(chosen) ==
  CHOOSE s \in [1 .. Cardinality(chosen) -> chosen] : InOrder(s)

FilterDigest(f) == <<f.station, f.status, f.from, f.to>>

NoCursor == [id |-> Unset]

CursorAt(i, f) ==
  [createdAt |-> batches[i].createdAt, id |-> i, filterDigest |-> FilterDigest(f)]

\* Fault: only the creation time is compared.
AfterCursorInTime(i, c) == c = NoCursor \/ batches[i].createdAt < c.createdAt

\* Fault: the batch the cursor was taken from is not passed over.
AfterCursorInclusive(i, c) ==
  \/ c = NoCursor
  \/ batches[i].createdAt < c.createdAt
  \/ batches[i].createdAt = c.createdAt /\ i >= c.id

\* Fault: every page starts at the newest batch.
AfterCursorIgnored(i, c) == TRUE

AfterCursor(i, c) ==
  \/ c = NoCursor
  \/ batches[i].createdAt < c.createdAt
  \/ batches[i].createdAt = c.createdAt /\ i > c.id

\* The batches from the cursor on: those a page is cut from.
Remaining(f, c) ==
  BatchReadSnapshot({i \in DOMAIN batches : Matches(f, batches[i]) /\ AfterCursor(i, c)})

ListBatches(f, c, limit) ==
  LET rest == Remaining(f, c)
      items == SubSeq(rest, 1, IF Len(rest) < limit THEN Len(rest) ELSE limit) IN
  [items |-> items,
   next  |-> IF Len(items) < Len(rest) THEN CursorAt(Last(items), f) ELSE NoCursor]

Accepted(f, c) == c = NoCursor \/ c.filterDigest = FilterDigest(f)

-----------------------------------------------------------------------------
(* The client. *)

Show(view) ==
  /\ page' = view.items
  /\ listed' = listed \cup Range(view.items)
  /\ cursor' = view.next
  /\ phase' = IF view.next = NoCursor THEN "done" ELSE "paging"
  /\ UNCHANGED batches

FirstPage(f, limit) ==
  /\ phase = "idle"
  /\ Show(ListBatches(f, NoCursor, limit))
  /\ filter' = f
  /\ steady' = {i \in DOMAIN batches : Matches(f, batches[i])}

\* The client may change the size of the page, and try the cursor with a filter
\* it was not made for, which is refused.
NextPage(f, limit) ==
  /\ phase = "paging"
  /\ Accepted(f, cursor)
  /\ Show(ListBatches(f, cursor, limit))
  /\ UNCHANGED <<filter, steady>>

-----------------------------------------------------------------------------
(* The commands of others. *)

Change(new) ==
  /\ batches' = new
  /\ steady' = {i \in steady : Matches(filter, new[i])}
  /\ UNCHANGED <<cursor, phase, filter, page, listed>>

\* Identifiers are digests, their order has nothing to do with the order of
\* creation; the clock of the host may be set back.
CreateBatch(i, now, station) ==
  /\ i \notin DOMAIN batches
  /\ Change([j \in DOMAIN batches \cup {i} |->
               IF j = i THEN [createdAt |-> now, station |-> station, status |-> "draft"]
                        ELSE batches[j]])

MoveTo(i, next) ==
  /\ AllowedTransition(batches[i].status, next)
  /\ Change([batches EXCEPT ![i].status = next])

-----------------------------------------------------------------------------

Init ==
  /\ batches \in UNION {[S -> [createdAt : Times, station : Stations, status : {"draft"}]] :
                          S \in SUBSET Ids}
  /\ cursor = NoCursor
  /\ phase = "idle"
  /\ filter = CHOOSE f \in Filters : TRUE
  /\ page = <<>>
  /\ listed = {}
  /\ steady = {}

Turn == \E f \in Filters, limit \in Limits : FirstPage(f, limit) \/ NextPage(f, limit)

Next ==
  \/ Turn
  \/ \E i \in Ids, now \in Times, station \in Stations : CreateBatch(i, now, station)
  \/ \E i \in DOMAIN batches, next \in Statuses : MoveTo(i, next)

Spec == Init /\ [][Next]_vars

\* A client that has begun goes on asking for the next page.
FairSpec == Spec /\ WF_vars(Turn)

-----------------------------------------------------------------------------

\* The pages of one traversal, put together, are in the order of the queue and
\* show no batch twice, whatever is created and moves on between them, and
\* whatever page sizes are asked for: README "stable pagination".
PagesInOrder ==
  [][page' # page => \A i \in listed, j \in Range(page') : Before(i, j)]_vars

\* A batch that matched the filter from the first page to the last is shown: none
\* slips through between two pages because others came, went, or share its
\* creation time, or because the cursor was used with another filter.
NothingSkipped == phase = "done" => steady \subseteq listed

\* Whoever follows the cursors gets to the last page, also while batches are
\* created and with the smallest pages.
TraversalEnds == <>(phase = "done")

=============================================================================
