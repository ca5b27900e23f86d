-------------------------- MODULE WorkQueueProofs --------------------------
(***************************************************************************)
(* Theorems about paging through the work queue: for any batches, instants *)
(* and filters, and whatever page sizes the client asks for.               *)
(***************************************************************************)
EXTENDS WorkQueue, FiniteSetTheorems, SequenceTheorems, TLAPS

Batch == [createdAt : Times, station : Stations, status : Statuses]

QueueTypeOK ==
  /\ DOMAIN batches \in SUBSET Ids
  /\ batches \in [DOMAIN batches -> Batch]
  /\ filter \in Filters
  /\ phase \in {"idle", "paging", "done"}

-----------------------------------------------------------------------------
(* The order of the queue. *)

\* Batches are ordered by numbers.
LEMMA Numbers ==
  ASSUME QueueTypeOK, NEW i \in DOMAIN batches
  PROVE  i \in Nat /\ batches[i] \in Batch /\ batches[i].createdAt \in Nat
BY NumbersAssumption DEF QueueTypeOK, Batch

\* The order is total and strict.
LEMMA BeforeIsAnOrder ==
  ASSUME QueueTypeOK
  PROVE  /\ \A i \in DOMAIN batches : ~ Before(i, i)
         /\ \A i, j \in DOMAIN batches : i = j \/ Before(i, j) \/ Before(j, i)
         /\ \A i, j, k \in DOMAIN batches : Before(i, j) /\ Before(j, k) => Before(i, k)
BY Numbers DEF Before

\* Some sequence has the batches of a set in order: the place of each is the number
\* of those that are not behind it.
LEMMA OrderExists ==
  ASSUME QueueTypeOK, NEW S \in SUBSET DOMAIN batches
  PROVE  /\ Cardinality(S) \in Nat /\ IsFiniteSet(S)
         /\ \E s \in [1 .. Cardinality(S) -> S] : InOrder(s)
<1> DEFINE n == Cardinality(S)
           upTo(i) == {j \in S : j = i \/ Before(j, i)}
           place == [i \in S |-> Cardinality(upTo(i))]
<1>1. IsFiniteSet(S) /\ n \in Nat
  <2>1. S \in SUBSET Ids
    BY DEF QueueTypeOK
  <2>2. IsFiniteSet(S)
    BY <2>1, NumbersAssumption, FS_Subset
  <2>3. QED
    BY <2>2, FS_CardinalityType
<1>2. ASSUME NEW i \in S
      PROVE  IsFiniteSet(upTo(i)) /\ Cardinality(upTo(i)) \in 1 .. n
  <2>1. /\ IsFiniteSet(upTo(i)) /\ Cardinality(upTo(i)) <= n
        /\ Cardinality(upTo(i)) \in Nat
    BY <1>1, FS_Subset, FS_CardinalityType
  <2>2. Cardinality(upTo(i)) # 0
    BY <2>1, FS_EmptySet
  <2>3. QED
    BY <1>1, <2>1, <2>2
<1>3. ASSUME NEW i \in S, NEW j \in S, Before(i, j)
      PROVE  place[i] < place[j]
  <2>1. upTo(i) \subseteq upTo(j)
    BY <1>3, BeforeIsAnOrder
  <2>2. j \in upTo(j) /\ j \notin upTo(i)
    BY <1>3, BeforeIsAnOrder
  <2>3. /\ Cardinality(upTo(i)) <= Cardinality(upTo(j))
        /\ Cardinality(upTo(i)) # Cardinality(upTo(j))
    BY <1>2, <2>1, <2>2, FS_Subset
  <2>4. QED
    BY <1>2, <2>3
<1>4. place \in Injection(S, 1 .. n)
  <2>1. place \in [S -> 1 .. n]
    BY <1>2
  <2>2. ASSUME NEW i \in S, NEW j \in S, place[i] = place[j]
        PROVE  i = j
    <3>1. place[i] \in Nat /\ place[j] \in Nat
      BY <2>1
    <3>2. ~ Before(i, j) /\ ~ Before(j, i)
      BY <1>3, <2>2, <3>1
    <3>3. QED
      BY <3>2, BeforeIsAnOrder
  <2>3. QED
    BY <2>1, <2>2 DEF Injection, IsInjective
<1> HIDE DEF place
<1>5. place \in Surjection(S, 1 .. n)
  <2>1. IsFiniteSet(1 .. n) /\ Cardinality(1 .. n) = n
    BY <1>1, FS_Interval
  <2>2. QED
    BY <1>4, <2>1, FS_Injection
<1> DEFINE s == [m \in 1 .. n |-> CHOOSE i \in S : place[i] = m]
<1>6. ASSUME NEW m \in 1 .. n
      PROVE  s[m] \in S /\ place[s[m]] = m
  <2>1. \E i \in S : place[i] = m
    BY <1>5 DEF Surjection
  <2>2. QED
    BY <2>1
<1>7. s \in [1 .. n -> S]
  BY <1>6
<1>8. InOrder(s)
  <2>1. DOMAIN s = 1 .. n
    OBVIOUS
  <2> HIDE DEF s
  <2>2. ASSUME NEW m \in 1 .. n, NEW k \in 1 .. n, m < k
        PROVE  Before(s[m], s[k])
    <3>1. s[m] \in S /\ s[k] \in S /\ place[s[m]] = m /\ place[s[k]] = k
      BY <1>6
    <3>2. s[m] # s[k]
      BY <1>1, <2>2, <3>1
    <3>3. ~ Before(s[k], s[m])
      BY <1>1, <1>3, <2>2, <3>1
    <3>4. QED
      BY <3>1, <3>2, <3>3, BeforeIsAnOrder
  <2>3. QED
    BY <2>1, <2>2 DEF InOrder
<1>9. QED
  BY <1>1, <1>7, <1>8

\* What the store returns of some batches: all of them, each once, in order.
LEMMA SnapshotInOrder ==
  ASSUME QueueTypeOK, NEW S \in SUBSET DOMAIN batches
  PROVE  LET s == BatchReadSnapshot(S) IN
         /\ s \in Seq(S) /\ Len(s) \in Nat /\ DOMAIN s = 1 .. Len(s)
         /\ \A m, k \in 1 .. Len(s) : m < k => Before(s[m], s[k])
         /\ \A i \in S : \E m \in 1 .. Len(s) : s[m] = i
<1> DEFINE s == BatchReadSnapshot(S)
           n == Cardinality(S)
<1>1. n \in Nat /\ IsFiniteSet(S) /\ \E t \in [1 .. n -> S] : InOrder(t)
  BY OrderExists
<1>2. s \in [1 .. n -> S] /\ InOrder(s)
  BY <1>1 DEF BatchReadSnapshot
<1> HIDE DEF s, n
<1>3. s \in Seq(S) /\ Len(s) = n /\ DOMAIN s = 1 .. n
  BY <1>1, <1>2
<1>4. \A m, k \in 1 .. n : m < k => Before(s[m], s[k])
  BY <1>2, <1>3 DEF InOrder
<1>5. s \in Injection(1 .. n, S)
  <2>1. ASSUME NEW m \in 1 .. n, NEW k \in 1 .. n, s[m] = s[k]
        PROVE  m = k
    <3>1. s[m] \in DOMAIN batches
      BY <1>2
    <3>2. ~ (m < k) /\ ~ (k < m)
      BY <1>4, <2>1, <3>1, BeforeIsAnOrder
    <3>3. QED
      BY <1>1, <3>2
  <2>2. QED
    BY <1>2, <2>1 DEF Injection, IsInjective
<1>6. s \in Surjection(1 .. n, S)
  <2>1. Cardinality(1 .. n) = n
    BY <1>1, FS_Interval
  <2>2. QED
    BY <1>1, <1>5, <2>1, FS_Injection DEF n
<1>7. QED
  BY <1>1, <1>3, <1>4, <1>6 DEF Surjection, s

-----------------------------------------------------------------------------
(* A page. *)

\* A cursor is not the absence of one.
LEMMA CursorIsSomething ==
  ASSUME NEW i, NEW f
  PROVE  CursorAt(i, f) # NoCursor
<1>1. "createdAt" \in DOMAIN CursorAt(i, f) /\ "createdAt" \notin DOMAIN NoCursor
  BY DEF CursorAt, NoCursor
<1>2. QED
  BY <1>1

\* Behind the cursor of a batch lies what comes after it in the queue.
LEMMA BehindCursor ==
  ASSUME QueueTypeOK, NEW i \in DOMAIN batches, NEW last \in DOMAIN batches, NEW f
  PROVE  AfterCursor(i, CursorAt(last, f)) <=> Before(last, i)
<1>1. CursorAt(last, f) # NoCursor
  BY CursorIsSomething
<1>2. CursorAt(last, f).createdAt = batches[last].createdAt /\ CursorAt(last, f).id = last
  BY DEF CursorAt
<1>3. QED
  BY <1>1, <1>2, Numbers DEF AfterCursor, Before

\* A filter and its digest tell the same.
LEMMA DigestIsFilter ==
  ASSUME NEW f \in Filters, NEW g \in Filters, FilterDigest(f) = FilterDigest(g)
  PROVE  f = g
BY FiltersAssumption DEF FilterDigest

\* A page shows batches that match and lie behind the cursor, and leaves out none of
\* them but those behind its own last one, which is where the next cursor points.
LEMMA PageIsCut ==
  ASSUME QueueTypeOK, NEW f, NEW c, NEW limit \in Limits
  PROVE  LET view == ListBatches(f, c, limit)
             rest == {i \in DOMAIN batches : Matches(f, batches[i]) /\ AfterCursor(i, c)} IN
         /\ Range(view.items) \subseteq rest
         /\ view.next = NoCursor => rest \subseteq Range(view.items)
         /\ view.next # NoCursor =>
              \E last \in Range(view.items) :
                /\ view.next = CursorAt(last, f)
                /\ \A i \in Range(view.items) : i = last \/ Before(i, last)
                /\ \A i \in rest \ Range(view.items) : Before(last, i)
<1> DEFINE chosen == {i \in DOMAIN batches : Matches(f, batches[i]) /\ AfterCursor(i, c)}
           rest == Remaining(f, c)
           m == IF Len(rest) < limit THEN Len(rest) ELSE limit
           items == SubSeq(rest, 1, m)
           next == IF Len(items) < Len(rest) THEN CursorAt(Last(items), f) ELSE NoCursor
<1>1. /\ rest \in Seq(chosen) /\ Len(rest) \in Nat /\ DOMAIN rest = 1 .. Len(rest)
      /\ \A k, l \in 1 .. Len(rest) : k < l => Before(rest[k], rest[l])
      /\ \A i \in chosen : \E k \in 1 .. Len(rest) : rest[k] = i
  BY SnapshotInOrder DEF Remaining
<1>2. ListBatches(f, c, limit) = [items |-> items, next |-> next]
  BY DEF ListBatches
<1>3. limit \in Nat /\ limit > 0
  BY LimitsAssumption
<1> HIDE DEF rest
<1>4. m \in Nat /\ m <= Len(rest)
  BY <1>1, <1>3
<1>5. /\ Len(items) = m /\ DOMAIN items = 1 .. m
      /\ \A k \in 1 .. m : items[k] = rest[k]
  <2>1. /\ Len(items) = m
        /\ \A k \in 1 .. m : items[k] = rest[k]
        /\ items \in Seq(chosen)
    BY <1>1, <1>4, SubSeqProperties
  <2>2. QED
    BY <2>1
<1> HIDE DEF items
<1>6. Range(items) = {rest[k] : k \in 1 .. m}
  BY <1>5 DEF Range
<1>7. Range(items) \subseteq chosen
  <2>1. \A k \in 1 .. Len(rest) : rest[k] \in chosen
    BY <1>1, ElementOfSeq
  <2>2. QED
    BY <1>1, <1>4, <1>6, <2>1
<1>8. CASE m = Len(rest)
  <2>1. next = NoCursor
    BY <1>1, <1>5, <1>8
  <2>2. chosen \subseteq Range(items)
    BY <1>1, <1>6, <1>8
  <2>3. QED
    BY <1>2, <1>7, <2>1, <2>2
<1>9. CASE m # Len(rest)
  <2> DEFINE last == rest[m]
  <2>1. m \in 1 .. Len(rest) /\ m = limit
    BY <1>1, <1>3, <1>4, <1>9
  <2>2. next = CursorAt(last, f)
    BY <1>1, <1>4, <1>5, <1>9, <2>1 DEF Last
  <2>3. last \in Range(items)
    BY <1>6, <2>1
  <2>4. \A i \in Range(items) : i = last \/ Before(i, last)
    BY <1>1, <1>4, <1>6, <2>1
  <2>5. ASSUME NEW i \in chosen \ Range(items)
        PROVE  Before(last, i)
    <3>1. PICK k \in 1 .. Len(rest) : rest[k] = i
      BY <1>1
    <3>2. k \notin 1 .. m
      BY <1>6, <3>1
    <3>3. QED
      BY <1>1, <1>4, <2>1, <3>1, <3>2
  <2>6. next # NoCursor
    BY <2>2, CursorIsSomething
  <2>7. QED
    BY <1>2, <1>7, <2>2, <2>3, <2>4, <2>5, <2>6
<1>10. QED
  BY <1>8, <1>9

-----------------------------------------------------------------------------
(* The inductive invariant. *)

\* What the client holds stands for everything it has seen: the cursor is of a
\* batch it was shown last, and what it still has to be shown lies behind it.
Position ==
  phase = "paging" =>
    \E last \in DOMAIN batches :
      /\ cursor = CursorAt(last, filter)
      /\ \A i \in listed : i = last \/ Before(i, last)
      /\ \A i \in steady \ listed : Before(last, i)

QueueInv ==
  /\ QueueTypeOK
  /\ listed \subseteq DOMAIN batches
  /\ phase = "idle" => listed = {}
  /\ \A i \in steady : i \in DOMAIN batches /\ Matches(filter, batches[i])
  /\ Position
  /\ NothingSkipped

\* The queue at the start, whatever is in it.
LEMMA QueueInit == Init => QueueInv
<1> SUFFICES ASSUME Init PROVE QueueInv
  OBVIOUS
<1>1. PICK S \in SUBSET Ids :
        batches \in [S -> [createdAt : Times, station : Stations, status : {"draft"}]]
  BY DEF Init
<1>2. DOMAIN batches = S /\ batches \in [S -> Batch]
  BY <1>1 DEF Batch, Statuses
<1>3. filter \in Filters
  BY FiltersAssumption DEF Init
<1>4. QED
  BY <1>2, <1>3 DEF Init, QueueInv, QueueTypeOK, Position, NothingSkipped

\* Showing a page of what lies behind everything shown before.
LEMMA ShowPage ==
  ASSUME QueueInv, NEW f \in Filters, NEW c, NEW limit \in Limits,
         Show(ListBatches(f, c, limit)), filter' = f,
         \A i \in steady' : i \in DOMAIN batches /\ Matches(f, batches[i]),
         \A i \in steady' \ listed : AfterCursor(i, c),
         \A i \in listed, j \in DOMAIN batches : AfterCursor(j, c) => Before(i, j)
  PROVE  QueueInv' /\ \A i \in listed, j \in Range(page') : Before(i, j)
<1> DEFINE view == ListBatches(f, c, limit)
           rest == {i \in DOMAIN batches : Matches(f, batches[i]) /\ AfterCursor(i, c)}
<1>1. /\ Range(view.items) \subseteq rest
      /\ view.next = NoCursor => rest \subseteq Range(view.items)
      /\ view.next # NoCursor =>
           \E last \in Range(view.items) :
             /\ view.next = CursorAt(last, f)
             /\ \A i \in Range(view.items) : i = last \/ Before(i, last)
             /\ \A i \in rest \ Range(view.items) : Before(last, i)
  BY PageIsCut DEF QueueInv
<1> HIDE DEF view
<1>2. /\ batches' = batches /\ filter' = f /\ page' = view.items
      /\ listed' = listed \cup Range(view.items) /\ cursor' = view.next
      /\ phase' = IF view.next = NoCursor THEN "done" ELSE "paging"
  BY DEF Show, view
<1>3. \A i \in listed, j \in Range(view.items) : Before(i, j)
  BY <1>1
<1>4. \A i \in steady' \ listed' : i \in rest \ Range(view.items)
  BY <1>2
<1>5. Position'
  <2>1. SUFFICES ASSUME phase' = "paging"
                 PROVE  \E last \in DOMAIN batches :
                          /\ cursor' = CursorAt(last, f)
                          /\ \A i \in listed' : i = last \/ Before(i, last)
                          /\ \A i \in steady' \ listed' : Before(last, i)
    BY <1>2 DEF Position, CursorAt, Before
  <2>2. PICK last \in Range(view.items) :
          /\ view.next = CursorAt(last, f)
          /\ \A i \in Range(view.items) : i = last \/ Before(i, last)
          /\ \A i \in rest \ Range(view.items) : Before(last, i)
    BY <1>1, <1>2, <2>1
  <2>3. QED
    BY <1>1, <1>2, <1>3, <1>4, <2>2
<1>6. NothingSkipped'
  BY <1>1, <1>2, <1>4 DEF NothingSkipped
<1>7. QED
  BY <1>1, <1>2, <1>3, <1>5, <1>6 DEF QueueInv, QueueTypeOK

\* The first page is cut from everything that matches.
LEMMA FirstPageStep ==
  ASSUME QueueInv, NEW f \in Filters, NEW limit \in Limits, FirstPage(f, limit)
  PROVE  QueueInv' /\ \A i \in listed, j \in Range(page') : Before(i, j)
<1>1. listed = {} /\ filter' = f /\ Show(ListBatches(f, NoCursor, limit))
  BY DEF FirstPage, QueueInv
<1>2. steady' = {i \in DOMAIN batches : Matches(f, batches[i])}
  BY DEF FirstPage
<1>3. \A i \in steady' \ listed : AfterCursor(i, NoCursor)
  BY DEF AfterCursor
<1>4. QED
  BY <1>1, <1>2, <1>3, ShowPage

\* A later page is cut from what lies behind the cursor, which no command has
\* moved: creation times do not change.
LEMMA NextPageStep ==
  ASSUME QueueInv, NEW f \in Filters, NEW limit \in Limits, NextPage(f, limit)
  PROVE  QueueInv' /\ \A i \in listed, j \in Range(page') : Before(i, j)
<1>1. /\ phase = "paging" /\ Accepted(f, cursor) /\ Show(ListBatches(f, cursor, limit))
      /\ filter' = filter /\ steady' = steady
  BY DEF NextPage
<1>2. PICK last \in DOMAIN batches :
        /\ cursor = CursorAt(last, filter)
        /\ \A i \in listed : i = last \/ Before(i, last)
        /\ \A i \in steady \ listed : Before(last, i)
  BY <1>1 DEF QueueInv, Position
<1>3. f = filter
  <2>1. cursor # NoCursor /\ cursor.filterDigest = FilterDigest(filter)
    BY <1>2, CursorIsSomething DEF CursorAt
  <2>2. QED
    BY <1>1, <2>1, DigestIsFilter DEF Accepted, QueueInv, QueueTypeOK
<1>4. \A i \in steady' : i \in DOMAIN batches /\ Matches(f, batches[i])
  BY <1>1, <1>3 DEF QueueInv
<1>5. \A i \in DOMAIN batches : AfterCursor(i, cursor) <=> Before(last, i)
  BY <1>2, BehindCursor DEF QueueInv
<1>6. \A i \in steady' \ listed : AfterCursor(i, cursor)
  BY <1>1, <1>2, <1>4, <1>5
<1>7. \A i \in listed, j \in DOMAIN batches : AfterCursor(j, cursor) => Before(i, j)
  BY <1>2, <1>5, BeforeIsAnOrder DEF QueueInv
<1>8. QED
  BY <1>1, <1>3, <1>4, <1>6, <1>7, ShowPage

\* Commands of others keep the batches there are where they are in the queue.
LEMMA ChangeStep ==
  ASSUME QueueInv, NEW new, Change(new),
         DOMAIN new \in SUBSET Ids, new \in [DOMAIN new -> Batch],
         \A i \in DOMAIN batches : i \in DOMAIN new /\ new[i].createdAt = batches[i].createdAt
  PROVE  QueueInv'
<1>1. /\ batches' = new /\ steady' = {i \in steady : Matches(filter, new[i])}
      /\ UNCHANGED <<cursor, phase, filter, page, listed>>
  BY DEF Change
<1>2. \A i, j \in DOMAIN batches : Before(i, j)' <=> Before(i, j)
  BY <1>1 DEF Before
<1>3. Position'
  <2>1. SUFFICES ASSUME phase = "paging"
                 PROVE  \E last \in DOMAIN batches' :
                          /\ cursor' = CursorAt(last, filter)'
                          /\ \A i \in listed' : i = last \/ Before(i, last)'
                          /\ \A i \in steady' \ listed' : Before(last, i)'
    BY <1>1 DEF Position
  <2>2. PICK last \in DOMAIN batches :
          /\ cursor = CursorAt(last, filter)
          /\ \A i \in listed : i = last \/ Before(i, last)
          /\ \A i \in steady \ listed : Before(last, i)
    BY <2>1 DEF QueueInv, Position
  <2>3. cursor' = CursorAt(last, filter)'
    BY <1>1, <2>2 DEF CursorAt, FilterDigest
  <2>4. QED
    BY <1>1, <1>2, <2>2, <2>3 DEF QueueInv
<1>4. QED
  BY <1>1, <1>3 DEF QueueInv, QueueTypeOK, NothingSkipped

\* No step, of the client or of others, breaks the invariant.
LEMMA QueueNext == QueueInv /\ [Next]_vars => QueueInv'
<1> SUFFICES ASSUME QueueInv, [Next]_vars PROVE QueueInv'
  OBVIOUS
<1>1. CASE UNCHANGED vars
  BY <1>1 DEF vars, QueueInv, QueueTypeOK, Position, NothingSkipped, CursorAt, Before,
     FilterDigest
<1>2. CASE Turn
  BY <1>2, FirstPageStep, NextPageStep DEF Turn
<1>3. ASSUME NEW i \in Ids, NEW now \in Times, NEW station \in Stations,
             CreateBatch(i, now, station)
      PROVE  QueueInv'
  <2> DEFINE new == [j \in DOMAIN batches \cup {i} |->
                       IF j = i
                       THEN [createdAt |-> now, station |-> station, status |-> "draft"]
                       ELSE batches[j]]
  <2>1. i \notin DOMAIN batches /\ Change(new)
    BY <1>3 DEF CreateBatch
  <2>2. /\ DOMAIN new \in SUBSET Ids
        /\ new \in [DOMAIN new -> Batch]
        /\ \A j \in DOMAIN batches :
             j \in DOMAIN new /\ new[j].createdAt = batches[j].createdAt
    BY <2>1 DEF QueueInv, QueueTypeOK, Batch, Statuses
  <2> HIDE DEF new
  <2>3. QED
    BY <2>1, <2>2, ChangeStep
<1>4. ASSUME NEW i \in DOMAIN batches, NEW next \in Statuses, MoveTo(i, next)
      PROVE  QueueInv'
  <2> DEFINE new == [batches EXCEPT ![i].status = next]
  <2>1. Change(new)
    BY <1>4 DEF MoveTo
  <2>2. /\ DOMAIN new \in SUBSET Ids
        /\ new \in [DOMAIN new -> Batch]
        /\ \A j \in DOMAIN batches :
             j \in DOMAIN new /\ new[j].createdAt = batches[j].createdAt
    BY DEF QueueInv, QueueTypeOK, Batch
  <2> HIDE DEF new
  <2>3. QED
    BY <2>1, <2>2, ChangeStep
<1>5. QED
  BY <1>1, <1>2, <1>3, <1>4 DEF Next

-----------------------------------------------------------------------------
(* Theorems. *)

\* A batch that matches throughout a traversal is shown, whatever is created and
\* moves on between the pages.
THEOREM NothingIsSkipped == Spec => []NothingSkipped
<1>1. QueueInv => NothingSkipped
  BY DEF QueueInv
<1>2. QED
  BY <1>1, QueueInit, QueueNext, PTL DEF Spec

\* The pages of a traversal follow each other in the order of the queue, and no
\* batch is shown twice.
THEOREM PagesFollowTheOrder == Spec => PagesInOrder
<1>1. ASSUME QueueInv, [Next]_vars
      PROVE  [page' # page => \A i \in listed, j \in Range(page') : Before(i, j)]_vars
  <2>1. CASE Turn
    BY <1>1, <2>1, FirstPageStep, NextPageStep DEF Turn
  <2>2. CASE ~ Turn
    <3>1. page' = page
      BY <1>1, <2>2 DEF Next, CreateBatch, MoveTo, Change, vars
    <3>2. QED
      BY <3>1
  <2>3. QED
    BY <2>1, <2>2
<1>2. QED
  BY <1>1, QueueInit, QueueNext, PTL DEF Spec, PagesInOrder

=============================================================================
