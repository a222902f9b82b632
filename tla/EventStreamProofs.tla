------------------------- MODULE EventStreamProofs -------------------------
(***************************************************************************)
(* What a tab is shown: the proofs that it gets each row once and in       *)
(* order, that nothing is missing behind its cursor or lost ahead of it,   *)
(* that a tab opened late sees what one opened early saw, and that a first *)
(* connection misses no line.                                              *)
(***************************************************************************)
EXTENDS EventStream, FiniteSetTheorems, SequenceTheorems, WellFoundedInduction, TLAPS

----------------------------------------------------------------------------
(* Finite sets of numbers and their enumeration *)

\* A set of numbers that has a member has a least one.
LEMMA Least ==
    ASSUME NEW S \in SUBSET Nat, S # {}
    PROVE  \E i \in S : \A j \in S : i <= j
<1>1. IsWellFoundedOn(OpToRel(<, Nat), Nat)
  BY NatLessThanWellFounded
<1>2. PICK i \in S : \A j \in S : ~ (<<j, i>> \in OpToRel(<, Nat))
  BY <1>1, WFMin
<1>3. ASSUME NEW j \in S PROVE i <= j
  <2>1. ~ (j < i)
    BY <1>2 DEF OpToRel
  <2> QED BY <2>1
<1> QED BY <1>3

Sorts(s, S) ==
    /\ s \in [1 .. Cardinality(S) -> S]
    /\ \A k, m \in 1 .. Cardinality(S) : k < m => s[k] < s[m]
    /\ \A i \in S : \E k \in 1 .. Cardinality(S) : s[k] = i

\* Every finite set of numbers can be sorted: a smallest one that cannot would still
\* fail without its least member.
LEMMA Sortable ==
    ASSUME NEW S \in SUBSET Nat, IsFiniteSet(S)
    PROVE  \E s : Sorts(s, S)
<1> DEFINE unsortable(R) == IsFiniteSet(R) /\ ~ \E s : Sorts(s, R)
           sizes == {n \in Nat : \E R \in SUBSET Nat : Cardinality(R) = n /\ unsortable(R)}
<1>1. SUFFICES ASSUME sizes # {} PROVE FALSE
  <2>1. Cardinality(S) \in Nat
    BY FS_CardinalityType
  <2> QED BY <2>1
<1>2. PICK n \in sizes : \A m \in sizes : n <= m
  <2> HIDE DEF sizes
  <2>1. sizes \in SUBSET Nat
    BY DEF sizes
  <2> QED BY <1>1, <2>1, Least
<1>3. PICK R \in SUBSET Nat : Cardinality(R) = n /\ unsortable(R)
  OBVIOUS
<1>4. R # {}
  <2>1. SUFFICES ASSUME R = {} PROVE FALSE
    OBVIOUS
  <2>2. Cardinality(R) = 0
    BY <2>1, FS_EmptySet
  <2>3. Sorts([k \in {} |-> 0], R)
    BY <2>1, <2>2 DEF Sorts
  <2> QED BY <1>3, <2>3
<1>5. PICK l \in R : \A j \in R : l <= j
  BY <1>4, Least
<1>6. IsFiniteSet(R \ {l}) /\ Cardinality(R \ {l}) = n - 1 /\ n \in Nat /\ n - 1 \in Nat
  <2>1. IsFiniteSet(R \ {l}) /\ Cardinality(R \ {l}) = n - 1
    BY <1>3, <1>5, FS_RemoveElement
  <2>2. Cardinality(R \ {l}) \in Nat
    BY <2>1, FS_CardinalityType
  <2> QED BY <2>1, <2>2
<1>7. PICK s : Sorts(s, R \ {l})
  <2>1. n - 1 \notin sizes
    BY <1>2, <1>6
  <2> QED BY <1>6, <2>1
<1> DEFINE t == [k \in 1 .. n |-> IF k = 1 THEN l ELSE s[k - 1]]
<1>8. /\ s \in [1 .. (n - 1) -> R \ {l}]
      /\ \A k, m \in 1 .. (n - 1) : k < m => s[k] < s[m]
      /\ \A i \in R \ {l} : \E k \in 1 .. (n - 1) : s[k] = i
  BY <1>6, <1>7 DEF Sorts
<1>9. Sorts(t, R)
  <2>1. t \in [1 .. n -> R]
    BY <1>5, <1>6, <1>8
  <2>2. ASSUME NEW k \in 1 .. n, NEW m \in 1 .. n, k < m PROVE t[k] < t[m]
    <3>1. m - 1 \in 1 .. (n - 1) /\ t[m] = s[m - 1] /\ s[m - 1] \in R \ {l}
      BY <1>6, <1>8, <2>2
    <3>2. CASE k = 1
      <4>1. l <= s[m - 1] /\ l # s[m - 1] /\ l \in Nat /\ s[m - 1] \in Nat
        BY <1>5, <3>1
      <4>2. t[k] = l
        BY <3>2
      <4> QED BY <3>1, <4>1, <4>2
    <3>3. CASE k # 1
      <4>1. k - 1 \in 1 .. (n - 1) /\ t[k] = s[k - 1] /\ k - 1 < m - 1
        BY <1>6, <2>2, <3>3
      <4>2. s[k - 1] < s[m - 1]
        BY <1>8, <3>1, <4>1
      <4> QED BY <3>1, <4>1, <4>2
    <3> QED BY <3>2, <3>3
  <2>3. ASSUME NEW i \in R PROVE \E k \in 1 .. n : t[k] = i
    <3>1. CASE i = l
      <4>1. 1 \in 1 .. n /\ t[1] = l
        BY <1>6
      <4> QED BY <3>1, <4>1
    <3>2. CASE i # l
      <4>1. PICK k \in 1 .. (n - 1) : s[k] = i
        BY <1>8, <3>2
      <4>2. k + 1 \in 1 .. n /\ t[k + 1] = s[(k + 1) - 1] /\ (k + 1) - 1 = k
        BY <1>6
      <4>3. t[k + 1] = i
        BY <4>1, <4>2
      <4> QED BY <4>2, <4>3
    <3> QED BY <3>1, <3>2
  <2> HIDE DEF t
  <2> QED BY <1>3, <2>1, <2>2, <2>3 DEF Sorts
<1> QED BY <1>3, <1>9

LEMMA AscendingSorts ==
    ASSUME NEW S \in SUBSET Nat, IsFiniteSet(S)
    PROVE  /\ Sorts(Ascending(S), S)
           /\ Ascending(S) \in Seq(S)
           /\ DOMAIN Ascending(S) = 1 .. Len(Ascending(S))
           /\ Len(Ascending(S)) = Cardinality(S)
           /\ ToSet(Ascending(S)) = S
<1>1. Sorts(Ascending(S), S)
  <2> DEFINE F == [1 .. Cardinality(S) -> S]
             P(s) == /\ \A k, m \in 1 .. Cardinality(S) : k < m => s[k] < s[m]
                     /\ \A i \in S : \E k \in 1 .. Cardinality(S) : s[k] = i
  <2>1. \E s \in F : P(s)
    BY Sortable DEF Sorts
  <2>2. Ascending(S) = CHOOSE s \in F : P(s)
    BY DEF Ascending
  <2>3. Ascending(S) \in F /\ P(Ascending(S))
    <3> HIDE DEF F, P
    <3> QED BY <2>1, <2>2
  <2> QED BY <2>3 DEF Sorts
<1>2. Cardinality(S) \in Nat
  BY FS_CardinalityType
<1>3. Ascending(S) \in Seq(S) /\ Len(Ascending(S)) = Cardinality(S)
  <2> DEFINE s == Ascending(S)
  <2>1. s \in [1 .. Cardinality(S) -> S]
    BY <1>1 DEF Sorts
  <2> HIDE DEF s
  <2>2. s \in Seq(S) /\ Len(s) = Cardinality(S)
    BY <1>2, <2>1
  <2> QED BY <2>2 DEF s
<1>4. DOMAIN Ascending(S) = 1 .. Cardinality(S)
  BY <1>1 DEF Sorts
<1>5. ToSet(Ascending(S)) = S
  <2> DEFINE s == Ascending(S)
  <2>1. /\ \A k \in DOMAIN s : s[k] \in S
        /\ \A i \in S : \E k \in DOMAIN s : s[k] = i
    BY <1>1, <1>4 DEF Sorts
  <2> HIDE DEF s
  <2>2. ToSet(s) = S
    BY <2>1 DEF ToSet
  <2> QED BY <2>2 DEF s
<1> QED BY <1>1, <1>3, <1>4, <1>5

\* The first chunk leaves out nothing smaller than what is in it, and nothing at all
\* when it is not full.
LEMMA EarliestFirst ==
    ASSUME NEW rows \in SUBSET Nat, IsFiniteSet(rows)
    PROVE  /\ Earliest(rows) \subseteq rows
           /\ IsFiniteSet(Earliest(rows))
           /\ \A i \in rows, j \in Earliest(rows) : i < j => i \in Earliest(rows)
           /\ Cardinality(Earliest(rows)) < Chunk => Earliest(rows) = rows
<1> DEFINE before(i) == {j \in rows : j < i}
<1>1. Earliest(rows) \subseteq rows /\ IsFiniteSet(Earliest(rows))
  <2>1. Earliest(rows) \subseteq rows
    BY DEF Earliest
  <2> QED BY <2>1, FS_Subset
<1>2. \A i : IsFiniteSet(before(i)) /\ Cardinality(before(i)) \in Nat
  <2>1. \A i : before(i) \in SUBSET rows
    OBVIOUS
  <2> HIDE DEF before
  <2>2. \A i : IsFiniteSet(before(i))
    BY <2>1, FS_Subset
  <2> QED BY <2>2, FS_CardinalityType
<1>3. ASSUME NEW i \in rows, NEW j \in Earliest(rows), i < j
      PROVE  i \in Earliest(rows)
  <2>1. j \in rows /\ Cardinality(before(j)) < Chunk
    BY DEF Earliest
  <2>2. before(i) \in SUBSET before(j)
    <3>1. ASSUME NEW k \in rows, k < i PROVE k < j
      <4>1. i \in Nat /\ j \in Nat /\ k \in Nat
        BY <2>1
      <4> QED BY <1>3, <3>1, <4>1
    <3> QED BY <3>1
  <2>3. Cardinality(before(i)) <= Cardinality(before(j))
    <3> HIDE DEF before
    <3> QED BY <1>2, <2>2, FS_Subset
  <2>4. Cardinality(before(i)) < Chunk
    <3> HIDE DEF before
    <3> QED BY <1>2, <2>1, <2>3, EventStreamAssumption
  <2> QED BY <2>4 DEF Earliest
<1>4. ASSUME Cardinality(Earliest(rows)) < Chunk, Earliest(rows) # rows
      PROVE  FALSE
  <2>1. rows \ Earliest(rows) # {} /\ rows \ Earliest(rows) \in SUBSET Nat
    BY <1>1, <1>4
  <2>2. PICK i \in rows \ Earliest(rows) : \A j \in rows \ Earliest(rows) : i <= j
    BY <2>1, Least
  <2>3. before(i) \in SUBSET Earliest(rows)
    <3>1. ASSUME NEW k \in rows, k < i, k \notin Earliest(rows) PROVE FALSE
      <4>1. i \in Nat /\ k \in Nat /\ i <= k
        BY <2>2, <3>1
      <4> QED BY <3>1, <4>1
    <3> QED BY <3>1
  <2>4. Cardinality(before(i)) <= Cardinality(Earliest(rows))
    <3> HIDE DEF before
    <3> QED BY <1>1, <2>3, FS_Subset
  <2>5. Cardinality(Earliest(rows)) \in Nat
    BY <1>1, FS_CardinalityType
  <2>6. Cardinality(before(i)) < Chunk
    <3> HIDE DEF before
    <3> QED BY <1>2, <1>4, <2>4, <2>5, EventStreamAssumption
  <2>7. i \in Earliest(rows)
    BY <2>2, <2>6 DEF Earliest
  <2> QED BY <2>2, <2>7
<1> QED BY <1>1, <1>3, <1>4

----------------------------------------------------------------------------
\* What a queue holds: rows, and lines.
Items == {item \in [seq : Nat, line : Nat] : item.seq = 0 \/ item.line = 0}

Ends == [pc : {"off", "rows", "lines", "live"}, delivered : Nat, skip : Nat,
         queue : Seq(Items), dropped : BOOLEAN]

Tabs == [stream : {"run", "repo"}, cursor : Nat, lines : Nat, got : Seq(Nat),
         shown : Seq(Nat), swallowed : SUBSET Nat, first : BOOLEAN]

StreamTypes ==
    /\ log \in Seq(Names)
    /\ kept \subseteq DOMAIN log /\ late \subseteq DOMAIN log
    /\ \A i \in late : log[i] = {"repo"}
    /\ written \in Nat
    /\ over \in BOOLEAN
    /\ inserted \in late \cup {0}
    /\ calls \in Seq(Client \X Nat)
    /\ \A k \in DOMAIN calls : calls[k][2] \in late
    /\ server \in [Client -> Ends]
    /\ tab \in [Client -> Tabs]
    /\ faults \in Nat

\* While the run is in flight its rows are all there.
InFlightKept ==
    ~over => \A i \in DOMAIN log : "run" \in log[i] => i \in kept

\* What is on its way to a tab is for it.
CallsForThem ==
    \A k \in DOMAIN calls : calls[k][2] \in Wanted(calls[k][1])

\* A tab's rows are its own, in order and up to its cursor, which a stream's
\* agrees with; what is queued for it is for it.
Reads(c) ==
    /\ \A k, m \in DOMAIN tab[c].got : k < m => tab[c].got[k] < tab[c].got[m]
    /\ Got(c) \subseteq Wanted(c)
    /\ \A i \in Got(c) : i <= tab[c].cursor
    /\ tab[c].cursor \in DOMAIN log \cup {0}
    /\ Subscribed(c) => server[c].delivered = tab[c].cursor
    /\ Queued(c) \subseteq Wanted(c)
    /\ Len(server[c].queue) <= Limit

\* The rows of which a stream may lose none: they came in order.
Ordered(c) == ((Wanted(c) \cap kept) \ late) \ tab[c].swallowed

\* The n-th place in the queue holds something the replay has not sent.
Fresh(c, n) == ~Replayed(c, server[c].queue[n])

Past(c) == server[c].pc \in {"lines", "live"}

\* NoGap, for one tab, and what lies ahead of it
Behind(c) ==
    \A i \in Wanted(c) \cap kept :
        i <= tab[c].cursor => i \in Got(c) \cup late \cup tab[c].swallowed

OnTheWay(c, i) == i = inserted \/ \E k \in DOMAIN calls : calls[k] = <<c, i>>

Ahead(c) ==
    Past(c) => \A i \in Wanted(c) \cap kept : i > server[c].delivered =>
            i \in Queued(c) \/ OnTheWay(c, i) \/ server[c].dropped

\* A row that came in order and is not queued was dropped behind something that
\* will be sent: the notice goes out before the cursor passes it.
Announced(c) ==
    Past(c) => \A i \in Ordered(c) : i > server[c].delivered =>
            \/ i \in Queued(c)
            \/ server[c].dropped /\ \E k \in DOMAIN server[c].queue : Fresh(c, k)

\* Nor does the cursor jump over one: it is queued before what is beyond it.
Passed(c, m, i) ==
    \E k \in 1 .. (m - 1) :
        \/ server[c].queue[k].seq = i
        \/ server[c].dropped /\ Fresh(c, k)

InTurn(c) ==
    Past(c) => \A m \in DOMAIN server[c].queue : \A i \in Ordered(c) :
        server[c].delivered < i /\ i < server[c].queue[m].seq => Passed(c, m, i)

\* Before its first connection, and until that has read the transcript, a tab has
\* counted no lines.
Uncounted(c) ==
    tab[c].first =>
        /\ ~Subscribed(c) => tab[c].lines = 0
        /\ server[c].pc \in {"rows", "lines"} => server[c].skip = 0

Lines(c) ==
    tab[c].stream = "run" /\ tab[c].first /\ server[c].pc = "live" =>
        \/ server[c].dropped
        \/ 1 .. written \subseteq ToSet(tab[c].shown) \cup QueuedLines(c)

Follows(c) ==
    Reads(c) /\ Behind(c) /\ Ahead(c) /\ Announced(c) /\ InTurn(c)

Shared == StreamTypes /\ InFlightKept /\ CallsForThem

IInv ==
    /\ Shared
    /\ \A c \in Client : Follows(c) /\ Uncounted(c) /\ Lines(c)
----------------------------------------------------------------------------
(* What the operators of the streams do *)

\* The rows a replay from the cursor has to send.
Awaited(c, cursor) == {i \in kept : i > cursor /\ Wants(c, log[i])}

\* A batch is in order and comes before all it leaves for the next one.
LEMMA SinceFacts ==
    ASSUME StreamTypes, NEW c \in Client, NEW cursor \in Nat, NEW b,
           b = Since(c, cursor)
    PROVE  /\ b \in Seq(Nat) /\ DOMAIN b = 1 .. Len(b) /\ Len(b) \in Nat
           /\ \A k, m \in DOMAIN b : k < m => b[k] < b[m]
           /\ ToSet(b) \subseteq Awaited(c, cursor)
           /\ \A i \in Awaited(c, cursor), j \in ToSet(b) : i < j => i \in ToSet(b)
           /\ Len(b) < Chunk => ToSet(b) = Awaited(c, cursor)
<1> DEFINE rows == Awaited(c, cursor)
<1>1. DOMAIN log = 1 .. Len(log) /\ Len(log) \in Nat
  BY DEF StreamTypes
<1>2. rows \in SUBSET DOMAIN log /\ rows \in SUBSET Nat
  BY <1>1 DEF StreamTypes, Awaited
<1>3. IsFiniteSet(rows)
  <2>1. IsFiniteSet(DOMAIN log)
    BY <1>1, FS_Interval
  <2> HIDE DEF rows
  <2> QED BY <1>2, <2>1, FS_Subset
<1>4. b = Ascending(Earliest(rows))
  BY DEF Since, Awaited
<1> HIDE DEF rows
<1>5. /\ Earliest(rows) \in SUBSET rows
      /\ Earliest(rows) \in SUBSET Nat
      /\ IsFiniteSet(Earliest(rows))
      /\ \A i \in rows, j \in Earliest(rows) : i < j => i \in Earliest(rows)
      /\ Cardinality(Earliest(rows)) < Chunk => Earliest(rows) = rows
  BY <1>2, <1>3, EarliestFirst
<1>6. /\ Sorts(b, Earliest(rows))
      /\ b \in Seq(Earliest(rows))
      /\ DOMAIN b = 1 .. Len(b)
      /\ Len(b) = Cardinality(Earliest(rows))
      /\ ToSet(b) = Earliest(rows)
  BY <1>4, <1>5, AscendingSorts
<1>7. b \in Seq(Nat) /\ Len(b) \in Nat
  BY <1>5, <1>6
<1>8. \A k, m \in DOMAIN b : k < m => b[k] < b[m]
  BY <1>6 DEF Sorts
<1> QED BY <1>5, <1>6, <1>7, <1>8 DEF rows

\* Taking rows, or lines, changes what was taken and its cursor only.
LEMMA RowsTaken ==
    ASSUME NEW t \in Tabs, NEW rows \in Seq(Nat), NEW u, u = GetRows(t, rows)
    PROVE  /\ u \in Tabs
           /\ u.stream = t.stream /\ u.lines = t.lines /\ u.shown = t.shown
           /\ u.swallowed = t.swallowed /\ u.first = t.first
           /\ u.got = t.got \o rows
           /\ Len(rows) = 0 => u.cursor = t.cursor
           /\ Len(rows) > 0 /\ Last(rows) > t.cursor => u.cursor = Last(rows)
<1> DEFINE more == t.got \o rows
           to == IF rows = <<>> \/ Last(rows) < t.cursor THEN t.cursor ELSE Last(rows)
<1>1. Len(rows) \in Nat /\ (rows = <<>> <=> Len(rows) = 0)
  OBVIOUS
<1>2. Len(rows) > 0 => Last(rows) \in Nat
  BY <1>1 DEF Last
<1>3. more \in Seq(Nat) /\ t.cursor \in Nat
  BY DEF Tabs
<1>4. /\ to \in Nat
      /\ Len(rows) = 0 => to = t.cursor
      /\ Len(rows) > 0 /\ Last(rows) > t.cursor => to = Last(rows)
  <2>1. Len(rows) > 0 => rows # <<>>
    BY <1>1
  <2> QED BY <1>1, <1>2, <1>3, <2>1
<1>5. u = [t EXCEPT !.got = more, !.cursor = to]
  BY DEF GetRows
<1> HIDE DEF more, to
<1>6. /\ u \in Tabs
      /\ u.stream = t.stream /\ u.lines = t.lines /\ u.shown = t.shown
      /\ u.swallowed = t.swallowed /\ u.first = t.first
      /\ u.got = more /\ u.cursor = to
  BY <1>3, <1>4, <1>5 DEF Tabs
<1> QED BY <1>4, <1>6 DEF more

LEMMA LinesTaken ==
    ASSUME NEW t \in Tabs, NEW lines \in Seq(Nat), NEW u, u = GetLines(t, lines)
    PROVE  /\ u \in Tabs
           /\ u.stream = t.stream /\ u.cursor = t.cursor /\ u.got = t.got
           /\ u.swallowed = t.swallowed /\ u.first = t.first
           /\ u.shown = t.shown \o lines
           /\ u.lines = t.lines + Len(lines)
<1>1. Len(lines) \in Nat /\ t.shown \o lines \in Seq(Nat) /\ t.lines + Len(lines) \in Nat
  BY DEF Tabs
<1> QED BY <1>1 DEF GetLines, Tabs

LEMMA ItemTaken ==
    ASSUME NEW t \in Tabs, NEW item \in Items, NEW u, u = GetItem(t, item)
    PROVE  /\ u \in Tabs
           /\ u.stream = t.stream /\ u.swallowed = t.swallowed /\ u.first = t.first
           /\ item.seq > 0 => /\ u.got = t.got \o <<item.seq>>
                              /\ item.seq > t.cursor => u.cursor = item.seq
                              /\ u.lines = t.lines /\ u.shown = t.shown
           /\ item.seq = 0 => /\ u.got = t.got /\ u.cursor = t.cursor
                              /\ u.shown = t.shown \o <<item.line>>
<1>1. item.seq \in Nat /\ item.line \in Nat
  BY DEF Items
<1>2. CASE item.seq > 0
  <2> DEFINE one == <<item.seq>>
  <2>1. u = GetRows(t, one) /\ one \in Seq(Nat)
    BY <1>1, <1>2 DEF GetItem
  <2>2. Len(one) > 0 /\ Last(one) = item.seq
    BY <1>1 DEF Last
  <2> HIDE DEF one
  <2>3. /\ u \in Tabs
        /\ u.stream = t.stream /\ u.lines = t.lines /\ u.shown = t.shown
        /\ u.swallowed = t.swallowed /\ u.first = t.first
        /\ u.got = t.got \o one
        /\ Last(one) > t.cursor => u.cursor = Last(one)
    BY ZenonT(40), <2>1, <2>2, RowsTaken
  <2> QED BY <1>2, <2>2, <2>3 DEF one
<1>3. CASE item.seq = 0
  <2> DEFINE one == <<item.line>>
  <2>1. u = GetLines(t, one) /\ one \in Seq(Nat)
    BY <1>1, <1>3 DEF GetItem
  <2> HIDE DEF one
  <2>2. /\ u \in Tabs
        /\ u.stream = t.stream /\ u.cursor = t.cursor /\ u.got = t.got
        /\ u.swallowed = t.swallowed /\ u.first = t.first
        /\ u.shown = t.shown \o one
    BY ZenonT(40), <2>1, LinesTaken
  <2> QED BY <1>3, <2>2 DEF one
<1> QED BY <1>1, <1>2, <1>3

LEMMA ItemsMade ==
    \A n \in Nat : RowItem(n) \in Items /\ LineItem(n) \in Items
                   /\ RowItem(n).seq = n /\ LineItem(n).seq = 0
                   /\ RowItem(n).line = 0 /\ LineItem(n).line = n
BY DEF RowItem, LineItem, Items

\* An offer adds the item to the queue or notes that it did not.
LEMMA OfferMade ==
    ASSUME StreamTypes, NEW c \in Client, NEW item \in Items, NEW s, s = Offered(c, item)
    PROVE  /\ s \in Ends
           /\ Len(server[c].queue) < Limit =>
                s.queue = Append(server[c].queue, item) /\ s.dropped = server[c].dropped
           /\ Len(server[c].queue) >= Limit =>
                s.queue = server[c].queue /\ s.dropped = TRUE
<1>1. server[c] \in Ends
  BY DEF StreamTypes
<1>2. Append(server[c].queue, item) \in Seq(Items) /\ Len(server[c].queue) \in Nat
  BY <1>1 DEF Ends
<1>3. CASE Len(server[c].queue) < Limit
  <2> DEFINE longer == Append(server[c].queue, item)
  <2>1. s = [server[c] EXCEPT !.queue = longer]
    BY <1>3 DEF Offered
  <2>2. longer \in Seq(Items)
    BY <1>2
  <2> HIDE DEF longer
  <2>3. /\ s \in Ends /\ s.queue = longer
        /\ s.dropped = server[c].dropped
    BY <1>1, <2>1, <2>2 DEF Ends
  <2>4. ~ (Len(server[c].queue) >= Limit)
    BY <1>2, <1>3, EventStreamAssumption
  <2> QED BY <2>3, <2>4 DEF longer
<1>4. CASE ~ (Len(server[c].queue) < Limit)
  <2>1. s = [server[c] EXCEPT !.dropped = TRUE]
    BY <1>4 DEF Offered
  <2> QED BY <1>1, <1>4, <2>1 DEF Ends
<1> QED BY <1>3, <1>4

LEMMA OfferLeaves ==
    ASSUME StreamTypes, NEW c \in Client, NEW item, NEW s, s = Offered(c, item)
    PROVE  /\ s.pc = server[c].pc /\ s.delivered = server[c].delivered
           /\ s.skip = server[c].skip
<1>1. server[c] \in Ends
  BY DEF StreamTypes
<1> QED BY <1>1 DEF Offered, Ends

LEMMA OfferTypes ==
    ASSUME StreamTypes, NEW S \in SUBSET Client, NEW item \in Items, Offer(S, item)
    PROVE  server' \in [Client -> Ends] /\ tab' \in [Client -> Tabs]
<1>1. server' \in [Client -> Ends]
  <2>1. \A c \in Client : Offered(c, item) \in Ends
    BY OfferMade
  <2>2. \A c \in Client : server[c] \in Ends
    BY DEF StreamTypes
  <2> QED BY <2>1, <2>2 DEF Offer
<1>2. ASSUME NEW c \in Client
      PROVE  [tab[c] EXCEPT !.swallowed = @ \cup {item.seq}] \in Tabs /\ tab[c] \in Tabs
  <2>1. tab[c] \in Tabs
    BY DEF StreamTypes
  <2>2. item.seq \in Nat
    BY DEF Items
  <2>3. tab[c].swallowed \cup {item.seq} \in SUBSET Nat
    BY <2>1, <2>2 DEF Tabs
  <2> QED BY <2>1, <2>3 DEF Tabs
<1>3. tab' \in [Client -> Tabs]
  BY <1>2 DEF Offer
<1> QED BY <1>1, <1>3

\* The calls that are left are those for the others.
LEMMA OthersCalls ==
    ASSUME StreamTypes, NEW c \in Client, NEW others, others = CallsWithout(c)
    PROVE  /\ others \in Seq(Client \X Nat)
           /\ \A k \in DOMAIN others : \E m \in DOMAIN calls : others[k] = calls[m]
           /\ \A m \in DOMAIN calls : calls[m][1] # c =>
                \E k \in DOMAIN others : others[k] = calls[m]
<1> DEFINE places == {k \in DOMAIN calls : calls[k][1] # c}
           ks == Ascending(places)
<1>1. calls \in Seq(Client \X Nat) /\ DOMAIN calls = 1 .. Len(calls) /\ Len(calls) \in Nat
  BY DEF StreamTypes
<1>2. places \in SUBSET DOMAIN calls /\ places \in SUBSET Nat
  BY <1>1
<1>3. IsFiniteSet(places)
  <2>1. IsFiniteSet(DOMAIN calls)
    BY <1>1, FS_Interval
  <2> HIDE DEF places
  <2> QED BY <1>2, <2>1, FS_Subset
<1>4. /\ ks \in Seq(places) /\ DOMAIN ks = 1 .. Len(ks) /\ Len(ks) \in Nat
      /\ ToSet(ks) = places
  <2> HIDE DEF places
  <2>1. ks \in Seq(places) /\ DOMAIN ks = 1 .. Len(ks) /\ ToSet(ks) = places
    BY <1>2, <1>3, AscendingSorts
  <2> HIDE DEF ks
  <2> QED BY <2>1
<1>5. others = [k \in DOMAIN ks |-> calls[ks[k]]]
  BY DEF CallsWithout
<1> HIDE DEF ks
<1>6. \A k \in DOMAIN ks : ks[k] \in places
  BY <1>4
<1>7. others \in [1 .. Len(ks) -> Client \X Nat] /\ DOMAIN others = DOMAIN ks
  <2>1. \A k \in DOMAIN ks : calls[ks[k]] \in Client \X Nat
    BY <1>1, <1>2, <1>6
  <2> QED BY <1>4, <1>5, <2>1
<1>8. others \in Seq(Client \X Nat)
  BY <1>4, <1>7
<1>9. \A k \in DOMAIN others : \E m \in DOMAIN calls : others[k] = calls[m]
  BY <1>2, <1>5, <1>6, <1>7
<1>10. ASSUME NEW m \in DOMAIN calls, calls[m][1] # c
       PROVE  \E k \in DOMAIN others : others[k] = calls[m]
  <2>1. m \in ToSet(ks)
    BY <1>4, <1>10
  <2>2. PICK k \in DOMAIN ks : ks[k] = m
    BY <2>1 DEF ToSet
  <2> QED BY <1>5, <1>7, <2>2
<1> QED BY <1>8, <1>9, <1>10

\* A frame of the replay shows the tab all there is up to its cursor, and all there
\* is when it is the last.
LEMMA BatchSent ==
    ASSUME StreamTypes, NEW c \in Client, NEW s \in Ends,
           s.delivered = tab[c].cursor, SendBatch(c, s)
    PROVE  /\ server' \in [Client -> Ends] /\ tab' \in [Client -> Tabs]
           /\ \A d \in Client \ {c} : server'[d] = server[d] /\ tab'[d] = tab[d]
           /\ server'[c].pc \in {"rows", "lines"}
           /\ server'[c].skip = s.skip
           /\ server'[c].queue = s.queue /\ server'[c].dropped = s.dropped
           /\ server'[c].delivered = tab'[c].cursor
           /\ tab'[c].stream = tab[c].stream /\ tab'[c].lines = tab[c].lines
           /\ tab'[c].swallowed = tab[c].swallowed /\ tab'[c].first = tab[c].first
           /\ tab'[c].cursor >= tab[c].cursor
           /\ \E b \in Seq(Nat) :
                /\ tab'[c].got = tab[c].got \o b
                /\ \A k, m \in DOMAIN b : k < m => b[k] < b[m]
                /\ ToSet(b) \subseteq Awaited(c, tab[c].cursor)
                /\ tab'[c].cursor \in ToSet(b) \cup {tab[c].cursor}
                /\ \A i \in ToSet(b) : i <= tab'[c].cursor
                /\ \A i \in Awaited(c, tab[c].cursor) :
                     i <= tab'[c].cursor \/ server'[c].pc = "lines" => i \in ToSet(b)
<1> DEFINE b == Since(c, s.delivered)
<1>1. /\ server[c] \in Ends /\ tab[c] \in Tabs /\ tab[c].cursor \in Nat
      /\ server \in [Client -> Ends] /\ tab \in [Client -> Tabs]
  BY DEF StreamTypes, Tabs
<1>2. /\ b \in Seq(Nat) /\ DOMAIN b = 1 .. Len(b) /\ Len(b) \in Nat
      /\ \A k, m \in DOMAIN b : k < m => b[k] < b[m]
      /\ ToSet(b) \subseteq Awaited(c, tab[c].cursor)
      /\ \A i \in Awaited(c, tab[c].cursor), j \in ToSet(b) : i < j => i \in ToSet(b)
      /\ Len(b) < Chunk => ToSet(b) = Awaited(c, tab[c].cursor)
  <2> HIDE DEF b
  <2> QED BY <1>1, SinceFacts DEF b
<1> DEFINE pc == IF Len(b) < Chunk THEN "lines" ELSE "rows"
           to == IF b = <<>> THEN s.delivered ELSE Last(b)
<1>3. /\ server' = [server EXCEPT ![c] = [s EXCEPT !.pc = pc, !.delivered = to]]
      /\ tab' = [tab EXCEPT ![c] = GetRows(tab[c], b)]
  BY DEF SendBatch
<1> HIDE DEF b
<1>4. b # <<>> => /\ Last(b) \in ToSet(b) /\ Last(b) \in Nat /\ Last(b) > tab[c].cursor
                  /\ \A i \in ToSet(b) : i <= Last(b)
  <2> SUFFICES ASSUME b # <<>>
               PROVE  /\ Last(b) \in ToSet(b) /\ Last(b) \in Nat /\ Last(b) > tab[c].cursor
                      /\ \A i \in ToSet(b) : i <= Last(b)
    OBVIOUS
  <2>1. Len(b) \in DOMAIN b /\ Last(b) = b[Len(b)] /\ b[Len(b)] \in Nat
    BY <1>2 DEF Last
  <2>2. Last(b) \in ToSet(b)
    BY <2>1 DEF ToSet
  <2>3. ASSUME NEW i \in ToSet(b) PROVE i <= Last(b)
    <3>1. PICK k \in DOMAIN b : i = b[k]
      BY DEF ToSet
    <3>2. b[k] \in Nat
      BY <1>2
    <3>3. k = Len(b) \/ k < Len(b)
      BY <1>2
    <3> QED BY <1>2, <2>1, <3>1, <3>2, <3>3
  <2> QED BY <1>2, <2>1, <2>2, <2>3 DEF Awaited
<1>5. to \in Nat /\ to >= tab[c].cursor /\ to \in ToSet(b) \cup {tab[c].cursor}
  BY <1>1, <1>4
<1>6. \A i \in ToSet(b) : i <= to
  <2>1. b = <<>> => ToSet(b) = {}
    BY DEF ToSet
  <2> QED BY <1>4, <2>1
<1>7. tab'[c] = GetRows(tab[c], b) /\ server'[c] = [s EXCEPT !.pc = pc, !.delivered = to]
  BY <1>1, <1>3
<1>8. /\ tab'[c] \in Tabs
      /\ tab'[c].stream = tab[c].stream /\ tab'[c].lines = tab[c].lines
      /\ tab'[c].swallowed = tab[c].swallowed /\ tab'[c].first = tab[c].first
      /\ tab'[c].got = tab[c].got \o b
      /\ tab'[c].cursor = to
  <2>1. tab[c] \in Tabs /\ b \in Seq(Nat) /\ tab'[c] = GetRows(tab[c], b)
    BY <1>1, <1>2, <1>7
  <2>2. /\ tab'[c] \in Tabs
        /\ tab'[c].stream = tab[c].stream /\ tab'[c].lines = tab[c].lines
        /\ tab'[c].swallowed = tab[c].swallowed /\ tab'[c].first = tab[c].first
        /\ tab'[c].got = tab[c].got \o b
        /\ Len(b) = 0 => tab'[c].cursor = tab[c].cursor
        /\ Len(b) > 0 /\ Last(b) > tab[c].cursor => tab'[c].cursor = Last(b)
    <3>1. tab'[c] \in Tabs
      BY <2>1, RowsTaken
    <3>2. tab'[c].stream = tab[c].stream /\ tab'[c].lines = tab[c].lines
      BY <2>1, RowsTaken
    <3>3. tab'[c].got = tab[c].got \o b
      BY <2>1, RowsTaken
    <3>4. Len(b) = 0 => tab'[c].cursor = tab[c].cursor
      BY ZenonT(40), <2>1, RowsTaken
    <3>5. Len(b) > 0 /\ Last(b) > tab[c].cursor => tab'[c].cursor = Last(b)
      BY <2>1, RowsTaken
    <3>6. tab'[c].swallowed = tab[c].swallowed /\ tab'[c].first = tab[c].first
      BY <2>1, RowsTaken
    <3> QED BY <3>1, <3>2, <3>3, <3>4, <3>5, <3>6
  <2>3. b # <<>> <=> Len(b) > 0
    BY <1>2
  <2> QED BY <1>2, <1>4, <2>2, <2>3
<1> HIDE DEF to, pc
<1>9. /\ server'[c] \in Ends
      /\ server'[c].pc = pc /\ server'[c].delivered = to /\ server'[c].skip = s.skip
      /\ server'[c].queue = s.queue /\ server'[c].dropped = s.dropped
  <2>1. pc \in {"rows", "lines"}
    BY DEF pc
  <2> QED BY <1>5, <1>7, <2>1 DEF Ends
<1>10. \A i \in Awaited(c, tab[c].cursor) :
          i <= to \/ server'[c].pc = "lines" => i \in ToSet(b)
  <2>1. ASSUME NEW i \in Awaited(c, tab[c].cursor), i <= to PROVE i \in ToSet(b)
    <3>1. i > tab[c].cursor /\ i \in Nat
      BY DEF Awaited, StreamTypes
    <3>2. to \in ToSet(b)
      BY <1>1, <1>5, <2>1, <3>1
    <3> QED BY <1>2, <1>5, <2>1, <3>1, <3>2
  <2>2. server'[c].pc = "lines" => ToSet(b) = Awaited(c, tab[c].cursor)
    BY <1>2, <1>9 DEF pc
  <2> QED BY <2>1, <2>2
<1>11. server' \in [Client -> Ends] /\ tab' \in [Client -> Tabs]
  BY <1>1, <1>3, <1>7, <1>8, <1>9
<1>12. \A d \in Client \ {c} : server'[d] = server[d] /\ tab'[d] = tab[d]
  BY <1>1, <1>3
<1>13. server'[c].pc \in {"rows", "lines"}
  BY <1>9 DEF pc
<1>14. \E x \in Seq(Nat) :
                /\ tab'[c].got = tab[c].got \o x
                /\ \A k, m \in DOMAIN x : k < m => x[k] < x[m]
                /\ ToSet(x) \subseteq Awaited(c, tab[c].cursor)
                /\ tab'[c].cursor \in ToSet(x) \cup {tab[c].cursor}
                /\ \A i \in ToSet(x) : i <= tab'[c].cursor
                /\ \A i \in Awaited(c, tab[c].cursor) :
                     i <= tab'[c].cursor \/ server'[c].pc = "lines" => i \in ToSet(x)
  <2>1. b \in Seq(Nat)
    BY <1>2
  <2> WITNESS b \in Seq(Nat)
  <2> QED BY <1>2, <1>5, <1>6, <1>8, <1>10
<1> QED BY <1>5, <1>8, <1>9, <1>11, <1>12, <1>13, <1>14

LEMMA HeadAndTail ==
    ASSUME NEW q \in Seq(Items), q # <<>>
    PROVE  /\ Head(q) \in Items /\ Head(q) = q[1]
           /\ Tail(q) \in Seq(Items)
           /\ Len(q) \in Nat /\ Len(q) > 0 /\ DOMAIN q = 1 .. Len(q)
           /\ DOMAIN Tail(q) = 1 .. (Len(q) - 1)
           /\ \A k \in DOMAIN Tail(q) : Tail(q)[k] = q[k + 1] /\ k + 1 \in DOMAIN q
OBVIOUS

\* A new row comes after all the others.
LEMMA Inserted ==
    ASSUME StreamTypes, NEW names \in Names, Insert(names)
    PROVE  /\ log' \in Seq(Names)
           /\ DOMAIN log = 1 .. Len(log) /\ Len(log) + 1 \notin DOMAIN log
           /\ DOMAIN log' = DOMAIN log \cup {Len(log) + 1}
           /\ \A i \in DOMAIN log : log'[i] = log[i]
           /\ log'[Len(log) + 1] = names
           /\ kept' = kept \cup {Len(log) + 1}
           /\ Len(log) + 1 \in Nat /\ Len(log) + 1 > 0
<1>1. log \in Seq(Names) /\ log' = Append(log, names) /\ kept' = kept \cup {Len(log) + 1}
  BY DEF StreamTypes, Insert
<1> QED BY <1>1

\* What every step leaves alone of the rows and the tabs.
Grows ==
    /\ DOMAIN log \subseteq DOMAIN log'
    /\ \A i \in DOMAIN log : log'[i] = log[i]
    /\ kept' \cap DOMAIN log \subseteq kept
    /\ kept' \subseteq kept \cup {Len(log) + 1}
    /\ late \subseteq late'
    /\ late' \cap DOMAIN log \subseteq late
    /\ \A c \in Client : tab'[c].stream = tab[c].stream

LEMMA WantedGrows ==
    ASSUME Grows, NEW c \in Client
    PROVE  Wanted(c) \subseteq Wanted(c)' /\ Wanted(c)' \cap DOMAIN log \subseteq Wanted(c)
BY DEF Grows, Wanted, Wants

LEMMA CallsStay ==
    ASSUME Shared, Grows,
           \A k \in DOMAIN calls' : \E m \in DOMAIN calls : calls'[k] = calls[m]
    PROVE  CallsForThem'
<1>1. ASSUME NEW k \in DOMAIN calls' PROVE (calls[k][2] \in Wanted(calls[k][1]))'
  <2>1. PICK m \in DOMAIN calls : calls'[k] = calls[m]
    OBVIOUS
  <2>2. PICK c \in Client : c = calls[m][1]
    BY DEF Shared, StreamTypes
  <2>3. calls[m][2] \in Wanted(c)'
    BY <2>2, WantedGrows DEF Shared, CallsForThem
  <2> QED BY <2>1, <2>2, <2>3
<1> QED BY <1>1 DEF CallsForThem

LEMMA SharedAfterEmit ==
    ASSUME Shared, NEW names \in Names, Emit(names)
    PROVE  Shared' /\ Grows
<1> DEFINE n == Len(log) + 1
           S == {c \in Client : Subscribed(c) /\ Wants(c, names)}
<1>1. StreamTypes /\ InFlightKept /\ CallsForThem
  BY DEF Shared
<1>2. /\ log' \in Seq(Names) /\ DOMAIN log' = DOMAIN log \cup {n} /\ n \notin DOMAIN log
      /\ \A i \in DOMAIN log : log'[i] = log[i]
      /\ log'[n] = names /\ kept' = kept \cup {n} /\ n \in Nat
  BY <1>1, Inserted DEF Emit
<1>3. Offer(S, RowItem(n)) /\ RowItem(n) \in Items
  BY <1>2, ItemsMade DEF Emit
<1>4. server' \in [Client -> Ends] /\ tab' \in [Client -> Tabs]
  <2> HIDE DEF S, n
  <2>1. S \in SUBSET Client
    BY DEF S
  <2> QED BY <1>1, <1>3, <2>1, OfferTypes
<1>5. \A c \in Client : tab'[c].stream = tab[c].stream
  BY <1>1, <1>3 DEF Offer, StreamTypes, Tabs
<1>6. UNCHANGED <<late, written, over, inserted, calls, faults>>
  BY DEF Emit
<1> HIDE DEF n, S
<1>7. StreamTypes'
  BY <1>1, <1>2, <1>4, <1>6 DEF StreamTypes
<1>8. InFlightKept'
  BY <1>1, <1>2, <1>6 DEF InFlightKept
<1>9. Grows
  BY <1>2, <1>5, <1>6 DEF Grows, n
<1>10. CallsForThem'
  BY <1>6, <1>9, CallsStay
<1> QED BY <1>7, <1>8, <1>9, <1>10 DEF Shared

LEMMA SharedAfterEmitInThread ==
    ASSUME Shared, EmitInThread
    PROVE  Shared' /\ Grows
<1> DEFINE n == Len(log) + 1
<1>1. StreamTypes /\ InFlightKept /\ CallsForThem
  BY DEF Shared
<1>2. /\ log' \in Seq(Names) /\ DOMAIN log' = DOMAIN log \cup {n} /\ n \notin DOMAIN log
      /\ \A i \in DOMAIN log : log'[i] = log[i]
      /\ log'[n] = {"repo"} /\ kept' = kept \cup {n} /\ n \in Nat
  <2>1. {"repo"} \in Names
    BY DEF Names
  <2> QED BY <1>1, <2>1, Inserted DEF EmitInThread
<1>3. /\ late' = late \cup {n} /\ inserted' = n
      /\ UNCHANGED <<written, over, calls, server, tab, faults>>
  BY DEF EmitInThread
<1> HIDE DEF n
<1>4. StreamTypes'
  BY <1>1, <1>2, <1>3 DEF StreamTypes
<1>5. InFlightKept'
  BY <1>1, <1>2, <1>3 DEF InFlightKept
<1>6. Grows
  BY <1>1, <1>2, <1>3 DEF Grows, n
<1>7. CallsForThem'
  BY <1>3, <1>6, CallsStay
<1> QED BY <1>4, <1>5, <1>6, <1>7 DEF Shared

\* The calls for one row: one for each subscription to the repository.
LEMMA CallsAdded ==
    ASSUME StreamTypes, FanOut
    PROVE  /\ calls' \in Seq(Client \X Nat)
           /\ DOMAIN calls \subseteq DOMAIN calls'
           /\ \A k \in DOMAIN calls : calls'[k] = calls[k]
           /\ \A k \in DOMAIN calls' \ DOMAIN calls :
                calls'[k][2] = inserted /\ Wants(calls'[k][1], {"repo"})
           /\ \A c \in Client : Subscribed(c) /\ Wants(c, {"repo"}) =>
                \E k \in DOMAIN calls' : calls'[k] = <<c, inserted>>
<1> DEFINE subscribers == {d \in Client : Subscribed(d) /\ Wants(d, {"repo"})}
           news == {<<c, inserted>> : c \in subscribers}
           more == SetToSeq(news)
<1>1. calls \in Seq(Client \X Nat) /\ calls' = calls \o more
  BY DEF StreamTypes, FanOut
<1>2. inserted \in Nat
  BY DEF StreamTypes
<1>3. IsFiniteSet(news)
  <2>1. subscribers \in SUBSET Client
    OBVIOUS
  <2> HIDE DEF subscribers
  <2>2. IsFiniteSet(subscribers)
    BY <2>1, EventStreamAssumption, FS_Subset
  <2> DEFINE f == [c \in subscribers |-> <<c, inserted>>]
  <2>3. f \in Surjection(subscribers, news)
    BY DEF Surjection
  <2> HIDE DEF f, news
  <2> QED BY <2>2, <2>3, FS_Surjection
<1>4. more \in Seq(news) /\ ToSet(more) = news
  <2> HIDE DEF news
  <2>1. Cardinality(news) \in Nat /\ ExistsBijection(1 .. Cardinality(news), news)
    BY <1>3, FS_CardinalityType
  <2>2. PICK f \in Bijection(1 .. Cardinality(news), news) : TRUE
    BY <2>1 DEF ExistsBijection
  <2>3. f \in [1 .. Cardinality(news) -> news] /\ IsInjective(f)
    BY <2>2 DEF Bijection, Injection, IsInjective
  <2>4. more \in [1 .. Cardinality(news) -> news] /\ IsInjective(more)
    BY <2>3 DEF SetToSeq
  <2>5. more \in Injection(1 .. Cardinality(news), news)
    BY <2>4 DEF Injection, IsInjective
  <2>6. IsFiniteSet(1 .. Cardinality(news)) /\ Cardinality(1 .. Cardinality(news)) = Cardinality(news)
    BY <2>1, FS_Interval
  <2>7. more \in Surjection(1 .. Cardinality(news), news)
    BY <1>3, <2>5, <2>6, FS_Injection
  <2> HIDE DEF more
  <2>8. ToSet(more) = news
    BY <2>4, <2>7 DEF Surjection, ToSet
  <2>9. more \in Seq(news)
    BY <2>1, <2>4
  <2> QED BY <2>8, <2>9
<1> HIDE DEF more
<1>5. /\ Len(more) \in Nat /\ Len(calls) \in Nat /\ Len(calls') = Len(calls) + Len(more)
      /\ DOMAIN more = 1 .. Len(more) /\ DOMAIN calls = 1 .. Len(calls)
      /\ DOMAIN calls' = 1 .. (Len(calls) + Len(more))
      /\ \A k \in DOMAIN calls : calls'[k] = calls[k]
      /\ \A k \in DOMAIN more : calls'[Len(calls) + k] = more[k]
  <2> HIDE DEF news
  <2> QED BY <1>1, <1>4
<1>6. news \in SUBSET (Client \X Nat)
  BY <1>2
<1>7. calls' \in Seq(Client \X Nat)
  <2> HIDE DEF news
  <2>1. more \in Seq(Client \X Nat)
    BY <1>4, <1>6
  <2> QED BY <1>1, <2>1
<1>8. ASSUME NEW k \in DOMAIN calls' \ DOMAIN calls
      PROVE  calls'[k][2] = inserted /\ Wants(calls'[k][1], {"repo"})
  <2>1. k - Len(calls) \in DOMAIN more /\ k = Len(calls) + (k - Len(calls))
    BY <1>5
  <2>2. calls'[k] \in news
    <3> HIDE DEF news
    <3>1. more[k - Len(calls)] \in news
      BY <1>4, <2>1 DEF ToSet
    <3> QED BY <1>5, <2>1, <3>1
  <2> QED BY <2>2
<1>9. ASSUME NEW c \in Client, Subscribed(c), Wants(c, {"repo"})
      PROVE  \E k \in DOMAIN calls' : calls'[k] = <<c, inserted>>
  <2>1. <<c, inserted>> \in news
    BY <1>9
  <2> HIDE DEF news
  <2>2. PICK k \in DOMAIN more : more[k] = <<c, inserted>>
    BY <1>4, <2>1 DEF ToSet
  <2>3. Len(calls) + k \in DOMAIN calls' /\ calls'[Len(calls) + k] = more[k]
    BY <1>5
  <2> QED BY <2>2, <2>3
<1>10. DOMAIN calls \subseteq DOMAIN calls'
  BY <1>5
<1> QED BY <1>5, <1>7, <1>8, <1>9, <1>10

LEMMA SharedAfterFanOut ==
    ASSUME Shared, FanOut
    PROVE  Shared' /\ Grows
<1>1. StreamTypes /\ InFlightKept /\ CallsForThem
  BY DEF Shared
<1>2. /\ calls' \in Seq(Client \X Nat)
      /\ \A k \in DOMAIN calls : calls'[k] = calls[k]
      /\ \A k \in DOMAIN calls' \ DOMAIN calls :
           calls'[k][2] = inserted /\ Wants(calls'[k][1], {"repo"})
  BY <1>1, CallsAdded
<1>3. /\ inserted # 0 /\ inserted' = 0
      /\ UNCHANGED <<log, kept, late, written, over, server, tab, faults>>
  BY DEF FanOut
<1>4. inserted \in late /\ inserted \in DOMAIN log /\ log[inserted] = {"repo"}
  BY <1>1, <1>3 DEF StreamTypes
<1>5. StreamTypes'
  BY <1>1, <1>2, <1>3, <1>4 DEF StreamTypes
<1>6. InFlightKept'
  BY <1>1, <1>3 DEF InFlightKept
<1>7. CallsForThem'
  <2>1. ASSUME NEW k \in DOMAIN calls' PROVE (calls[k][2] \in Wanted(calls[k][1]))'
    <3>1. CASE k \in DOMAIN calls
      BY <1>1, <1>2, <1>3, <3>1 DEF CallsForThem, Wanted, Wants
    <3>2. CASE k \notin DOMAIN calls
      BY <1>2, <1>3, <1>4, <3>2 DEF Wanted, Wants
    <3> QED BY <3>1, <3>2
  <2> QED BY <2>1 DEF CallsForThem
<1>8. Grows
  BY <1>3 DEF Grows
<1> QED BY <1>5, <1>6, <1>7, <1>8 DEF Shared

\* The call at the head is for a row that was inserted; the others stay.
LEMMA FirstCall ==
    ASSUME StreamTypes, calls # <<>>
    PROVE  /\ Head(calls) = calls[1] /\ calls[1] = <<calls[1][1], calls[1][2]>>
           /\ calls[1][1] \in Client
           /\ calls[1][2] \in late /\ calls[1][2] \in DOMAIN log /\ calls[1][2] \in Nat
           /\ calls[1][2] > 0
           /\ 1 \in DOMAIN calls
           /\ Tail(calls) \in Seq(Client \X Nat)
           /\ \A k \in DOMAIN Tail(calls) : \E m \in DOMAIN calls : Tail(calls)[k] = calls[m]
           /\ \A m \in DOMAIN calls : m # 1 =>
                \E k \in DOMAIN Tail(calls) : Tail(calls)[k] = calls[m]
<1>1. calls \in Seq(Client \X Nat)
  BY DEF StreamTypes
<1>2. /\ Len(calls) \in Nat /\ Len(calls) > 0 /\ DOMAIN calls = 1 .. Len(calls)
      /\ Head(calls) = calls[1] /\ 1 \in DOMAIN calls
      /\ Tail(calls) \in Seq(Client \X Nat)
      /\ DOMAIN Tail(calls) = 1 .. (Len(calls) - 1)
      /\ \A k \in DOMAIN Tail(calls) : Tail(calls)[k] = calls[k + 1]
  BY <1>1
<1>3. /\ calls[1] = <<calls[1][1], calls[1][2]>> /\ calls[1][1] \in Client
      /\ calls[1][2] \in late
  BY <1>1, <1>2 DEF StreamTypes
<1>4. calls[1][2] \in DOMAIN log /\ calls[1][2] \in Nat /\ calls[1][2] > 0
  BY <1>3 DEF StreamTypes
<1>5. ASSUME NEW k \in DOMAIN Tail(calls)
      PROVE  \E m \in DOMAIN calls : Tail(calls)[k] = calls[m]
  <2>1. k + 1 \in DOMAIN calls
    BY <1>2
  <2> QED BY <1>2, <2>1
<1>6. ASSUME NEW m \in DOMAIN calls, m # 1
      PROVE  \E k \in DOMAIN Tail(calls) : Tail(calls)[k] = calls[m]
  <2>1. m - 1 \in DOMAIN Tail(calls) /\ (m - 1) + 1 = m
    BY <1>2, <1>6
  <2> QED BY <1>2, <2>1
<1> QED BY <1>2, <1>3, <1>4, <1>5, <1>6

LEMMA SharedAfterCallOffer ==
    ASSUME Shared, CallOffer
    PROVE  Shared' /\ Grows
<1>1. StreamTypes /\ InFlightKept /\ CallsForThem
  BY DEF Shared
<1>2. /\ calls # <<>> /\ calls' = Tail(calls)
      /\ Offer({Head(calls)[1]}, RowItem(Head(calls)[2]))
      /\ UNCHANGED <<log, kept, late, written, over, inserted, faults>>
  BY DEF CallOffer
<1>3. /\ Head(calls)[1] \in Client /\ Head(calls)[2] \in Nat
      /\ Tail(calls) \in Seq(Client \X Nat)
      /\ \A k \in DOMAIN Tail(calls) : \E m \in DOMAIN calls : Tail(calls)[k] = calls[m]
  BY <1>1, <1>2, FirstCall
<1>4. RowItem(Head(calls)[2]) \in Items
  BY <1>3, ItemsMade
<1>5. server' \in [Client -> Ends] /\ tab' \in [Client -> Tabs]
  BY <1>1, <1>2, <1>3, <1>4, OfferTypes
<1>6. \A c \in Client : tab'[c].stream = tab[c].stream
  BY <1>1, <1>2 DEF Offer, StreamTypes, Tabs
<1>7. StreamTypes'
  BY <1>1, <1>2, <1>3, <1>5 DEF StreamTypes
<1>8. InFlightKept'
  BY <1>1, <1>2 DEF InFlightKept
<1>9. Grows
  BY <1>1, <1>2, <1>6 DEF Grows
<1>10. CallsForThem'
  BY <1>2, <1>3, <1>9, CallsStay
<1> QED BY <1>7, <1>8, <1>9, <1>10 DEF Shared

LEMMA SharedAfterPublishLine ==
    ASSUME Shared, PublishLine
    PROVE  Shared' /\ Grows
<1> DEFINE S == {c \in Client : Subscribed(c) /\ Wants(c, {"run"})}
<1>1. StreamTypes /\ InFlightKept /\ CallsForThem
  BY DEF Shared
<1>2. /\ written' = written + 1
      /\ Offer(S, LineItem(written + 1))
      /\ UNCHANGED <<log, kept, late, over, inserted, calls, faults>>
  BY DEF PublishLine
<1>3. written \in Nat /\ written + 1 \in Nat /\ S \in SUBSET Client
  BY <1>1 DEF StreamTypes
<1> HIDE DEF S
<1>4. LineItem(written + 1) \in Items
  BY <1>3, ItemsMade
<1>5. server' \in [Client -> Ends] /\ tab' \in [Client -> Tabs]
  BY <1>1, <1>2, <1>3, <1>4, OfferTypes
<1>6. \A c \in Client : tab'[c].stream = tab[c].stream
  BY <1>1, <1>2 DEF Offer, StreamTypes, Tabs
<1>7. StreamTypes'
  BY <1>1, <1>2, <1>3, <1>5 DEF StreamTypes
<1>8. InFlightKept'
  BY <1>1, <1>2 DEF InFlightKept
<1>9. Grows
  BY <1>1, <1>2, <1>6 DEF Grows
<1>10. CallsForThem'
  BY <1>2, <1>9, CallsStay
<1> QED BY <1>7, <1>8, <1>9, <1>10 DEF Shared

LEMMA SharedAfterEndRunAndPrune ==
    ASSUME Shared, EndRun \/ \E upto \in DOMAIN log : Prune(upto)
    PROVE  Shared' /\ Grows
<1>1. StreamTypes /\ InFlightKept /\ CallsForThem
  BY DEF Shared
<1>2. /\ over' \in BOOLEAN /\ kept' \subseteq kept
      /\ UNCHANGED <<log, late, written, inserted, calls, server, tab, faults>>
  BY <1>1 DEF EndRun, Prune, StreamTypes
<1>3. StreamTypes'
  BY <1>1, <1>2 DEF StreamTypes
<1>4. InFlightKept'
  BY <1>1, <1>2 DEF EndRun, Prune, InFlightKept
<1>5. Grows
  BY <1>1, <1>2 DEF Grows, StreamTypes
<1>6. CallsForThem'
  BY <1>2, <1>5, CallsStay
<1> QED BY <1>3, <1>4, <1>5, <1>6 DEF Shared

\* The steps of the streams leave the rows alone.
LEMMA SharedAfterStream ==
    ASSUME Shared,
           UNCHANGED <<log, kept, late, written, over>>, inserted' \in {inserted, 0},
           faults' \in Nat,
           calls' \in Seq(Client \X Nat),
           \A k \in DOMAIN calls' : \E m \in DOMAIN calls : calls'[k] = calls[m],
           server' \in [Client -> Ends], tab' \in [Client -> Tabs],
           \A c \in Client : tab'[c].stream = tab[c].stream
    PROVE  Shared' /\ Grows
<1>1. StreamTypes /\ InFlightKept /\ CallsForThem
  BY DEF Shared
<1>2. StreamTypes'
  BY <1>1 DEF StreamTypes
<1>3. InFlightKept'
  BY <1>1 DEF InFlightKept
<1>4. Grows
  BY <1>1 DEF Grows, StreamTypes
<1>5. CallsForThem'
  BY <1>4, CallsStay
<1> QED BY <1>2, <1>3, <1>4, <1>5 DEF Shared
----------------------------------------------------------------------------
(* What a step is to one tab *)

\* Nothing,
Untouched(c) == server'[c] = server[c] /\ tab'[c] = tab[c]

\* or an item offered to its stream.
Offering(c, item) ==
    /\ server'[c] = Offered(c, item)
    /\ tab'[c] = IF Swallows(c, item)
                 THEN [tab[c] EXCEPT !.swallowed = @ \cup {item.seq}] ELSE tab[c]

\* What was on its way to the tab still is, and so are the rows that are new.
StillComing(c) ==
    \A i \in Wanted(c)' \cap kept' :
        (i \in DOMAIN log /\ ~OnTheWay(c, i)) \/ OnTheWay(c, i)'

\* Reading on from a cursor keeps the order.
LEMMA Concatenated ==
    ASSUME NEW a \in Seq(Nat), NEW b \in Seq(Nat), NEW n \in Nat,
           \A k, m \in DOMAIN a : k < m => a[k] < a[m],
           \A k, m \in DOMAIN b : k < m => b[k] < b[m],
           \A i \in ToSet(a) : i <= n,
           \A i \in ToSet(b) : i > n
    PROVE  /\ \A k, m \in DOMAIN (a \o b) : k < m => (a \o b)[k] < (a \o b)[m]
           /\ ToSet(a \o b) = ToSet(a) \cup ToSet(b)
<1> DEFINE ab == a \o b
<1>1. /\ Len(a) \in Nat /\ Len(b) \in Nat
      /\ DOMAIN a = 1 .. Len(a) /\ DOMAIN b = 1 .. Len(b)
      /\ DOMAIN ab = 1 .. (Len(a) + Len(b))
      /\ \A k \in DOMAIN a : ab[k] = a[k] /\ a[k] \in Nat
      /\ \A k \in DOMAIN b : ab[Len(a) + k] = b[k] /\ b[k] \in Nat
  OBVIOUS
<1> HIDE DEF ab
<1>2. \A k \in DOMAIN ab : k \notin DOMAIN a =>
         k - Len(a) \in DOMAIN b /\ ab[k] = b[k - Len(a)]
  <2> TAKE k \in DOMAIN ab
  <2> HAVE k \notin DOMAIN a
  <2>1. k - Len(a) \in DOMAIN b /\ Len(a) + (k - Len(a)) = k
    BY <1>1
  <2> QED BY <1>1, <2>1
<1>3. /\ \A k \in DOMAIN a : a[k] <= n
      /\ \A k \in DOMAIN b : b[k] > n
  BY DEF ToSet
<1>4. ASSUME NEW k \in DOMAIN ab, NEW m \in DOMAIN ab, k < m
      PROVE  ab[k] < ab[m]
  <2>1. CASE m \in DOMAIN a
    <3>1. k \in DOMAIN a
      BY <1>1, <1>4, <2>1
    <3> QED BY <1>1, <1>4, <2>1, <3>1
  <2>2. CASE m \notin DOMAIN a /\ k \in DOMAIN a
    <3>1. ab[k] = a[k] /\ ab[m] = b[m - Len(a)] /\ m - Len(a) \in DOMAIN b
      BY <1>1, <1>2, <2>2
    <3>2. a[k] \in Nat /\ b[m - Len(a)] \in Nat /\ a[k] <= n /\ b[m - Len(a)] > n
      BY <1>1, <1>3, <2>2, <3>1
    <3> QED BY <3>1, <3>2
  <2>3. CASE m \notin DOMAIN a /\ k \notin DOMAIN a
    <3>1. /\ ab[k] = b[k - Len(a)] /\ k - Len(a) \in DOMAIN b
          /\ ab[m] = b[m - Len(a)] /\ m - Len(a) \in DOMAIN b
      BY <1>2, <2>3
    <3>2. k - Len(a) < m - Len(a)
      BY <1>1, <1>4
    <3> QED BY <3>1, <3>2
  <2> QED BY <2>1, <2>2, <2>3
<1>5. ToSet(ab) = ToSet(a) \cup ToSet(b)
  <2>1. ASSUME NEW x \in ToSet(ab) PROVE x \in ToSet(a) \cup ToSet(b)
    <3>1. PICK k \in DOMAIN ab : x = ab[k]
      BY DEF ToSet
    <3> QED BY <1>1, <1>2, <3>1 DEF ToSet
  <2>2. ASSUME NEW x \in ToSet(a) PROVE x \in ToSet(ab)
    <3>1. PICK k \in DOMAIN a : x = a[k]
      BY DEF ToSet
    <3>2. k \in DOMAIN ab /\ ab[k] = x
      BY <1>1, <3>1
    <3> QED BY <3>2 DEF ToSet
  <2>3. ASSUME NEW x \in ToSet(b) PROVE x \in ToSet(ab)
    <3>1. PICK k \in DOMAIN b : x = b[k]
      BY DEF ToSet
    <3>2. Len(a) + k \in DOMAIN ab /\ ab[Len(a) + k] = x
      BY <1>1, <3>1
    <3> QED BY <3>2 DEF ToSet
  <2> QED BY <2>1, <2>2, <2>3
<1> QED BY <1>4, <1>5 DEF ab

LEMMA FollowsUntouched ==
    ASSUME Shared, Grows, NEW c \in Client, Follows(c), Untouched(c),
           Past(c) => Ordered(c)' \subseteq Ordered(c) /\ StillComing(c)
    PROVE  Follows(c)'
<1>1. Wanted(c) \subseteq Wanted(c)' /\ Wanted(c)' \cap DOMAIN log \subseteq Wanted(c)
  BY WantedGrows
<1>2. /\ Got(c)' = Got(c) /\ Queued(c)' = Queued(c) /\ Subscribed(c)' = Subscribed(c)
      /\ Past(c)' = Past(c)
      /\ server'[c] = server[c] /\ tab'[c] = tab[c]
      /\ \A k : Fresh(c, k)' = Fresh(c, k)
      /\ \A m, i : Passed(c, m, i)' = Passed(c, m, i)
  BY DEF Untouched, Got, Queued, Subscribed, Past, Fresh, Passed, Replayed
<1>3. Reads(c)'
  BY <1>1, <1>2 DEF Follows, Reads, Grows
<1>4. Behind(c)'
  <2>1. ASSUME NEW i \in Wanted(c)' \cap kept', i <= tab[c].cursor
        PROVE  i \in Got(c) \cup late' \cup tab[c].swallowed
    <3>1. i \in Wanted(c) /\ i \in kept
      <4>1. i \in Nat /\ i > 0
        BY <2>1 DEF Shared, StreamTypes, Grows
      <4>2. i \in DOMAIN log
        BY <2>1, <4>1 DEF Shared, StreamTypes, Follows, Reads
      <4> QED BY <1>1, <4>2 DEF Grows
    <3> QED BY <2>1, <3>1 DEF Follows, Behind, Grows
  <2> QED BY <1>2, <2>1 DEF Behind
<1>5. Ahead(c)'
  <2>1. ASSUME Past(c), NEW i \in Wanted(c)' \cap kept', i > server[c].delivered
        PROVE  i \in Queued(c) \/ OnTheWay(c, i)' \/ server[c].dropped
    <3>1. CASE i \in DOMAIN log /\ ~OnTheWay(c, i)
      BY <1>1, <2>1, <3>1 DEF Follows, Ahead, Grows
    <3> QED BY <2>1, <3>1 DEF StillComing
  <2> QED BY <1>2, <2>1 DEF Ahead
<1>6. Announced(c)'
  BY <1>2 DEF Follows, Announced
<1>7. InTurn(c)'
  BY <1>2 DEF Follows, InTurn
<1> QED BY <1>3, <1>4, <1>5, <1>6, <1>7 DEF Follows

LEMMA QueuedAre ==
    ASSUME StreamTypes, NEW c \in Client
    PROVE  /\ server[c] \in Ends /\ tab[c] \in Tabs
           /\ server[c].queue \in Seq(Items) /\ Len(server[c].queue) \in Nat
           /\ DOMAIN server[c].queue = 1 .. Len(server[c].queue)
           /\ \A k \in DOMAIN server[c].queue : server[c].queue[k] \in Items
           /\ \A i : i \in Queued(c) <=>
                i # 0 /\ \E k \in DOMAIN server[c].queue : server[c].queue[k].seq = i
           /\ \A i : i \in QueuedLines(c) <=>
                i # 0 /\ \E k \in DOMAIN server[c].queue : server[c].queue[k].line = i
<1>1. server[c] \in Ends /\ tab[c] \in Tabs
  BY DEF StreamTypes
<1>2. server[c].queue \in Seq(Items)
  BY <1>1 DEF Ends
<1> DEFINE q == server[c].queue
<1>3. \A x : x \in ToSet(q) <=> \E k \in DOMAIN q : q[k] = x
  BY DEF ToSet
<1>4. Queued(c) = {item.seq : item \in ToSet(q)} \ {0}
      /\ QueuedLines(c) = {item.line : item \in ToSet(q)} \ {0}
  BY DEF Queued, QueuedLines
<1>5. /\ Len(q) \in Nat /\ DOMAIN q = 1 .. Len(q)
      /\ \A k \in DOMAIN q : q[k] \in Items
  BY <1>2
<1> HIDE DEF q
<1>6. /\ \A i : i \in Queued(c) <=> i # 0 /\ \E k \in DOMAIN q : q[k].seq = i
      /\ \A i : i \in QueuedLines(c) <=> i # 0 /\ \E k \in DOMAIN q : q[k].line = i
  BY <1>3, <1>4
<1> QED BY <1>1, <1>2, <1>5, <1>6 DEF q

\* Wherever what is offered comes from, it is for this tab, and it is the newest row
\* unless it came from the thread.
LEMMA FollowsOffered ==
    ASSUME Shared, Shared', Grows, NEW c \in Client, Follows(c),
           NEW item \in Items, Offering(c, item),
           item.seq > 0 => item.seq \in Wanted(c)',
           Past(c) => /\ Ordered(c)' \subseteq Ordered(c) \cup {item.seq}
                      /\ item.seq \in Ordered(c)' => \A i \in DOMAIN log : i < item.seq
                      /\ \A i \in Wanted(c)' \cap kept' :
                           \/ i \in DOMAIN log /\ ~OnTheWay(c, i)
                           \/ OnTheWay(c, i)' \/ i = item.seq
    PROVE  Follows(c)'
<1> DEFINE s == server[c]
           q == s.queue
           r == server'[c]
<1>1. Wanted(c) \subseteq Wanted(c)' /\ Wanted(c)' \cap DOMAIN log \subseteq Wanted(c)
  BY WantedGrows
<1>2. /\ r \in Ends /\ r.pc = s.pc /\ r.delivered = s.delivered
      /\ Len(q) < Limit => r.queue = Append(q, item) /\ r.dropped = s.dropped
      /\ Len(q) >= Limit => r.queue = q /\ r.dropped = TRUE
  <2>1. StreamTypes /\ r = Offered(c, item)
    BY DEF Offering, Shared
  <2> HIDE DEF r
  <2>2. r \in Ends
    BY <2>1, OfferMade
  <2>3. r.pc = s.pc /\ r.delivered = s.delivered
    BY <2>1, OfferLeaves
  <2>4. Len(q) < Limit => r.queue = Append(q, item) /\ r.dropped = s.dropped
    BY <2>1, OfferMade
  <2>5. Len(q) >= Limit => r.queue = q /\ r.dropped = TRUE
    BY <2>1, OfferMade
  <2> QED BY <2>2, <2>3, <2>4, <2>5
<1>3. /\ tab'[c].got = tab[c].got /\ tab'[c].cursor = tab[c].cursor
      /\ tab[c].swallowed \subseteq tab'[c].swallowed
      /\ Swallows(c, item) => item.seq \in tab'[c].swallowed
  <2>1. tab[c] \in Tabs
    BY DEF Shared, StreamTypes
  <2> QED BY <2>1 DEF Offering, Tabs
<1>4. /\ s \in Ends /\ q \in Seq(Items) /\ Len(q) \in Nat /\ DOMAIN q = 1 .. Len(q)
      /\ \A i : i \in Queued(c) <=> i # 0 /\ \E k \in DOMAIN q : q[k].seq = i
      /\ \A k \in DOMAIN q : q[k] \in Items
  BY QueuedAre DEF Shared
<1>5. /\ r.queue \in Seq(Items) /\ DOMAIN r.queue = 1 .. Len(r.queue)
      /\ Len(r.queue) <= Limit
      /\ DOMAIN q \subseteq DOMAIN r.queue
      /\ \A k \in DOMAIN q : r.queue[k] = q[k]
      /\ \A k \in DOMAIN r.queue : k \in DOMAIN q \/ (k = Len(q) + 1 /\ r.queue[k] = item)
      /\ Len(q) < Limit => /\ Len(q) + 1 \in DOMAIN r.queue
                           /\ r.queue[Len(q) + 1] = item
                           /\ r.dropped = s.dropped
      /\ ~(Len(q) < Limit) => r.queue = q /\ Len(q) = Limit /\ r.dropped = TRUE
      /\ s.dropped => r.dropped
  <2>1. Len(q) <= Limit /\ Limit \in Nat
    BY EventStreamAssumption DEF Follows, Reads
  <2> HIDE DEF q, r, s
  <2>2. CASE Len(q) < Limit
    <3>1. r.queue = Append(q, item) /\ r.dropped = s.dropped
      BY <1>2, <2>2
    <3>2. /\ r.queue \in Seq(Items) /\ DOMAIN r.queue = 1 .. Len(r.queue)
          /\ Len(r.queue) = Len(q) + 1
          /\ \A k \in DOMAIN q : r.queue[k] = q[k]
          /\ r.queue[Len(q) + 1] = item
      BY <1>4, <3>1
    <3>3. Len(q) + 1 <= Limit /\ DOMAIN r.queue = DOMAIN q \cup {Len(q) + 1}
      BY <1>4, <2>1, <2>2, <3>2
    <3> QED BY <2>2, <3>1, <3>2, <3>3
  <2>3. CASE ~(Len(q) < Limit)
    <3>1. Len(q) >= Limit /\ Len(q) = Limit
      <4>1. Len(q) \in Nat
        BY <1>4
      <4> QED BY <2>1, <2>3, <4>1
    <3>2. r.queue = q /\ r.dropped = TRUE
      BY <1>2, <3>1
    <3> QED BY <1>4, <2>1, <2>3, <3>1, <3>2
  <2> QED BY <2>2, <2>3
<1>6. \A i : i \in Queued(c)' <=> i # 0 /\ \E k \in DOMAIN r.queue : r.queue[k].seq = i
  <2>1. \A x : x \in ToSet(r.queue) <=> \E k \in DOMAIN r.queue : r.queue[k] = x
    BY DEF ToSet
  <2>2. Queued(c)' = {x.seq : x \in ToSet(r.queue)} \ {0}
    BY DEF Queued
  <2> HIDE DEF r
  <2> QED BY <2>1, <2>2
<1>7. /\ Got(c)' = Got(c) /\ Subscribed(c)' = Subscribed(c) /\ Past(c)' = Past(c)
      /\ Queued(c) \subseteq Queued(c)'
      /\ item.seq # 0 /\ Len(q) < Limit => item.seq \in Queued(c)'
      /\ Queued(c)' \subseteq Queued(c) \cup {item.seq}
      /\ 0 \notin Queued(c)'
  <2>1. Got(c)' = Got(c) /\ Subscribed(c)' = Subscribed(c) /\ Past(c)' = Past(c)
    BY <1>2, <1>3 DEF Got, Subscribed, Past
  <2> HIDE DEF q, r, s
  <2>2. Queued(c) \subseteq Queued(c)'
    BY <1>4, <1>5, <1>6
  <2>3. item.seq # 0 /\ Len(q) < Limit => item.seq \in Queued(c)'
    BY <1>5, <1>6
  <2>4. Queued(c)' \subseteq Queued(c) \cup {item.seq}
    BY <1>4, <1>5, <1>6
  <2> QED BY <1>6, <2>1, <2>2, <2>3, <2>4
<1>8. item.seq \in Nat
  BY DEF Items
<1>9. \A k \in DOMAIN q : Fresh(c, k) => Fresh(c, k)'
  BY <1>2, <1>5 DEF Fresh, Replayed
<1>10. Reads(c)'
  <2>1. ASSUME NEW i \in Queued(c)' PROVE i \in Wanted(c)'
    BY <1>1, <1>7, <1>8, <2>1 DEF Follows, Reads
  <2>2. r.delivered = s.delivered /\ tab'[c].cursor = tab[c].cursor
    BY <1>2, <1>3
  <2>3. /\ \A k, m \in DOMAIN tab'[c].got : k < m => tab'[c].got[k] < tab'[c].got[m]
        /\ Got(c)' \subseteq Wanted(c)'
        /\ \A i \in Got(c)' : i <= tab'[c].cursor
        /\ tab'[c].cursor \in DOMAIN log' \cup {0}
        /\ Subscribed(c)' => r.delivered = tab'[c].cursor
    BY <1>1, <1>3, <1>7, <2>2 DEF Follows, Reads, Grows
  <2> QED BY <1>5, <2>1, <2>3 DEF Reads
<1>11. Behind(c)'
  <2>1. ASSUME NEW i \in Wanted(c)' \cap kept', i <= tab[c].cursor
        PROVE  i \in Got(c) \cup late' \cup tab'[c].swallowed
    <3>1. i \in Wanted(c) /\ i \in kept
      <4>1. i \in Nat /\ i > 0
        BY <2>1 DEF Shared, StreamTypes, Grows
      <4>2. i \in DOMAIN log
        BY <2>1, <4>1 DEF Shared, StreamTypes, Follows, Reads
      <4> QED BY <1>1, <4>2 DEF Grows
    <3> QED BY <1>3, <2>1, <3>1 DEF Follows, Behind, Grows
  <2> QED BY <1>3, <1>7, <2>1 DEF Behind
<1>12. Ahead(c)'
  <2>1. ASSUME Past(c), NEW i \in Wanted(c)' \cap kept', i > s.delivered
        PROVE  i \in Queued(c)' \/ OnTheWay(c, i)' \/ r.dropped
    <3>1. CASE i \in DOMAIN log /\ ~OnTheWay(c, i)
      <4>1. i \in Queued(c) \/ s.dropped
        BY <1>1, <2>1, <3>1 DEF Follows, Ahead, Grows
      <4> QED BY <1>5, <1>7, <4>1
    <3>2. CASE i = item.seq
      <4>1. i # 0
        BY <2>1 DEF Shared, StreamTypes
      <4> QED BY <1>5, <1>7, <3>2, <4>1
    <3> QED BY <2>1, <3>1, <3>2
  <2> QED BY <1>2, <1>7, <2>1 DEF Ahead
<1>13. Announced(c)'
  <2>1. ASSUME Past(c), NEW i \in Ordered(c)', i > s.delivered, i \notin Queued(c)'
        PROVE  r.dropped /\ \E k \in DOMAIN r.queue : Fresh(c, k)'
    <3>1. CASE i \in Ordered(c)
      <4>1. s.dropped /\ \E k \in DOMAIN q : Fresh(c, k)
        BY <1>7, <2>1, <3>1 DEF Follows, Announced
      <4> QED BY <1>5, <1>9, <4>1
    <3>2. CASE i = item.seq
      <4>1. i \in Nat /\ i > 0 /\ i \notin tab'[c].swallowed
        BY <2>1 DEF Shared, StreamTypes, Ordered, Wanted
      <4>2. ~(Len(q) < Limit)
        BY <1>7, <2>1, <3>2, <4>1
      <4>3. ~Swallows(c, item)
        BY <1>3, <3>2, <4>1
      <4>4. PICK k \in 1 .. Limit : Fresh(c, k)
        BY <1>5, <2>1, <3>2, <4>1, <4>2, <4>3 DEF Swallows, Past, Fresh
      <4>5. k \in DOMAIN q
        BY <1>4, <1>5, <4>2
      <4> QED BY <1>5, <1>9, <4>2, <4>4, <4>5
    <3> QED BY <2>1, <3>1, <3>2
  <2> QED BY <1>2, <1>7, <2>1 DEF Announced
<1>14. InTurn(c)'
  <2>1. ASSUME Past(c), NEW m \in DOMAIN r.queue, NEW i \in Ordered(c)',
               s.delivered < i, i < r.queue[m].seq
        PROVE  Passed(c, m, i)'
    <3>1. /\ m \in Nat /\ i \in Nat /\ i # 0 /\ r.queue[m].seq \in Nat
      <4>1. r.queue[m] \in Items /\ m \in Nat
        BY <1>5
      <4>2. i \in Nat /\ i # 0
        BY <2>1 DEF Shared, StreamTypes, Ordered, Wanted
      <4> QED BY <4>1, <4>2 DEF Items
    <3>2. CASE m \in DOMAIN q /\ i \in Ordered(c)
      <4>1. r.queue[m] = q[m]
        BY <1>5, <3>2
      <4>2. Passed(c, m, i)
        BY <2>1, <3>2, <4>1 DEF Follows, InTurn
      <4>3. PICK k \in 1 .. (m - 1) : q[k].seq = i \/ (s.dropped /\ Fresh(c, k))
        BY <4>2 DEF Passed
      <4>4. k \in DOMAIN q
        BY <1>4, <3>1, <3>2
      <4>5. r.queue[k].seq = i \/ (r.dropped /\ Fresh(c, k)')
        BY <1>5, <1>9, <4>3, <4>4
      <4> QED BY <4>5 DEF Passed
    <3>3. CASE m \in DOMAIN q /\ i \notin Ordered(c)
      <4>1. i = item.seq /\ \A j \in DOMAIN log : j < i
        BY <2>1, <3>3
      <4>2. r.queue[m] = q[m] /\ q[m].seq # 0
        BY <1>5, <2>1, <3>1, <3>3
      <4>3. q[m].seq \in Queued(c)
        BY <1>4, <3>3, <4>2
      <4>4. q[m].seq \in DOMAIN log
        BY <4>3 DEF Follows, Reads, Wanted
      <4> QED BY <2>1, <3>1, <4>1, <4>2, <4>4
    <3>4. CASE m \notin DOMAIN q
      <4>1. m = Len(q) + 1 /\ r.queue[m] = item /\ \A k \in DOMAIN q : k \in 1 .. (m - 1)
        BY <1>4, <1>5, <3>4
      <4>2. i \in Ordered(c)
        BY <1>8, <2>1, <3>1, <4>1
      <4>3. \/ i \in Queued(c)
            \/ s.dropped /\ \E k \in DOMAIN q : Fresh(c, k)
        BY <2>1, <4>2 DEF Follows, Announced
      <4>4. PICK k \in DOMAIN q : q[k].seq = i \/ (s.dropped /\ Fresh(c, k))
        BY <1>4, <4>3
      <4>5. r.queue[k].seq = i \/ (r.dropped /\ Fresh(c, k)')
        BY <1>5, <1>9, <4>4
      <4> QED BY <4>1, <4>5 DEF Passed
    <3> QED BY <3>2, <3>3, <3>4
  <2> QED BY <1>2, <1>7, <2>1 DEF InTurn
<1> QED BY <1>10, <1>11, <1>12, <1>13, <1>14 DEF Follows

\* A frame of the replay: after the last one nothing lies ahead.
LEMMA FollowsBatch ==
    ASSUME Shared, NEW c \in Client, Follows(c),
           NEW s \in Ends, s.delivered = tab[c].cursor,
           s.queue \in {<<>>, server[c].queue},
           SendBatch(c, s), StreamUnchanged
    PROVE  Follows(c)'
<1>1. /\ server'[c].pc \in {"rows", "lines"}
      /\ server'[c].queue = s.queue
      /\ server'[c].delivered = tab'[c].cursor
      /\ tab'[c].stream = tab[c].stream /\ tab'[c].swallowed = tab[c].swallowed
      /\ tab'[c].cursor >= tab[c].cursor
      /\ \A d \in Client \ {c} : server'[d] = server[d] /\ tab'[d] = tab[d]
  <2>1. StreamTypes
    BY DEF Shared
  <2> QED BY <2>1, BatchSent
<1>2. PICK b \in Seq(Nat) :
                /\ tab'[c].got = tab[c].got \o b
                /\ \A k, m \in DOMAIN b : k < m => b[k] < b[m]
                /\ ToSet(b) \subseteq Awaited(c, tab[c].cursor)
                /\ tab'[c].cursor \in ToSet(b) \cup {tab[c].cursor}
                /\ \A i \in ToSet(b) : i <= tab'[c].cursor
                /\ \A i \in Awaited(c, tab[c].cursor) :
                     i <= tab'[c].cursor \/ server'[c].pc = "lines" => i \in ToSet(b)
  <2>1. StreamTypes
    BY DEF Shared
  <2> QED BY <2>1, BatchSent
<1>3. /\ tab[c].got \in Seq(Nat) /\ tab[c].cursor \in Nat
      /\ kept \subseteq DOMAIN log /\ DOMAIN log \subseteq Nat
  BY DEF Shared, StreamTypes, Tabs
<1>4. /\ Wanted(c)' = Wanted(c) /\ kept' = kept /\ late' = late /\ log' = log
  BY <1>1 DEF StreamUnchanged, Wanted, Wants
<1>5. \A i : i \in Awaited(c, tab[c].cursor)
               <=> i \in Wanted(c) /\ i \in kept /\ i > tab[c].cursor
  BY <1>3 DEF Awaited, Wanted
<1>6. /\ \A k, m \in DOMAIN tab'[c].got : k < m => tab'[c].got[k] < tab'[c].got[m]
      /\ Got(c)' = Got(c) \cup ToSet(b)
  <2>1. \A k, m \in DOMAIN tab[c].got : k < m => tab[c].got[k] < tab[c].got[m]
    BY DEF Follows, Reads
  <2>2. \A i \in ToSet(tab[c].got) : i <= tab[c].cursor
    BY DEF Follows, Reads, Got
  <2>3. \A i \in ToSet(b) : i > tab[c].cursor
    BY <1>2, <1>5
  <2>4. /\ \A k, m \in DOMAIN (tab[c].got \o b) :
             k < m => (tab[c].got \o b)[k] < (tab[c].got \o b)[m]
        /\ ToSet(tab[c].got \o b) = ToSet(tab[c].got) \cup ToSet(b)
    BY <1>2, <1>3, <2>1, <2>2, <2>3, Concatenated
  <2> QED BY <1>2, <2>4 DEF Got
<1>7. /\ ToSet(b) \subseteq Wanted(c) /\ tab'[c].cursor \in DOMAIN log \cup {0}
      /\ tab'[c].cursor \in Nat
  <2>1. tab[c].cursor \in DOMAIN log \cup {0}
    BY DEF Follows, Reads
  <2> QED BY <1>2, <1>3, <1>5, <2>1
<1>8. Reads(c)'
  <2>1. Got(c)' \subseteq Wanted(c)
    BY <1>6, <1>7 DEF Follows, Reads
  <2>2. \A i \in Got(c)' : i <= tab'[c].cursor
    <3>1. \A i \in Got(c) : i \in Nat /\ i <= tab[c].cursor
      BY <1>3 DEF Follows, Reads, Wanted
    <3>2. \A i \in Got(c) : i <= tab'[c].cursor
      BY <1>1, <1>3, <1>7, <3>1
    <3> QED BY <1>2, <1>6, <3>2
  <2>3. Queued(c)' \subseteq Wanted(c) /\ Len(server'[c].queue) <= Limit
    <3>1. CASE s.queue = server[c].queue
      BY <1>1, <3>1 DEF Follows, Reads, Queued
    <3>2. CASE s.queue = <<>>
      BY <1>1, <3>2, EventStreamAssumption DEF Queued, ToSet
    <3> QED BY <3>1, <3>2
  <2> QED BY <1>1, <1>4, <1>6, <1>7, <2>1, <2>2, <2>3 DEF Reads
<1>9. Behind(c)'
  <2>1. ASSUME NEW i \in Wanted(c) \cap kept, i <= tab'[c].cursor
        PROVE  i \in Got(c)' \cup late \cup tab[c].swallowed
    <3>1. CASE i <= tab[c].cursor
      BY <1>6, <3>1 DEF Follows, Behind
    <3>2. CASE ~(i <= tab[c].cursor)
      <4>1. i > tab[c].cursor
        BY <1>3, <3>2
      <4> QED BY <1>2, <1>5, <1>6, <2>1, <4>1
    <3> QED BY <3>1, <3>2
  <2> QED BY <1>1, <1>4, <2>1 DEF Behind
<1>10. ASSUME Past(c)', NEW i \in Wanted(c) \cap kept, i > server'[c].delivered PROVE FALSE
  <2>1. server'[c].pc = "lines"
    BY <1>1, <1>10 DEF Past
  <2>2. i > tab[c].cursor /\ i > tab'[c].cursor /\ i \in Nat
    BY <1>1, <1>3, <1>7, <1>10
  <2>3. i \in ToSet(b)
    BY <1>2, <1>5, <2>1, <2>2
  <2> QED BY <1>2, <1>7, <2>2, <2>3
<1>11. Ahead(c)' /\ Announced(c)' /\ InTurn(c)'
  BY <1>4, <1>10 DEF Ahead, Announced, InTurn, Ordered
<1> QED BY <1>8, <1>9, <1>11 DEF Follows

LEMMA FollowsReplayLines ==
    ASSUME Shared, NEW c \in Client, Follows(c), ReplayLines(c)
    PROVE  /\ Follows(c)'
           /\ server' \in [Client -> Ends] /\ tab' \in [Client -> Tabs]
           /\ tab'[c].stream = tab[c].stream
           /\ \A d \in Client \ {c} : server'[d] = server[d] /\ tab'[d] = tab[d]
<1> DEFINE skip == server[c].skip
           more == IF tab[c].stream = "run" /\ skip < written THEN written - skip ELSE 0
           lines == [k \in 1 .. more |-> skip + k]
<1>1. /\ server[c].pc = "lines" /\ server' = [server EXCEPT ![c].pc = "live"]
      /\ tab' = [tab EXCEPT ![c] = GetLines(tab[c], lines)]
      /\ StreamUnchanged
  BY DEF ReplayLines
<1>2. /\ server[c] \in Ends /\ tab[c] \in Tabs
      /\ server \in [Client -> Ends] /\ tab \in [Client -> Tabs]
  BY DEF Shared, StreamTypes
<1>3. lines \in Seq(Nat)
  <2>1. skip \in Nat /\ written \in Nat
    BY <1>2 DEF Shared, StreamTypes, Ends
  <2>2. more \in Nat
    BY <2>1
  <2> HIDE DEF more, skip
  <2> QED BY <2>1, <2>2
<1> HIDE DEF lines
<1>4. /\ tab'[c] \in Tabs
      /\ tab'[c].stream = tab[c].stream /\ tab'[c].cursor = tab[c].cursor
      /\ tab'[c].got = tab[c].got /\ tab'[c].swallowed = tab[c].swallowed
  <2>1. tab'[c] = GetLines(tab[c], lines)
    BY <1>1, <1>2
  <2>2. tab'[c] \in Tabs
    BY <1>2, <1>3, <2>1, LinesTaken
  <2>3. tab'[c].stream = tab[c].stream /\ tab'[c].cursor = tab[c].cursor
    BY <1>2, <1>3, <2>1, LinesTaken
  <2>4. tab'[c].got = tab[c].got /\ tab'[c].swallowed = tab[c].swallowed
    BY <1>2, <1>3, <2>1, LinesTaken
  <2> QED BY <2>2, <2>3, <2>4
<1>5. /\ server'[c] \in Ends /\ server'[c].pc = "live"
      /\ server'[c].queue = server[c].queue /\ server'[c].dropped = server[c].dropped
      /\ server'[c].delivered = server[c].delivered
  BY <1>1, <1>2 DEF Ends
<1>6. server' \in [Client -> Ends] /\ tab' \in [Client -> Tabs]
  BY <1>1, <1>2, <1>4, <1>5
<1>7. \A d \in Client \ {c} : server'[d] = server[d] /\ tab'[d] = tab[d]
  BY <1>1, <1>2
<1>8. /\ kept' = kept /\ late' = late /\ log' = log /\ inserted' = inserted /\ calls' = calls
      /\ Wanted(c)' = Wanted(c) /\ Ordered(c)' = Ordered(c)
      /\ Got(c)' = Got(c) /\ Queued(c)' = Queued(c)
      /\ Past(c)' /\ Past(c) /\ Subscribed(c)
      /\ \A k : Fresh(c, k)' = Fresh(c, k)
      /\ \A m, i : Passed(c, m, i)' = Passed(c, m, i)
      /\ \A i : OnTheWay(c, i)' = OnTheWay(c, i)
  BY <1>1, <1>4, <1>5
     DEF StreamUnchanged, Wanted, Wants, Ordered, Got, Queued, Past, Subscribed, Fresh,
         Replayed, Passed, OnTheWay
<1>9. Reads(c)'
  BY <1>4, <1>5, <1>8 DEF Follows, Reads
<1>10. Behind(c)' /\ Ahead(c)' /\ Announced(c)' /\ InTurn(c)'
  BY <1>4, <1>5, <1>8 DEF Follows, Behind, Ahead, Announced, InTurn
<1> QED BY <1>4, <1>6, <1>7, <1>9, <1>10 DEF Follows

LEMMA BehindTheHead ==
    ASSUME NEW q \in Seq(Items), q # <<>>, NEW k \in DOMAIN q, k # 1
    PROVE  k - 1 \in DOMAIN Tail(q) /\ Tail(q)[k - 1] = q[k]
<1>1. /\ Len(q) \in Nat /\ DOMAIN q = 1 .. Len(q) /\ DOMAIN Tail(q) = 1 .. (Len(q) - 1)
      /\ \A j \in DOMAIN Tail(q) : Tail(q)[j] = q[j + 1]
  BY HeadAndTail
<1>2. k - 1 \in DOMAIN Tail(q) /\ (k - 1) + 1 = k
  BY <1>1
<1> QED BY <1>1, <1>2

\* A tab that is sent the head of its queue misses nothing behind it.
LEMMA TabAfterItem ==
    ASSUME Shared, NEW c \in Client, Follows(c),
           server[c].pc = "live", server[c].queue # <<>>,
           NEW item, item = Head(server[c].queue), ~Replayed(c, item),
           NEW u, u = GetItem(tab[c], item)
    PROVE  /\ u \in Tabs
           /\ u.stream = tab[c].stream /\ u.swallowed = tab[c].swallowed
           /\ \A k, m \in DOMAIN u.got : k < m => u.got[k] < u.got[m]
           /\ ToSet(u.got) \subseteq Wanted(c)
           /\ \A i \in ToSet(u.got) : i <= u.cursor
           /\ u.cursor \in DOMAIN log \cup {0}
           /\ u.cursor = IF item.seq > 0 THEN item.seq ELSE tab[c].cursor
           /\ u.cursor >= tab[c].cursor
           /\ \A i \in Wanted(c) \cap kept :
                i <= u.cursor => i \in ToSet(u.got) \cup late \cup tab[c].swallowed
<1> DEFINE q == server[c].queue
<1>1. /\ tab[c] \in Tabs /\ q \in Seq(Items) /\ item = q[1] /\ 1 \in DOMAIN q
      /\ item \in Items /\ item.seq \in Nat
      /\ \A i : i \in Queued(c) <=> i # 0 /\ \E k \in DOMAIN q : q[k].seq = i
      /\ server[c].delivered \in Nat
  <2>1. /\ tab[c] \in Tabs /\ q \in Seq(Items) /\ server[c] \in Ends
        /\ \A i : i \in Queued(c) <=> i # 0 /\ \E k \in DOMAIN q : q[k].seq = i
    BY QueuedAre DEF Shared
  <2>2. Head(q) \in Items /\ Head(q) = q[1] /\ 1 \in DOMAIN q
    <3> HIDE DEF q
    <3>1. q # <<>>
      BY DEF q
    <3> QED BY <2>1, <3>1, HeadAndTail
  <2> QED BY <2>1, <2>2 DEF Items, Ends
<1>2. /\ tab[c].cursor = server[c].delivered /\ tab[c].cursor \in Nat
      /\ tab[c].cursor \in DOMAIN log \cup {0}
      /\ tab[c].got \in Seq(Nat) /\ DOMAIN log \subseteq Nat
      /\ \A k, m \in DOMAIN tab[c].got : k < m => tab[c].got[k] < tab[c].got[m]
      /\ ToSet(tab[c].got) \subseteq Wanted(c)
      /\ \A i \in ToSet(tab[c].got) : i <= tab[c].cursor
  <2>1. server[c].pc # "off"
    OBVIOUS
  <2>2. tab[c].cursor \in Nat /\ tab[c].got \in Seq(Nat) /\ DOMAIN log \subseteq Nat
    BY <1>1 DEF Shared, StreamTypes, Tabs
  <2> QED BY <2>1, <2>2 DEF Follows, Reads, Subscribed, Got
<1>3. /\ u \in Tabs /\ u.stream = tab[c].stream /\ u.swallowed = tab[c].swallowed
      /\ item.seq > 0 => /\ u.got = tab[c].got \o <<item.seq>>
                         /\ item.seq > tab[c].cursor => u.cursor = item.seq
      /\ item.seq = 0 => u.got = tab[c].got /\ u.cursor = tab[c].cursor
  <2>1. tab[c] \in Tabs /\ item \in Items
    BY <1>1
  <2>2. PICK t : t = tab[c]
    OBVIOUS
  <2>3. t \in Tabs /\ u = GetItem(t, item)
    BY <2>1, <2>2
  <2>4. u \in Tabs /\ u.stream = t.stream /\ u.swallowed = t.swallowed
    <3>1. u \in Tabs
      BY <2>1, <2>3, ItemTaken
    <3>2. u.stream = t.stream
      BY ZenonT(40), <2>1, <2>3, ItemTaken
    <3>3. u.swallowed = t.swallowed
      BY ZenonT(40), <2>1, <2>3, ItemTaken
    <3> QED BY <3>1, <3>2, <3>3
  <2>5. item.seq > 0 => u.got = t.got \o <<item.seq>>
    BY ZenonT(40), <2>1, <2>3, ItemTaken
  <2>6. item.seq > 0 /\ item.seq > t.cursor => u.cursor = item.seq
    BY <2>1, <2>3, ItemTaken
  <2>7. item.seq = 0 => u.got = t.got /\ u.cursor = t.cursor
    BY ZenonT(40), <2>1, <2>3, ItemTaken
  <2> QED BY <2>2, <2>4, <2>5, <2>6, <2>7
<1>4. CASE item.seq = 0
  <2>1. u.got = tab[c].got /\ u.cursor = tab[c].cursor
    BY <1>3, <1>4
  <2>2. ~(item.seq > 0) /\ u.cursor >= tab[c].cursor
    BY <1>2, <1>4, <2>1
  <2>3. \A i \in Wanted(c) \cap kept :
          i <= u.cursor => i \in ToSet(u.got) \cup late \cup tab[c].swallowed
    BY <2>1 DEF Follows, Behind, Got
  <2> QED BY <1>2, <1>3, <2>1, <2>2, <2>3
<1>5. CASE item.seq > 0
  <2>1. item.seq > tab[c].cursor
    BY <1>1, <1>2, <1>5 DEF Replayed
  <2> DEFINE one == <<item.seq>>
  <2>2. u.got = tab[c].got \o one
    BY <1>3, <1>5
  <2>3. u.cursor = item.seq
    BY <1>3, <1>5, <2>1
  <2>4. /\ one \in Seq(Nat) /\ ToSet(one) = {item.seq}
        /\ \A k, m \in DOMAIN one : k < m => one[k] < one[m]
    BY <1>1 DEF ToSet
  <2> HIDE DEF one
  <2>5. /\ \A k, m \in DOMAIN u.got : k < m => u.got[k] < u.got[m]
        /\ ToSet(u.got) = ToSet(tab[c].got) \cup {item.seq}
    <3>1. \A i \in ToSet(one) : i > tab[c].cursor
      BY <2>1, <2>4
    <3>2. /\ \A k, m \in DOMAIN (tab[c].got \o one) :
               k < m => (tab[c].got \o one)[k] < (tab[c].got \o one)[m]
          /\ ToSet(tab[c].got \o one) = ToSet(tab[c].got) \cup ToSet(one)
      BY <1>2, <2>4, <3>1, Concatenated
    <3> QED BY <2>2, <2>4, <3>2
  <2>6. item.seq \in Wanted(c) /\ item.seq \in DOMAIN log
    <3>1. item.seq \in Queued(c)
      BY <1>1, <1>5
    <3> QED BY <3>1 DEF Follows, Reads, Wanted
  <2>7. \A i \in ToSet(u.got) : i <= u.cursor
    <3>1. \A i \in ToSet(tab[c].got) : i \in Nat /\ i <= tab[c].cursor
      BY <1>2 DEF Wanted
    <3>2. \A i \in ToSet(tab[c].got) : i <= item.seq
      BY <1>1, <1>2, <2>1, <3>1
    <3> QED BY <1>1, <2>3, <2>5, <3>2
  <2>8. ASSUME NEW i \in Wanted(c) \cap kept, i <= item.seq
        PROVE  i \in ToSet(u.got) \cup late \cup tab[c].swallowed
    <3>1. i \in Nat
      BY <1>2 DEF Wanted
    <3>2. CASE i <= tab[c].cursor
      BY <2>5, <3>2 DEF Follows, Behind, Got
    <3>3. CASE i = item.seq
      BY <2>5, <3>3
    <3>4. CASE tab[c].cursor < i /\ i < item.seq
      <4>1. SUFFICES ASSUME i \notin late, i \notin tab[c].swallowed PROVE FALSE
        OBVIOUS
      <4>2. i \in Ordered(c) /\ Past(c)
        BY <2>8, <4>1 DEF Ordered, Past
      <4>3. Passed(c, 1, i)
        BY <1>1, <1>2, <3>4, <4>2 DEF Follows, InTurn
      <4>4. PICK k \in 1 .. (1 - 1) : TRUE
        BY <4>3 DEF Passed
      <4> QED BY <4>4
    <3> QED BY <1>1, <1>2, <2>8, <3>1, <3>2, <3>3, <3>4
  <2>9. u.cursor >= tab[c].cursor
    BY <1>1, <1>2, <2>1, <2>3
  <2> QED BY <1>2, <1>3, <1>5, <2>3, <2>5, <2>6, <2>7, <2>8, <2>9
<1> QED BY <1>1, <1>4, <1>5

\* A tab that has nothing queued and no stream has only its own rows to answer for.
LEMMA FollowsClosed ==
    ASSUME Shared, Grows, NEW c \in Client, server'[c] = Off,
           log' = log, kept' = kept, late' = late,
           NEW u, u \in Tabs, u.stream = tab[c].stream, u.swallowed = tab[c].swallowed,
           \A k, m \in DOMAIN u.got : k < m => u.got[k] < u.got[m],
           ToSet(u.got) \subseteq Wanted(c),
           \A i \in ToSet(u.got) : i <= u.cursor,
           u.cursor \in DOMAIN log \cup {0},
           \A i \in Wanted(c) \cap kept :
             i <= u.cursor => i \in ToSet(u.got) \cup late \cup u.swallowed,
           tab'[c].got = u.got, tab'[c].cursor = u.cursor, tab'[c].swallowed = u.swallowed
    PROVE  Follows(c)'
<1>1. /\ Got(c)' = ToSet(u.got) /\ ~Subscribed(c)' /\ ~Past(c)'
      /\ Queued(c)' = {} /\ server'[c].queue = <<>>
  BY DEF Off, Got, Subscribed, Past, Queued, ToSet
<1>2. Wanted(c)' = Wanted(c)
  BY DEF Grows, Wanted, Wants
<1>3. Len(server'[c].queue) <= Limit
  BY <1>1, EventStreamAssumption
<1>4. Reads(c)'
  BY <1>1, <1>2, <1>3 DEF Reads
<1>5. Behind(c)'
  BY <1>1, <1>2 DEF Behind
<1>6. Ahead(c)' /\ Announced(c)' /\ InTurn(c)'
  BY <1>1 DEF Ahead, Announced, InTurn
<1> QED BY <1>4, <1>5, <1>6 DEF Follows

LEMMA OffTypes ==
    /\ Off \in Ends
    /\ Off.pc = "off" /\ Off.queue = <<>>
    /\ \A from, skip \in Nat :
         LET s == [Off EXCEPT !.delivered = from, !.skip = skip]
         IN  /\ s \in Ends /\ s.delivered = from /\ s.skip = skip
             /\ s.queue = <<>> /\ s.dropped = FALSE
<1> DEFINE none == <<>>
<1>1. none \in Seq(Items)
  OBVIOUS
<1>2. Off = [pc |-> "off", delivered |-> 0, skip |-> 0, queue |-> none, dropped |-> FALSE]
  BY DEF Off
<1> HIDE DEF none
<1>3. Off \in Ends /\ Off.pc = "off" /\ Off.queue = none /\ Off.dropped = FALSE
  BY <1>1, <1>2 DEF Ends
<1>4. ASSUME NEW from \in Nat, NEW skip \in Nat
      PROVE  LET s == [Off EXCEPT !.delivered = from, !.skip = skip]
             IN  /\ s \in Ends /\ s.delivered = from /\ s.skip = skip
                 /\ s.queue = none /\ s.dropped = FALSE
  BY <1>3 DEF Ends
<1> QED BY <1>3, <1>4 DEF none

\* The three things the live loop does with the head of a queue.
LEMMA FollowsDeliver ==
    ASSUME Shared, NEW c \in Client, Follows(c), Deliver(c)
    PROVE  /\ Follows(c)' /\ Grows
           /\ server' \in [Client -> Ends] /\ tab' \in [Client -> Tabs]
           /\ \A d \in Client \ {c} : server'[d] = server[d] /\ tab'[d] = tab[d]
           /\ calls' \in {calls, CallsWithout(c)}
<1> DEFINE s == server[c]
           q == s.queue
           item == Head(q)
           u == GetItem(tab[c], item)
<1>1. /\ s.pc = "live" /\ q # <<>>
      /\ UNCHANGED <<log, kept, late, written, over, inserted, faults>>
  BY DEF Deliver
<1>2. /\ s \in Ends /\ tab[c] \in Tabs /\ q \in Seq(Items)
      /\ server \in [Client -> Ends] /\ tab \in [Client -> Tabs]
      /\ \A i : i \in Queued(c) <=> i # 0 /\ \E k \in DOMAIN q : q[k].seq = i
      /\ DOMAIN log \subseteq Nat /\ 0 \notin DOMAIN log
  <2>1. StreamTypes
    BY DEF Shared
  <2> QED BY <2>1, QueuedAre DEF StreamTypes
<1>3. /\ item \in Items /\ item = q[1] /\ Tail(q) \in Seq(Items) /\ item.seq \in Nat
      /\ Len(Tail(q)) <= Limit /\ 1 \in DOMAIN q
      /\ \A k \in DOMAIN Tail(q) : Tail(q)[k] = q[k + 1] /\ k + 1 \in DOMAIN q /\ k \in Nat
      /\ \A k \in DOMAIN q : k # 1 => k - 1 \in DOMAIN Tail(q) /\ Tail(q)[k - 1] = q[k]
      /\ DOMAIN q \subseteq Nat
  <2>1. Len(q) <= Limit /\ Limit \in Nat
    BY EventStreamAssumption DEF Follows, Reads
  <2> HIDE DEF q
  <2>2. /\ Head(q) \in Items /\ Head(q) = q[1] /\ Tail(q) \in Seq(Items)
        /\ Len(q) \in Nat /\ Len(q) > 0 /\ DOMAIN q = 1 .. Len(q)
        /\ DOMAIN Tail(q) = 1 .. (Len(q) - 1)
        /\ \A k \in DOMAIN Tail(q) : Tail(q)[k] = q[k + 1] /\ k + 1 \in DOMAIN q
    BY <1>1, <1>2, HeadAndTail
  <2>3. \A k \in DOMAIN q : k # 1 => k - 1 \in DOMAIN Tail(q) /\ Tail(q)[k - 1] = q[k]
    BY <1>1, <1>2, BehindTheHead
  <2>4. Len(Tail(q)) = Len(q) - 1
    BY <1>1, <1>2
  <2> QED BY <2>1, <2>2, <2>3, <2>4 DEF Items
<1>4. tab[c].cursor = s.delivered /\ s.delivered \in Nat
  BY <1>1, <1>2 DEF Follows, Reads, Subscribed, Ends
<1>5. ASSUME NEW to \in Nat, to >= s.delivered,
             server' = [server EXCEPT ![c] = [s EXCEPT !.queue = Tail(q), !.delivered = to]],
             calls' = calls, tab'[c].stream = tab[c].stream,
             tab'[c].swallowed = tab[c].swallowed,
             (Replayed(c, item) /\ to = s.delivered) \/ (~s.dropped /\ item.seq <= to)
      PROVE  /\ server' \in [Client -> Ends]
             /\ server'[c].queue = Tail(q) /\ server'[c].delivered = to
             /\ Queued(c)' \subseteq Queued(c)
             /\ Ahead(c)' /\ Announced(c)' /\ InTurn(c)'
  <2>1. /\ server'[c] = [s EXCEPT !.queue = Tail(q), !.delivered = to]
        /\ server' \in [Client -> Ends]
    <3>1. [s EXCEPT !.queue = Tail(q), !.delivered = to] \in Ends
      BY <1>2, <1>3, <1>5 DEF Ends
    <3> QED BY <1>2, <1>5, <3>1
  <2>2. /\ server'[c].queue = Tail(q) /\ server'[c].delivered = to
        /\ server'[c].dropped = s.dropped /\ server'[c].pc = "live"
    BY <1>1, <1>2, <2>1 DEF Ends
  <2>3. \A i : i \in Queued(c)' <=> i # 0 /\ \E k \in DOMAIN Tail(q) : Tail(q)[k].seq = i
    <3> DEFINE r == server'[c].queue
    <3>1. \A x : x \in ToSet(r) <=> \E k \in DOMAIN r : r[k] = x
      BY DEF ToSet
    <3>2. Queued(c)' = {x.seq : x \in ToSet(r)} \ {0}
      BY DEF Queued
    <3>3. r = Tail(q)
      BY <2>2
    <3> HIDE DEF r, q
    <3> QED BY <3>1, <3>2, <3>3
  <2> HIDE DEF q, s, item
  <2>4. Queued(c)' \subseteq Queued(c)
    BY <1>2, <1>3, <2>3
  <2>5. item.seq <= to
    BY <1>3, <1>4, <1>5 DEF Replayed, s
  <2>6. \A i \in Queued(c) : i > to => i \in Queued(c)'
    <3>1. ASSUME NEW i \in Queued(c), i > to PROVE i \in Queued(c)'
      <4>1. PICK k \in DOMAIN q : q[k].seq = i /\ i # 0
        BY <1>2
      <4>2. k # 1
        BY <1>3, <1>5, <2>5, <3>1, <4>1
      <4> QED BY <1>3, <2>3, <4>1, <4>2
    <3> QED BY <3>1
  <2>7. /\ Wanted(c)' = Wanted(c) /\ Ordered(c)' = Ordered(c) /\ kept' = kept
        /\ \A i : OnTheWay(c, i)' = OnTheWay(c, i)
        /\ Past(c) /\ Past(c)'
    BY <1>1, <1>5, <2>2 DEF Wanted, Wants, Ordered, OnTheWay, Past, s
  <2>8. \A i \in Wanted(c) : i \in Nat /\ (i > to => i > s.delivered)
    BY <1>2, <1>4, <1>5 DEF Wanted
  <2>9. ASSUME s.dropped, NEW k \in DOMAIN q, Fresh(c, k)
        PROVE  k # 1 /\ k - 1 \in DOMAIN Tail(q) /\ Fresh(c, k - 1)'
    <3>1. Replayed(c, item) /\ to = s.delivered
      BY <1>5, <2>9
    <3>2. k # 1
      BY <1>3, <2>9, <3>1 DEF Fresh, q, s
    <3>3. k - 1 \in DOMAIN Tail(q) /\ Tail(q)[k - 1] = q[k]
      BY <1>3, <3>2
    <3>4. ~(q[k].seq > 0 /\ q[k].seq <= s.delivered)
      BY <2>9 DEF Fresh, Replayed, q, s
    <3>5. Fresh(c, k - 1)'
      BY <2>2, <3>1, <3>3, <3>4 DEF Fresh, Replayed
    <3> QED BY <3>2, <3>3, <3>5
  <2>10. Ahead(c)'
    <3>1. ASSUME NEW i \in Wanted(c) \cap kept, i > to
          PROVE  i \in Queued(c)' \/ OnTheWay(c, i)' \/ server'[c].dropped
      <4>1. i \in Queued(c) \/ OnTheWay(c, i) \/ s.dropped
        BY <2>7, <2>8, <3>1 DEF Follows, Ahead, s
      <4> QED BY <2>2, <2>6, <2>7, <3>1, <4>1
    <3> QED BY <2>2, <2>7, <3>1 DEF Ahead
  <2>11. Announced(c)'
    <3>1. ASSUME NEW i \in Ordered(c), i > to, i \notin Queued(c)'
          PROVE  s.dropped /\ \E k \in DOMAIN Tail(q) : Fresh(c, k)'
      <4>1. i \in Wanted(c)
        BY DEF Ordered
      <4>2. i \in Queued(c) \/ (s.dropped /\ \E k \in DOMAIN q : Fresh(c, k))
        BY <2>7, <2>8, <3>1, <4>1 DEF Follows, Announced, s, q
      <4>3. PICK k \in DOMAIN q : s.dropped /\ Fresh(c, k)
        BY <2>6, <3>1, <4>2
      <4> QED BY <2>9, <4>3
    <3> QED BY <2>2, <2>7, <3>1 DEF Announced
  <2>12. InTurn(c)'
    <3>1. ASSUME NEW m \in DOMAIN Tail(q), NEW i \in Ordered(c),
                 to < i, i < Tail(q)[m].seq
          PROVE  Passed(c, m, i)'
      <4>1. m + 1 \in DOMAIN q /\ Tail(q)[m] = q[m + 1] /\ m \in Nat
        BY <1>3
      <4>2. i \in Wanted(c) /\ i \in Nat /\ s.delivered < i
        BY <1>4, <1>5, <2>8, <3>1 DEF Ordered
      <4>3. Passed(c, m + 1, i)
        BY <2>7, <3>1, <4>1, <4>2 DEF Follows, InTurn, s, q
      <4>4. PICK k \in 1 .. ((m + 1) - 1) : q[k].seq = i \/ (s.dropped /\ Fresh(c, k))
        BY <4>3 DEF Passed, s, q
      <4>5. k \in DOMAIN q
        BY <1>2, <4>1, <4>4
      <4>6. CASE q[k].seq = i
        <5>1. k # 1
          <6>1. k = 1 => item.seq = i
            BY <1>3, <4>6
          <6>2. item.seq <= to /\ to < i /\ i \in Nat /\ to \in Nat /\ item.seq \in Nat
            BY <1>3, <2>5, <3>1, <4>2
          <6> HIDE DEF item
          <6> QED BY <6>1, <6>2
        <5>2. k - 1 \in 1 .. (m - 1) /\ server'[c].queue[k - 1].seq = i
          BY <1>3, <2>2, <4>1, <4>4, <4>5, <4>6, <5>1
        <5> QED BY <5>2 DEF Passed
      <4>7. CASE s.dropped /\ Fresh(c, k)
        <5>1. k # 1 /\ Fresh(c, k - 1)'
          BY <2>9, <4>5, <4>7
        <5>2. k - 1 \in 1 .. (m - 1) /\ server'[c].dropped
          BY <2>2, <4>1, <4>4, <4>7, <5>1
        <5> QED BY <5>1, <5>2 DEF Passed
      <4> QED BY <4>4, <4>6, <4>7
    <3> QED BY <2>2, <2>7, <3>1 DEF InTurn
  <2> QED BY <2>1, <2>2, <2>4, <2>10, <2>11, <2>12 DEF s, q
<1>6. CASE Replayed(c, item)
  <2>1. server' = [server EXCEPT ![c].queue = Tail(q)] /\ tab' = tab /\ calls' = calls
    BY <1>6 DEF Deliver
  <2>2. server' = [server EXCEPT ![c] = [s EXCEPT !.queue = Tail(q), !.delivered = s.delivered]]
    <3>1. [s EXCEPT !.queue = Tail(q), !.delivered = s.delivered] = [s EXCEPT !.queue = Tail(q)]
      BY <1>2 DEF Ends
    <3> QED BY <2>1, <3>1
  <2> HIDE DEF q, s, item
  <2>3. /\ server' \in [Client -> Ends]
        /\ server'[c].queue = Tail(q) /\ server'[c].delivered = s.delivered
        /\ Queued(c)' \subseteq Queued(c)
        /\ Ahead(c)' /\ Announced(c)' /\ InTurn(c)'
    <3>1. s.delivered \in Nat /\ s.delivered >= s.delivered
      BY <1>4
    <3>2. tab'[c].stream = tab[c].stream /\ tab'[c].swallowed = tab[c].swallowed
      BY <2>1
    <3> QED BY <1>5, <1>6, <2>1, <2>2, <3>1, <3>2
  <2>4. /\ Wanted(c)' = Wanted(c) /\ Got(c)' = Got(c) /\ tab'[c] = tab[c]
        /\ kept' = kept /\ late' = late /\ log' = log
    BY <1>1, <2>1 DEF Wanted, Wants, Got
  <2>5. Reads(c)'
    BY <1>3, <1>4, <2>3, <2>4 DEF Follows, Reads
  <2>6. Behind(c)'
    BY <2>4 DEF Follows, Behind
  <2>7. Grows
    BY <1>1, <2>1 DEF Grows, Shared, StreamTypes
  <2>8. \A d \in Client \ {c} : server'[d] = server[d] /\ tab'[d] = tab[d]
    BY <1>2, <2>1
  <2> QED BY <1>2, <2>1, <2>3, <2>5, <2>6, <2>7, <2>8 DEF Follows
<1>7. ASSUME ~Replayed(c, item)
      PROVE  /\ u \in Tabs
             /\ u.stream = tab[c].stream /\ u.swallowed = tab[c].swallowed
             /\ \A k, m \in DOMAIN u.got : k < m => u.got[k] < u.got[m]
             /\ ToSet(u.got) \subseteq Wanted(c)
             /\ \A i \in ToSet(u.got) : i <= u.cursor
             /\ u.cursor \in DOMAIN log \cup {0}
             /\ u.cursor = IF item.seq > 0 THEN item.seq ELSE tab[c].cursor
             /\ u.cursor >= tab[c].cursor
             /\ \A i \in Wanted(c) \cap kept :
                  i <= u.cursor => i \in ToSet(u.got) \cup late \cup tab[c].swallowed
  BY <1>1, <1>7, TabAfterItem
<1> HIDE DEF u
<1>8. CASE ~Replayed(c, item) /\ ~s.dropped
  <2> DEFINE to == IF item.seq > 0 THEN item.seq ELSE s.delivered
  <2>1. /\ server' = [server EXCEPT ![c].queue = Tail(q), ![c].delivered = to]
        /\ tab' = [tab EXCEPT ![c] = u] /\ calls' = calls
    BY <1>8 DEF Deliver, u
  <2>2. server' = [server EXCEPT ![c] = [s EXCEPT !.queue = Tail(q), !.delivered = to]]
    BY <1>2, <2>1
  <2>3. to \in Nat /\ to >= s.delivered /\ item.seq <= to /\ u.cursor = to
    BY <1>3, <1>4, <1>7, <1>8
  <2> HIDE DEF q, s, item, to
  <2>4. tab'[c] = u /\ tab' \in [Client -> Tabs]
    BY <1>2, <1>7, <1>8, <2>1
  <2>5. /\ server' \in [Client -> Ends]
        /\ server'[c].queue = Tail(q) /\ server'[c].delivered = to
        /\ Queued(c)' \subseteq Queued(c)
        /\ Ahead(c)' /\ Announced(c)' /\ InTurn(c)'
    <3>1. tab'[c].stream = tab[c].stream /\ tab'[c].swallowed = tab[c].swallowed
      BY <1>7, <1>8, <2>4
    <3> QED BY <1>5, <1>8, <2>1, <2>2, <2>3, <3>1
  <2>6. /\ Wanted(c)' = Wanted(c) /\ Got(c)' = ToSet(u.got)
        /\ kept' = kept /\ late' = late /\ log' = log
    BY <1>1, <1>7, <1>8, <2>4 DEF Wanted, Wants, Got
  <2>7. Reads(c)'
    <3>1. Queued(c)' \subseteq Wanted(c)
      BY <2>5 DEF Follows, Reads
    <3> QED BY <1>3, <1>7, <1>8, <2>3, <2>4, <2>5, <2>6, <3>1 DEF Reads
  <2>8. Behind(c)'
    BY <1>7, <1>8, <2>4, <2>6 DEF Behind
  <2>9. \A d \in Client \ {c} : server'[d] = server[d] /\ tab'[d] = tab[d]
    BY <1>2, <2>1, <2>2
  <2>10. Grows
    <3>1. \A d \in Client : tab'[d].stream = tab[d].stream
      BY <1>7, <1>8, <2>4, <2>9
    <3> QED BY <1>1, <3>1 DEF Grows, Shared, StreamTypes
  <2> QED BY <2>1, <2>4, <2>5, <2>7, <2>8, <2>9, <2>10 DEF Follows
<1>9. CASE ~Replayed(c, item) /\ s.dropped
  <2>1. Closed(c, u)
    BY <1>9 DEF Deliver, u
  <2>2. /\ server' = [server EXCEPT ![c] = Off] /\ calls' = CallsWithout(c)
        /\ tab' = [tab EXCEPT ![c] = [u EXCEPT !.first = FALSE]]
    BY <2>1 DEF Closed
  <2>3. Off \in Ends
    BY DEF Off, Ends
  <2>4. [u EXCEPT !.first = FALSE] \in Tabs
    BY <1>7, <1>9 DEF Tabs
  <2>5. server' \in [Client -> Ends] /\ tab' \in [Client -> Tabs] /\ server'[c] = Off
    BY <1>2, <2>2, <2>3, <2>4
  <2>6. /\ tab'[c].got = u.got /\ tab'[c].cursor = u.cursor
        /\ tab'[c].swallowed = u.swallowed /\ tab'[c].stream = u.stream
    BY <1>2, <1>7, <1>9, <2>2 DEF Tabs
  <2>7. \A d \in Client \ {c} : server'[d] = server[d] /\ tab'[d] = tab[d]
    BY <1>2, <2>2
  <2>8. Grows
    <3>1. \A d \in Client : tab'[d].stream = tab[d].stream
      BY <1>7, <1>9, <2>6, <2>7
    <3> QED BY <1>1, <3>1 DEF Grows, Shared, StreamTypes
  <2>9. Follows(c)'
    <3> HIDE DEF s, q, item
    <3>1. log' = log /\ kept' = kept /\ late' = late
      BY <1>1
    <3> QED BY <1>7, <1>9, <2>5, <2>6, <2>8, <3>1, FollowsClosed
  <2> QED BY <2>2, <2>5, <2>7, <2>8, <2>9
<1> QED BY <1>6, <1>8, <1>9
----------------------------------------------------------------------------
(* Every step keeps every tab's rows *)

LEMMA OthersFollow ==
    ASSUME Shared, Grows, UNCHANGED <<log, kept, late, inserted>>,
           NEW d \in Client, calls' \in {calls, CallsWithout(d)},
           NEW c \in Client \ {d}, Follows(c), Untouched(c)
    PROVE  Follows(c)'
<1>1. Wanted(c)' = Wanted(c) /\ Ordered(c)' = Ordered(c)
  BY DEF Untouched, Wanted, Wants, Ordered
<1>2. \A i : OnTheWay(c, i) => OnTheWay(c, i)'
  <2>1. ASSUME NEW i, NEW k \in DOMAIN calls, calls[k] = <<c, i>>
        PROVE  \E m \in DOMAIN calls' : calls'[m] = <<c, i>>
    <3>1. calls[k][1] # d
      BY <2>1
    <3>2. CASE calls' = CallsWithout(d)
      BY <2>1, <3>1, <3>2, OthersCalls DEF Shared
    <3> QED BY <2>1, <3>2
  <2> QED BY <2>1 DEF OnTheWay
<1>3. StillComing(c)
  <2>1. \A i \in Wanted(c) : i \in DOMAIN log
    BY DEF Wanted
  <2> QED BY <1>1, <1>2, <2>1 DEF StillComing
<1> QED BY <1>1, <1>3, FollowsUntouched

\* A stream's step, or the loss of its connection, is its own tab's.
LEMMA StepOfOne ==
    ASSUME Shared, \A c \in Client : Follows(c),
           NEW d \in Client,
           UNCHANGED <<log, kept, late, written, over, inserted>>, faults' \in Nat,
           calls' \in {calls, CallsWithout(d)},
           server' \in [Client -> Ends], tab' \in [Client -> Tabs],
           tab'[d].stream = tab[d].stream,
           \A c \in Client \ {d} : server'[c] = server[c] /\ tab'[c] = tab[c]
    PROVE  /\ Shared' /\ Grows
           /\ \A c \in Client \ {d} : Follows(c)'
<1>1. StreamTypes
  BY DEF Shared
<1>2. \A c \in Client : tab'[c].stream = tab[c].stream
  OBVIOUS
<1>3. /\ calls' \in Seq(Client \X Nat)
      /\ \A k \in DOMAIN calls' : \E m \in DOMAIN calls : calls'[k] = calls[m]
  <2>1. CASE calls' = calls
    BY <1>1, <2>1 DEF StreamTypes
  <2>2. CASE calls' = CallsWithout(d)
    BY <1>1, <2>2, OthersCalls
  <2> QED BY <2>1, <2>2
<1>4. Shared' /\ Grows
  <2>1. inserted' \in {inserted, 0} /\ UNCHANGED <<log, kept, late, written, over>>
    OBVIOUS
  <2> QED BY <1>2, <1>3, <2>1, SharedAfterStream
<1>5. ASSUME NEW c \in Client \ {d} PROVE Follows(c)'
  <2>1. Untouched(c) /\ UNCHANGED <<log, kept, late, inserted>>
    BY DEF Untouched
  <2> QED BY <1>4, <2>1, OthersFollow
<1> QED BY <1>4, <1>5

LEMMA StepBatch ==
    ASSUME Shared, \A c \in Client : Follows(c),
           NEW d \in Client, Open(d) \/ NextBatch(d)
    PROVE  Shared' /\ \A c \in Client : Follows(c)'
<1>1. PICK s \in Ends : /\ s.delivered = tab[d].cursor /\ s.queue \in {<<>>, server[d].queue}
                        /\ SendBatch(d, s)
  <2>1. CASE Open(d)
    <3> DEFINE s == [Off EXCEPT !.delivered = tab[d].cursor, !.skip = tab[d].lines]
    <3>1. tab[d] \in Tabs
      BY DEF Shared, StreamTypes
    <3>2. s \in Ends /\ s.delivered = tab[d].cursor /\ s.queue = <<>>
      <4>1. tab[d].cursor \in Nat /\ tab[d].lines \in Nat
        BY <3>1 DEF Tabs
      <4> QED BY ZenonT(40), <4>1, OffTypes
    <3>3. SendBatch(d, s)
      BY <2>1 DEF Open
    <3> QED BY <3>2, <3>3
  <2>2. CASE NextBatch(d)
    <3>1. server[d] \in Ends
      BY DEF Shared, StreamTypes
    <3>2. server[d].pc # "off"
      BY <2>2 DEF NextBatch
    <3>3. server[d].delivered = tab[d].cursor
      BY <3>2 DEF Follows, Reads, Subscribed
    <3>4. SendBatch(d, server[d])
      BY <2>2 DEF NextBatch
    <3> QED BY <3>1, <3>3, <3>4
  <2> QED BY <2>1, <2>2
<1>2. StreamUnchanged
  BY DEF Open, NextBatch
<1>3. Follows(d)'
  BY <1>1, <1>2, FollowsBatch
<1>4. /\ server' \in [Client -> Ends] /\ tab' \in [Client -> Tabs]
      /\ tab'[d].stream = tab[d].stream
      /\ \A c \in Client \ {d} : server'[c] = server[c] /\ tab'[c] = tab[c]
  <2>1. StreamTypes
    BY DEF Shared
  <2>2. server' \in [Client -> Ends] /\ tab' \in [Client -> Tabs]
    BY <1>1, <2>1, BatchSent
  <2>3. tab'[d].stream = tab[d].stream
    BY <1>1, <2>1, BatchSent
  <2>4. \A c \in Client \ {d} : server'[c] = server[c] /\ tab'[c] = tab[c]
    BY <1>1, <2>1, BatchSent
  <2> QED BY <2>2, <2>3, <2>4
<1>5. Shared' /\ \A c \in Client \ {d} : Follows(c)'
  <2>1. /\ UNCHANGED <<log, kept, late, written, over, inserted>> /\ faults' \in Nat
        /\ calls' \in {calls, CallsWithout(d)}
    BY <1>2 DEF StreamUnchanged, Shared, StreamTypes
  <2> QED BY <1>4, <2>1, StepOfOne
<1> QED BY <1>3, <1>5

LEMMA StepReplayLines ==
    ASSUME Shared, \A c \in Client : Follows(c), NEW d \in Client, ReplayLines(d)
    PROVE  Shared' /\ \A c \in Client : Follows(c)'
<1>1. /\ Follows(d)'
      /\ server' \in [Client -> Ends] /\ tab' \in [Client -> Tabs]
      /\ tab'[d].stream = tab[d].stream
      /\ \A c \in Client \ {d} : server'[c] = server[c] /\ tab'[c] = tab[c]
  BY FollowsReplayLines
<1>2. /\ UNCHANGED <<log, kept, late, written, over, inserted>> /\ faults' \in Nat
      /\ calls' \in {calls, CallsWithout(d)}
  BY DEF ReplayLines, StreamUnchanged, Shared, StreamTypes
<1>3. Shared' /\ \A c \in Client \ {d} : Follows(c)'
  BY <1>1, <1>2, StepOfOne
<1> QED BY <1>1, <1>3

LEMMA StepDeliver ==
    ASSUME Shared, \A c \in Client : Follows(c), NEW d \in Client, Deliver(d)
    PROVE  Shared' /\ \A c \in Client : Follows(c)'
<1>1. /\ Follows(d)' /\ Grows
      /\ server' \in [Client -> Ends] /\ tab' \in [Client -> Tabs]
      /\ \A c \in Client \ {d} : server'[c] = server[c] /\ tab'[c] = tab[c]
      /\ calls' \in {calls, CallsWithout(d)}
  BY FollowsDeliver
<1>2. UNCHANGED <<log, kept, late, written, over, inserted>> /\ faults' \in Nat
  BY DEF Deliver, Shared, StreamTypes
<1>3. tab'[d].stream = tab[d].stream
  BY <1>1 DEF Grows
<1>4. Shared' /\ \A c \in Client \ {d} : Follows(c)'
  BY <1>1, <1>2, <1>3, StepOfOne
<1> QED BY <1>1, <1>4

LEMMA StepDisconnect ==
    ASSUME Shared, \A c \in Client : Follows(c), NEW d \in Client, Disconnect(d)
    PROVE  Shared' /\ \A c \in Client : Follows(c)'
<1>1. /\ server' = [server EXCEPT ![d] = Off] /\ calls' = CallsWithout(d)
      /\ tab' = [tab EXCEPT ![d] = [tab[d] EXCEPT !.first = FALSE]]
      /\ UNCHANGED <<log, kept, late, written, over, inserted>> /\ faults' = faults + 1
  BY DEF Disconnect, Closed
<1>2. /\ server \in [Client -> Ends] /\ tab \in [Client -> Tabs] /\ tab[d] \in Tabs
      /\ faults \in Nat
  BY DEF Shared, StreamTypes
<1>3. Off \in Ends /\ [tab[d] EXCEPT !.first = FALSE] \in Tabs
  BY <1>2, OffTypes DEF Tabs
<1>4. /\ server' \in [Client -> Ends] /\ tab' \in [Client -> Tabs] /\ server'[d] = Off
      /\ \A c \in Client \ {d} : server'[c] = server[c] /\ tab'[c] = tab[c]
  BY <1>1, <1>2, <1>3
<1>5. /\ tab'[d].got = tab[d].got /\ tab'[d].cursor = tab[d].cursor
      /\ tab'[d].swallowed = tab[d].swallowed /\ tab'[d].stream = tab[d].stream
  BY <1>1, <1>2 DEF Tabs
<1>6. Shared' /\ Grows /\ \A c \in Client \ {d} : Follows(c)'
  <2>1. calls' \in {calls, CallsWithout(d)} /\ faults' \in Nat
    BY <1>1, <1>2
  <2> QED BY <1>1, <1>4, <1>5, <2>1, StepOfOne
<1>7. Follows(d)'
  <2>1. /\ \A k, m \in DOMAIN tab[d].got : k < m => tab[d].got[k] < tab[d].got[m]
        /\ ToSet(tab[d].got) \subseteq Wanted(d)
        /\ \A i \in ToSet(tab[d].got) : i <= tab[d].cursor
        /\ tab[d].cursor \in DOMAIN log \cup {0}
        /\ \A i \in Wanted(d) \cap kept :
             i <= tab[d].cursor => i \in ToSet(tab[d].got) \cup late \cup tab[d].swallowed
    BY DEF Follows, Reads, Behind, Got
  <2>2. log' = log /\ kept' = kept /\ late' = late
    BY <1>1
  <2> QED BY <1>2, <1>4, <1>5, <1>6, <2>1, <2>2, FollowsClosed
<1> QED BY <1>6, <1>7

LEMMA StepCrash ==
    ASSUME Shared, \A c \in Client : Follows(c), Crash
    PROVE  Shared' /\ \A c \in Client : Follows(c)'
<1>1. /\ inserted' = 0 /\ calls' = <<>> /\ server' = [c \in Client |-> Off]
      /\ tab' = [c \in Client |-> [tab[c] EXCEPT !.first = @ /\ ~Subscribed(c)]]
      /\ UNCHANGED <<log, kept, late, written, over>> /\ faults' = faults + 1
  BY DEF Crash
<1>2. tab \in [Client -> Tabs] /\ faults \in Nat
  BY DEF Shared, StreamTypes
<1>3. ASSUME NEW c \in Client
      PROVE  /\ server'[c] = Off /\ Off \in Ends /\ tab'[c] \in Tabs
             /\ tab'[c].got = tab[c].got /\ tab'[c].cursor = tab[c].cursor
             /\ tab'[c].swallowed = tab[c].swallowed /\ tab'[c].stream = tab[c].stream
  <2>1. tab[c] \in Tabs /\ tab'[c] = [tab[c] EXCEPT !.first = @ /\ ~Subscribed(c)]
    BY <1>1, <1>2
  <2>2. PICK b \in BOOLEAN : b = (tab[c].first /\ ~Subscribed(c))
    OBVIOUS
  <2>3. tab'[c] = [tab[c] EXCEPT !.first = b]
    BY <2>1, <2>2
  <2>4. server'[c] = Off /\ Off \in Ends
    BY <1>1, OffTypes
  <2> QED BY <2>1, <2>3, <2>4 DEF Tabs
<1>4. server' \in [Client -> Ends] /\ tab' \in [Client -> Tabs]
  BY <1>1, <1>3
<1>5. Shared' /\ Grows
  <2>1. /\ calls' \in Seq(Client \X Nat) /\ DOMAIN calls' = {}
        /\ inserted' \in {inserted, 0} /\ faults' \in Nat
    BY <1>1, <1>2
  <2>2. UNCHANGED <<log, kept, late, written, over>>
    BY <1>1
  <2> QED BY <1>3, <1>4, <2>1, <2>2, SharedAfterStream
<1>6. ASSUME NEW c \in Client PROVE Follows(c)'
  <2>1. /\ \A k, m \in DOMAIN tab[c].got : k < m => tab[c].got[k] < tab[c].got[m]
        /\ ToSet(tab[c].got) \subseteq Wanted(c)
        /\ \A i \in ToSet(tab[c].got) : i <= tab[c].cursor
        /\ tab[c].cursor \in DOMAIN log \cup {0}
        /\ \A i \in Wanted(c) \cap kept :
             i <= tab[c].cursor => i \in ToSet(tab[c].got) \cup late \cup tab[c].swallowed
    BY DEF Follows, Reads, Behind, Got
  <2>2. log' = log /\ kept' = kept /\ late' = late /\ tab[c] \in Tabs
    BY <1>1, <1>2
  <2> QED BY <1>3, <1>5, <2>1, <2>2, FollowsClosed
<1> QED BY <1>5, <1>6

\* Who is offered an item, and who is not.
LEMMA Offers ==
    ASSUME Shared, NEW S \in SUBSET Client, NEW item, Offer(S, item), NEW c \in Client
    PROVE  /\ c \in S => Offering(c, item)
           /\ c \notin S => Untouched(c)
BY DEF Offer, Offering, Untouched, Shared, StreamTypes

LEMMA StepEmit ==
    ASSUME Shared, \A c \in Client : Follows(c), NEW names \in Names, Emit(names)
    PROVE  Shared' /\ \A c \in Client : Follows(c)'
<1> DEFINE n == Len(log) + 1
           S == {c \in Client : Subscribed(c) /\ Wants(c, names)}
<1>1. Shared' /\ Grows
  BY SharedAfterEmit
<1>2. /\ Offer(S, RowItem(n)) /\ UNCHANGED <<late, inserted, calls>>
      /\ DOMAIN log = 1 .. Len(log) /\ n \notin DOMAIN log
      /\ DOMAIN log' = DOMAIN log \cup {n} /\ log'[n] = names /\ kept' = kept \cup {n}
      /\ n \in Nat /\ n > 0 /\ \A i \in DOMAIN log : i < n
  <2>1. StreamTypes
    BY DEF Shared
  <2>2. Insert(names)
    BY DEF Emit
  <2>3. /\ DOMAIN log = 1 .. Len(log) /\ n \notin DOMAIN log
        /\ DOMAIN log' = DOMAIN log \cup {n} /\ log'[n] = names /\ kept' = kept \cup {n}
        /\ n \in Nat /\ n > 0
    BY <2>1, <2>2, Inserted
  <2>4. Len(log) \in Nat
    BY <2>1 DEF StreamTypes
  <2> QED BY <2>3, <2>4 DEF Emit
<1>3. \A c \in S : Subscribed(c) /\ Wants(c, names)
  OBVIOUS
<1>4. \A c \in Client : c \notin S => ~Subscribed(c) \/ ~Wants(c, names)
  OBVIOUS
<1>5. S \in SUBSET Client
  OBVIOUS
<1> HIDE DEF n, S
<1>6. ASSUME NEW c \in Client
      PROVE  /\ n \in Wanted(c)' <=> Wants(c, names)
             /\ \A i \in Wanted(c)' \cap kept' : i = n \/ (i \in DOMAIN log /\ i \in kept)
             /\ \A i : OnTheWay(c, i)' = OnTheWay(c, i)
             /\ Past(c) => Subscribed(c)
  BY <1>1, <1>2 DEF Wanted, Wants, Grows, OnTheWay, Past, Subscribed
<1>7. ASSUME NEW c \in S PROVE Follows(c)'
  <2>1. c \in Client /\ Offering(c, RowItem(n))
    BY <1>2, <1>5, Offers
  <2>2. RowItem(n) \in Items /\ RowItem(n).seq = n
    BY <1>2, ItemsMade
  <2>3. n \in Wanted(c)'
    BY <1>3, <1>6, <2>1
  <2>4. Ordered(c)' \subseteq Ordered(c) \cup {n}
    <3>1. tab[c].swallowed \subseteq tab'[c].swallowed
      BY <2>1 DEF Offering, Shared, StreamTypes, Tabs
    <3> QED BY <1>2, <1>1, <1>6, <2>1, <3>1, WantedGrows DEF Ordered
  <2>5. \A i \in Wanted(c)' \cap kept' :
            (i \in DOMAIN log /\ ~OnTheWay(c, i)) \/ OnTheWay(c, i)' \/ i = n
    BY <1>6, <2>1
  <2> QED BY <1>1, <1>2, <2>1, <2>2, <2>3, <2>4, <2>5, FollowsOffered
<1>8. ASSUME NEW c \in Client \ S PROVE Follows(c)'
  <2>1. Untouched(c)
    BY <1>2, <1>5, <1>8, Offers
  <2>2. ASSUME Past(c)
        PROVE  Ordered(c)' \subseteq Ordered(c) /\ StillComing(c)
    <3>1. n \notin Wanted(c)'
      BY <1>4, <1>6, <1>8, <2>2
    <3>2. \A i \in Wanted(c)' \cap kept' : i \in DOMAIN log /\ i \in kept
      BY <1>6, <3>1
    <3>3. Ordered(c)' \subseteq Ordered(c)
      BY <1>1, <1>2, <2>1, <3>2, WantedGrows DEF Ordered, Untouched
    <3> QED BY <1>6, <3>2, <3>3 DEF StillComing
  <2> QED BY <1>1, <2>1, <2>2, FollowsUntouched
<1> QED BY <1>1, <1>7, <1>8

LEMMA StepEmitInThread ==
    ASSUME Shared, \A c \in Client : Follows(c), EmitInThread
    PROVE  Shared' /\ \A c \in Client : Follows(c)'
<1> DEFINE n == Len(log) + 1
<1>1. Shared' /\ Grows
  BY SharedAfterEmitInThread
<1>2. /\ inserted = 0 /\ inserted' = n /\ late' = late \cup {n}
      /\ UNCHANGED <<calls, server, tab>>
      /\ DOMAIN log' = DOMAIN log \cup {n} /\ kept' = kept \cup {n}
      /\ 0 \notin DOMAIN log
  <2>1. StreamTypes /\ {"repo"} \in Names
    BY DEF Shared, Names
  <2>2. Insert({"repo"})
    BY DEF EmitInThread
  <2>3. DOMAIN log' = DOMAIN log \cup {n} /\ kept' = kept \cup {n}
    BY <2>1, <2>2, Inserted
  <2>4. 0 \notin DOMAIN log
    BY <2>1 DEF StreamTypes
  <2> QED BY <2>3, <2>4 DEF EmitInThread
<1> HIDE DEF n
<1>3. ASSUME NEW c \in Client PROVE Follows(c)'
  <2>1. Untouched(c)
    BY <1>2 DEF Untouched
  <2>2. \A i \in Wanted(c)' \cap kept' : i = n \/ (i \in Wanted(c) /\ i \in kept)
    BY <1>1, <1>2, WantedGrows DEF Grows, Wanted
  <2>3. Ordered(c)' \subseteq Ordered(c)
    BY <1>2, <2>2 DEF Ordered
  <2>4. StillComing(c)
    BY <1>2, <2>2 DEF StillComing, OnTheWay, Wanted
  <2> QED BY <1>1, <2>1, <2>3, <2>4, FollowsUntouched
<1> QED BY <1>1, <1>3

LEMMA StepFanOut ==
    ASSUME Shared, \A c \in Client : Follows(c), FanOut
    PROVE  Shared' /\ \A c \in Client : Follows(c)'
<1>1. Shared' /\ Grows
  BY SharedAfterFanOut
<1>2. /\ inserted # 0 /\ UNCHANGED <<log, kept, late, server, tab>>
      /\ inserted \in late /\ log[inserted] = {"repo"}
  BY DEF FanOut, Shared, StreamTypes
<1>3. /\ DOMAIN calls \subseteq DOMAIN calls'
      /\ \A k \in DOMAIN calls : calls'[k] = calls[k]
      /\ \A c \in Client : Subscribed(c) /\ Wants(c, {"repo"}) =>
                \E k \in DOMAIN calls' : calls'[k] = <<c, inserted>>
  BY CallsAdded DEF Shared
<1>4. ASSUME NEW c \in Client PROVE Follows(c)'
  <2>1. Untouched(c)
    BY <1>2 DEF Untouched
  <2>2. Ordered(c)' = Ordered(c) /\ Wanted(c)' = Wanted(c)
    BY <1>2 DEF Ordered, Wanted, Wants
  <2>3. ASSUME Past(c), NEW i \in Wanted(c), OnTheWay(c, i) PROVE OnTheWay(c, i)'
    <3>1. CASE i = inserted
      <4>1. Subscribed(c) /\ Wants(c, {"repo"})
        BY <1>2, <2>3, <3>1 DEF Past, Subscribed, Wanted
      <4> QED BY <1>3, <3>1, <4>1 DEF OnTheWay
    <3>2. CASE i # inserted
      BY <1>3, <2>3, <3>2 DEF OnTheWay
    <3> QED BY <3>1, <3>2
  <2>4. Past(c) => StillComing(c)
    BY <2>2, <2>3 DEF StillComing, Wanted
  <2> QED BY <1>1, <2>1, <2>2, <2>4, FollowsUntouched
<1> QED BY <1>1, <1>4

LEMMA StepCallOffer ==
    ASSUME Shared, \A c \in Client : Follows(c), CallOffer
    PROVE  Shared' /\ \A c \in Client : Follows(c)'
<1>0. PICK d, n : d = Head(calls)[1] /\ n = Head(calls)[2]
  OBVIOUS
<1>1. Shared' /\ Grows
  BY SharedAfterCallOffer
<1>2. /\ calls # <<>> /\ calls' = Tail(calls) /\ Offer({d}, RowItem(n))
      /\ UNCHANGED <<log, kept, late, inserted>>
  BY <1>0 DEF CallOffer
<1>3. /\ d \in Client /\ n \in late /\ n \in Nat /\ n > 0
      /\ calls[1] = <<d, n>> /\ 1 \in DOMAIN calls
      /\ \A m \in DOMAIN calls : m # 1 => \E k \in DOMAIN calls' : calls'[k] = calls[m]
  <2>1. StreamTypes
    BY DEF Shared
  <2>2. /\ Head(calls) = calls[1] /\ calls[1] = <<calls[1][1], calls[1][2]>>
        /\ calls[1][1] \in Client
        /\ calls[1][2] \in late /\ calls[1][2] \in Nat /\ calls[1][2] > 0
        /\ 1 \in DOMAIN calls
    BY <1>2, <2>1, FirstCall
  <2>3. \A m \in DOMAIN calls : m # 1 =>
           \E k \in DOMAIN Tail(calls) : Tail(calls)[k] = calls[m]
    BY <1>2, <2>1, FirstCall
  <2> QED BY <1>0, <1>2, <2>2, <2>3
<1>4. n \in Wanted(d)
  BY <1>3 DEF Shared, CallsForThem
<1>5. ASSUME NEW c \in Client
      PROVE  /\ Wanted(c)' = Wanted(c) /\ Ordered(c)' \subseteq Ordered(c)
             /\ \A i : OnTheWay(c, i) => OnTheWay(c, i)' \/ (c = d /\ i = n)
  <2>1. Wanted(c)' = Wanted(c)
    BY <1>1, <1>2 DEF Grows, Wanted, Wants
  <2>2. tab[c].swallowed \subseteq tab'[c].swallowed
    BY <1>2 DEF Offer, Shared, StreamTypes, Tabs
  <2>3. \A i : OnTheWay(c, i) => OnTheWay(c, i)' \/ (c = d /\ i = n)
    <3>1. ASSUME NEW i, NEW m \in DOMAIN calls, calls[m] = <<c, i>>, ~(c = d /\ i = n)
          PROVE  \E k \in DOMAIN calls' : calls'[k] = <<c, i>>
      <4>1. m # 1
        BY <1>3, <3>1
      <4> QED BY <1>3, <3>1, <4>1
    <3> QED BY <1>2, <3>1 DEF OnTheWay
  <2> QED BY <1>2, <2>1, <2>2, <2>3 DEF Ordered
<1>6. Follows(d)'
  <2>1. Offering(d, RowItem(n))
    BY <1>2, <1>3, Offers
  <2>2. RowItem(n) \in Items /\ RowItem(n).seq = n
    BY <1>3, ItemsMade
  <2>3. n \in Wanted(d)' /\ n \notin Ordered(d)' /\ Ordered(d)' \subseteq Ordered(d) \cup {n}
    BY <1>2, <1>3, <1>4, <1>5 DEF Ordered
  <2>4. \A i \in Wanted(d)' \cap kept' :
            (i \in DOMAIN log /\ ~OnTheWay(d, i)) \/ OnTheWay(d, i)' \/ i = n
    BY <1>3, <1>5 DEF Wanted
  <2> QED BY <1>1, <1>3, <2>1, <2>2, <2>3, <2>4, FollowsOffered
<1>7. ASSUME NEW c \in Client \ {d} PROVE Follows(c)'
  <2>1. Untouched(c)
    BY <1>2, <1>3, Offers
  <2>2. StillComing(c)
    BY <1>5 DEF StillComing, Wanted
  <2> QED BY <1>1, <1>5, <2>1, <2>2, FollowsUntouched
<1> QED BY <1>1, <1>6, <1>7

LEMMA StepPublishLine ==
    ASSUME Shared, \A c \in Client : Follows(c), PublishLine
    PROVE  Shared' /\ \A c \in Client : Follows(c)'
<1> DEFINE S == {c \in Client : Subscribed(c) /\ Wants(c, {"run"})}
           item == LineItem(written + 1)
<1>1. Shared' /\ Grows
  BY SharedAfterPublishLine
<1>2. Offer(S, item) /\ UNCHANGED <<log, kept, late, inserted, calls>>
  BY DEF PublishLine
<1>3. item \in Items /\ item.seq = 0 /\ ~(item.seq > 0)
  <2>1. written + 1 \in Nat
    BY DEF Shared, StreamTypes
  <2> QED BY <2>1, ItemsMade
<1>4. S \in SUBSET Client
  OBVIOUS
<1> HIDE DEF S, item
<1>5. ASSUME NEW c \in Client PROVE Follows(c)'
  <2>1. Wanted(c)' = Wanted(c) /\ \A i : OnTheWay(c, i)' = OnTheWay(c, i)
    BY <1>1, <1>2 DEF Grows, Wanted, Wants, OnTheWay
  <2>2. tab[c].swallowed \subseteq tab'[c].swallowed
    BY <1>2 DEF Offer, Shared, StreamTypes, Tabs
  <2>3. Ordered(c)' \subseteq Ordered(c) /\ 0 \notin Ordered(c)'
    BY <1>2, <2>1, <2>2 DEF Ordered, Wanted, Shared, StreamTypes
  <2>4. \A i \in Wanted(c)' \cap kept' : (i \in DOMAIN log /\ ~OnTheWay(c, i)) \/ OnTheWay(c, i)'
    BY <2>1 DEF Wanted
  <2>5. CASE c \in S
    <3>1. Offering(c, item)
      BY <1>2, <1>4, <2>5, Offers
    <3> QED BY <1>1, <1>3, <2>3, <2>4, <3>1, FollowsOffered
  <2>6. CASE c \notin S
    <3>1. Untouched(c)
      BY <1>2, <1>4, <2>6, Offers
    <3> QED BY <1>1, <2>3, <2>4, <3>1, FollowsUntouched DEF StillComing
  <2> QED BY <2>5, <2>6
<1> QED BY <1>1, <1>5

LEMMA StepEndRunAndPrune ==
    ASSUME Shared, \A c \in Client : Follows(c),
           EndRun \/ \E upto \in DOMAIN log : Prune(upto)
    PROVE  Shared' /\ \A c \in Client : Follows(c)'
<1>1. Shared' /\ Grows
  BY SharedAfterEndRunAndPrune
<1>2. kept' \subseteq kept /\ UNCHANGED <<log, late, inserted, calls, server, tab>>
  BY DEF EndRun, Prune
<1>3. ASSUME NEW c \in Client PROVE Follows(c)'
  <2>1. Untouched(c)
    BY <1>2 DEF Untouched
  <2>2. /\ Wanted(c)' = Wanted(c) /\ \A i : OnTheWay(c, i)' = OnTheWay(c, i)
        /\ Ordered(c)' \subseteq Ordered(c)
    BY <1>2 DEF Wanted, Wants, OnTheWay, Ordered
  <2>3. StillComing(c)
    BY <2>2 DEF StillComing, Wanted
  <2> QED BY <1>1, <2>1, <2>2, <2>3, FollowsUntouched
<1> QED BY <1>1, <1>3
----------------------------------------------------------------------------
(* The lines of the transcript *)

Counts(c) == Uncounted(c) /\ Lines(c)

LEMMA CountsUntouched ==
    ASSUME NEW c \in Client, Counts(c), Untouched(c),
           written' = written \/ ~Subscribed(c) \/ tab[c].stream # "run"
    PROVE  Counts(c)'
BY DEF Counts, Uncounted, Lines, Untouched, Subscribed, QueuedLines

LEMMA CountsOffered ==
    ASSUME Shared, Shared', NEW c \in Client, Counts(c), NEW item \in Items, Offering(c, item),
           written' = written \/ (written' = written + 1 /\ item.line = written')
    PROVE  Counts(c)'
<1> DEFINE q == server[c].queue
           r == server'[c]
<1>1. /\ r.pc = server[c].pc /\ r.skip = server[c].skip
      /\ Len(q) < Limit => r.queue = Append(q, item) /\ r.dropped = server[c].dropped
      /\ Len(q) >= Limit => r.dropped = TRUE
  <2>1. StreamTypes /\ r = Offered(c, item)
    BY DEF Offering, Shared
  <2> HIDE DEF r
  <2>2. r.pc = server[c].pc /\ r.skip = server[c].skip
    BY <2>1, OfferLeaves
  <2>3. Len(q) < Limit => r.queue = Append(q, item) /\ r.dropped = server[c].dropped
    BY <2>1, OfferMade
  <2>4. Len(q) >= Limit => r.dropped = TRUE
    BY <2>1, OfferMade
  <2> QED BY <2>2, <2>3, <2>4
<1>2. /\ tab'[c].first = tab[c].first /\ tab'[c].stream = tab[c].stream
      /\ tab'[c].lines = tab[c].lines /\ tab'[c].shown = tab[c].shown
  <2>1. tab[c] \in Tabs
    BY DEF Shared, StreamTypes
  <2> QED BY <2>1 DEF Offering, Tabs
<1>3. /\ q \in Seq(Items) /\ Len(q) \in Nat /\ DOMAIN q = 1 .. Len(q)
      /\ \A i : i \in QueuedLines(c) <=> i # 0 /\ \E k \in DOMAIN q : q[k].line = i
  BY QueuedAre DEF Shared
<1>4. \A i : i \in QueuedLines(c)' <=> i # 0 /\ \E k \in DOMAIN r.queue : r.queue[k].line = i
  <2>1. \A x : x \in ToSet(r.queue) <=> \E k \in DOMAIN r.queue : r.queue[k] = x
    BY DEF ToSet
  <2>2. QueuedLines(c)' = {x.line : x \in ToSet(r.queue)} \ {0}
    BY DEF QueuedLines
  <2> HIDE DEF r
  <2> QED BY <2>1, <2>2
<1>5. written \in Nat
  BY DEF Shared, StreamTypes
<1>6. Uncounted(c)'
  BY <1>1, <1>2 DEF Counts, Uncounted, Subscribed
<1>7. Lines(c)'
  <2>1. SUFFICES ASSUME tab[c].stream = "run", tab[c].first, server[c].pc = "live", ~r.dropped
                 PROVE  1 .. written' \subseteq ToSet(tab[c].shown) \cup QueuedLines(c)'
    BY <1>1, <1>2 DEF Lines
  <2> HIDE DEF q, r
  <2>2. Len(q) < Limit
    BY <1>1, <1>3, <2>1, EventStreamAssumption
  <2>3. r.queue = Append(q, item) /\ ~server[c].dropped
    BY <1>1, <2>1, <2>2
  <2>4. /\ \A k \in DOMAIN q : k \in DOMAIN r.queue /\ r.queue[k] = q[k]
        /\ Len(q) + 1 \in DOMAIN r.queue /\ r.queue[Len(q) + 1] = item
    BY <1>3, <2>3
  <2>5. 1 .. written \subseteq ToSet(tab[c].shown) \cup QueuedLines(c)
    BY <2>1, <2>3 DEF Counts, Lines
  <2>6. QueuedLines(c) \subseteq QueuedLines(c)'
    BY <1>3, <1>4, <2>4
  <2>7. CASE written' = written
    BY <2>5, <2>6, <2>7
  <2>8. CASE written' = written + 1 /\ item.line = written'
    <3>1. written' # 0
      BY <1>5, <2>8
    <3>2. written' \in QueuedLines(c)'
      BY <1>4, <2>4, <2>8, <3>1
    <3>3. \A i \in 1 .. written' : i \in 1 .. written \/ i = written'
      BY <1>5, <2>8
    <3> QED BY <2>5, <2>6, <3>2, <3>3
  <2> QED BY <2>7, <2>8
<1> QED BY <1>6, <1>7 DEF Counts

LEMMA CountsBatch ==
    ASSUME Shared, NEW c \in Client, Follows(c), Counts(c), Open(c) \/ NextBatch(c)
    PROVE  Counts(c)'
<1>1. PICK s \in Ends : /\ s.delivered = tab[c].cursor
                        /\ SendBatch(c, s) /\ (tab[c].first => s.skip = 0)
  <2>1. CASE Open(c)
    <3> DEFINE s == [Off EXCEPT !.delivered = tab[c].cursor, !.skip = tab[c].lines]
    <3>1. tab[c] \in Tabs
      BY DEF Shared, StreamTypes
    <3>2. s \in Ends /\ s.delivered = tab[c].cursor /\ s.skip = tab[c].lines
      <4>1. tab[c].cursor \in Nat /\ tab[c].lines \in Nat
        BY <3>1 DEF Tabs
      <4> QED BY ZenonT(40), <4>1, OffTypes
    <3>3. SendBatch(c, s) /\ (tab[c].first => s.skip = 0)
      BY <2>1, <3>2 DEF Open, Counts, Uncounted
    <3> QED BY <3>2, <3>3
  <2>2. CASE NextBatch(c)
    <3>1. server[c] \in Ends
      BY DEF Shared, StreamTypes
    <3>2. server[c].pc = "rows" /\ SendBatch(c, server[c])
      BY <2>2 DEF NextBatch
    <3>3. server[c].delivered = tab[c].cursor
      BY <3>2 DEF Follows, Reads, Subscribed
    <3> QED BY <3>1, <3>2, <3>3 DEF Counts, Uncounted
  <2> QED BY <2>1, <2>2
<1>2. server'[c].pc \in {"rows", "lines"} /\ server'[c].skip = s.skip
  <2>1. StreamTypes
    BY DEF Shared
  <2>2. server'[c].pc \in {"rows", "lines"}
    BY <1>1, <2>1, BatchSent
  <2>3. server'[c].skip = s.skip
    BY <1>1, <2>1, BatchSent
  <2> QED BY <2>2, <2>3
<1>3. tab'[c].first = tab[c].first
  BY <1>1, BatchSent DEF Shared
<1> QED BY <1>1, <1>2, <1>3 DEF Counts, Uncounted, Lines, Subscribed

LEMMA CountsReplayLines ==
    ASSUME Shared, NEW c \in Client, Counts(c), ReplayLines(c)
    PROVE  Counts(c)'
<1> DEFINE skip == server[c].skip
           more == IF tab[c].stream = "run" /\ skip < written THEN written - skip ELSE 0
           lines == [k \in 1 .. more |-> skip + k]
<1>1. /\ server[c].pc = "lines" /\ server' = [server EXCEPT ![c].pc = "live"]
      /\ tab' = [tab EXCEPT ![c] = GetLines(tab[c], lines)] /\ written' = written
  BY DEF ReplayLines, StreamUnchanged
<1>2. /\ server[c] \in Ends /\ tab[c] \in Tabs /\ written \in Nat /\ skip \in Nat
      /\ server \in [Client -> Ends] /\ tab \in [Client -> Tabs]
  BY DEF Shared, StreamTypes, Ends
<1>3. lines \in Seq(Nat) /\ DOMAIN lines = 1 .. more /\ more \in Nat
  <2>1. more \in Nat
    BY <1>2
  <2> HIDE DEF more, skip
  <2> QED BY <1>2, <2>1
<1> HIDE DEF lines
<1>4. /\ tab'[c].first = tab[c].first /\ tab'[c].stream = tab[c].stream
      /\ tab'[c].shown = tab[c].shown \o lines
  <2>1. tab'[c] = GetLines(tab[c], lines) /\ lines \in Seq(Nat) /\ tab[c] \in Tabs
    BY <1>1, <1>2, <1>3
  <2>2. tab'[c].first = tab[c].first
    BY <2>1, LinesTaken
  <2>3. tab'[c].stream = tab[c].stream
    BY <2>1, LinesTaken
  <2>4. tab'[c].shown = tab[c].shown \o lines
    BY <2>1, LinesTaken
  <2> QED BY <2>2, <2>3, <2>4
<1>5. server'[c].pc = "live"
  BY <1>1, <1>2 DEF Ends
<1>6. ASSUME tab[c].first, tab[c].stream = "run"
      PROVE  1 .. written \subseteq ToSet(tab'[c].shown)
  <2>1. skip = 0
    BY <1>1, <1>6 DEF Counts, Uncounted
  <2>2. more = written
    BY <1>2, <1>6, <2>1
  <2>3. ASSUME NEW i \in 1 .. written PROVE i \in ToSet(tab[c].shown \o lines)
    <3>1. lines[i] = i /\ i \in DOMAIN lines
      BY <1>2, <1>3, <2>1, <2>2 DEF lines
    <3>2. tab[c].shown \in Seq(Nat)
      BY <1>2 DEF Tabs
    <3>3. /\ Len(tab[c].shown) + i \in DOMAIN (tab[c].shown \o lines)
          /\ (tab[c].shown \o lines)[Len(tab[c].shown) + i] = lines[i]
      <4> HIDE DEF more
      <4> QED BY <1>3, <3>1, <3>2
    <3> QED BY <3>1, <3>3 DEF ToSet
  <2> QED BY <1>4, <2>3
<1> QED BY <1>1, <1>4, <1>5, <1>6 DEF Counts, Uncounted, Lines, Subscribed

LEMMA CountsDeliver ==
    ASSUME Shared, NEW c \in Client, Counts(c), Deliver(c)
    PROVE  Counts(c)'
<1> DEFINE s == server[c]
           q == s.queue
           item == Head(q)
<1>1. s.pc = "live" /\ q # <<>> /\ written' = written
  BY DEF Deliver
<1>2. /\ s \in Ends /\ tab[c] \in Tabs /\ q \in Seq(Items)
      /\ server \in [Client -> Ends] /\ tab \in [Client -> Tabs]
      /\ \A i : i \in QueuedLines(c) <=> i # 0 /\ \E k \in DOMAIN q : q[k].line = i
  BY QueuedAre DEF Shared, StreamTypes
<1>3. /\ item \in Items /\ item.seq \in Nat /\ item.line \in Nat
      /\ (item.seq = 0 \/ item.line = 0)
      /\ \A k \in DOMAIN q : k # 1 => k - 1 \in DOMAIN Tail(q) /\ Tail(q)[k - 1] = q[k]
      /\ q[1] = item
  <2> HIDE DEF q
  <2>1. Head(q) \in Items /\ Head(q) = q[1]
    BY <1>1, <1>2, HeadAndTail
  <2>2. \A k \in DOMAIN q : k # 1 => k - 1 \in DOMAIN Tail(q) /\ Tail(q)[k - 1] = q[k]
    BY <1>1, <1>2, BehindTheHead
  <2> QED BY <2>1, <2>2 DEF Items
<1>4. CASE server'[c].pc = "live" /\ server'[c].queue = Tail(q)
           /\ server'[c].dropped = s.dropped
           /\ tab'[c].first = tab[c].first /\ tab'[c].stream = tab[c].stream
           /\ ToSet(tab[c].shown) \subseteq ToSet(tab'[c].shown)
           /\ (item.line = 0 \/ item.line \in ToSet(tab'[c].shown))
  <2>1. \A i \in QueuedLines(c) : i = item.line \/ i \in QueuedLines(c)'
    <3>1. ASSUME NEW i \in QueuedLines(c), i # item.line PROVE i \in QueuedLines(c)'
      <4>1. PICK k \in DOMAIN q : q[k].line = i /\ i # 0
        BY <1>2, <3>1
      <4> HIDE DEF q
      <4>2. k - 1 \in DOMAIN Tail(q) /\ Tail(q)[k - 1] = q[k]
        BY <1>3, <3>1, <4>1
      <4>3. q[k] \in ToSet(server'[c].queue)
        BY <1>4, <4>2 DEF ToSet
      <4> QED BY <4>1, <4>3 DEF QueuedLines
    <3> QED BY <3>1
  <2>2. 0 \notin QueuedLines(c)
    BY DEF QueuedLines
  <2>3. QueuedLines(c) \subseteq ToSet(tab'[c].shown) \cup QueuedLines(c)'
    BY <1>4, <2>1, <2>2
  <2>4. Lines(c)'
    BY <1>1, <1>4, <2>3 DEF Counts, Lines
  <2> QED BY <1>4, <2>4 DEF Counts, Uncounted, Subscribed
<1>5. CASE Replayed(c, item) /\ server' = [server EXCEPT ![c].queue = Tail(q)] /\ tab' = tab
  <2>1. /\ server'[c].pc = "live" /\ server'[c].queue = Tail(q)
        /\ server'[c].dropped = s.dropped
    BY <1>1, <1>2, <1>5 DEF Ends
  <2>2. item.line = 0
    BY <1>3, <1>5 DEF Replayed
  <2> QED BY <1>4, <1>5, <2>1, <2>2
<1>6. CASE /\ ~s.dropped
           /\ server' = [server EXCEPT ![c].queue = Tail(q),
                                       ![c].delivered = IF item.seq > 0 THEN item.seq ELSE @]
           /\ tab' = [tab EXCEPT ![c] = GetItem(tab[c], item)]
  <2>1. /\ server'[c].pc = "live" /\ server'[c].queue = Tail(q)
        /\ server'[c].dropped = s.dropped
    BY <1>1, <1>2, <1>6 DEF Ends
  <2>2. PICK t, it, u : /\ t \in Tabs /\ it \in Items /\ t = tab[c] /\ it = item
                      /\ u = tab'[c] /\ u = GetItem(t, it)
    BY <1>2, <1>3, <1>6
  <2> HIDE DEF item
  <2>2a. t \in Tabs /\ it \in Items /\ u = GetItem(t, it)
    BY <2>2
  <2>3. tab'[c].first = tab[c].first
    <3>1. u.first = t.first
      BY <2>2a, ItemTaken
    <3> QED BY <2>2, <3>1
  <2>4. tab'[c].stream = tab[c].stream
    <3>1. u.stream = t.stream
      BY <2>2a, ItemTaken
    <3> QED BY <2>2, <3>1
  <2>5. CASE item.seq > 0
    <3>1. tab'[c].shown = tab[c].shown
      <4>1. it.seq > 0
        BY <2>2, <2>5
      <4>2. u.shown = t.shown
        BY <2>2a, <4>1, ItemTaken
      <4> QED BY <2>2, <4>2
    <3>2. item.line = 0
      BY <1>3, <2>5
    <3> QED BY <1>4, <2>1, <2>3, <2>4, <3>1, <3>2
  <2>6. CASE item.seq = 0
    <3>1. tab'[c].shown = tab[c].shown \o <<item.line>>
      <4>1. it.seq = 0
        BY <2>2, <2>6
      <4>2. u.shown = t.shown \o <<it.line>>
        BY <2>2a, <4>1, ItemTaken
      <4> QED BY <2>2, <4>2
    <3>2. tab[c].shown \in Seq(Nat)
      BY <1>2 DEF Tabs
    <3>3. /\ \A k \in DOMAIN tab[c].shown :
               /\ k \in DOMAIN (tab[c].shown \o <<item.line>>)
               /\ (tab[c].shown \o <<item.line>>)[k] = tab[c].shown[k]
          /\ Len(tab[c].shown) + 1 \in DOMAIN (tab[c].shown \o <<item.line>>)
          /\ (tab[c].shown \o <<item.line>>)[Len(tab[c].shown) + 1] = item.line
      <4> HIDE DEF item
      <4> QED BY SMTT(20), <1>3, <3>2
    <3>4. /\ ToSet(tab[c].shown) \subseteq ToSet(tab'[c].shown)
          /\ item.line \in ToSet(tab'[c].shown)
      BY <3>1, <3>3 DEF ToSet
    <3> QED BY <1>4, <2>1, <2>3, <2>4, <3>4
  <2> QED BY <1>3, <2>5, <2>6
<1>7. CASE Closed(c, GetItem(tab[c], item))
  <2>1. server'[c] = Off /\ tab'[c] = [GetItem(tab[c], item) EXCEPT !.first = FALSE]
    BY <1>2, <1>7 DEF Closed
  <2>2. GetItem(tab[c], item) \in Tabs
    BY <1>2, <1>3, ItemTaken
  <2>3. tab'[c].first = FALSE
    BY <2>1, <2>2 DEF Tabs
  <2> QED BY <2>3 DEF Counts, Uncounted, Lines
<1> QED BY <1>5, <1>6, <1>7 DEF Deliver

\* Nothing the tabs have counted is lost by a step.
LEMMA StepCounts ==
    ASSUME Shared, Shared', \A c \in Client : Follows(c) /\ Counts(c), Next,
           NEW c \in Client
    PROVE  Counts(c)'
<1>1. ASSUME NEW names \in Names, Emit(names) PROVE Counts(c)'
  <2>1. /\ Offer({d \in Client : Subscribed(d) /\ Wants(d, names)}, RowItem(Len(log) + 1))
        /\ written' = written
    BY <1>1 DEF Emit
  <2>2. RowItem(Len(log) + 1) \in Items
    <3>1. Len(log) + 1 \in Nat
      BY DEF Shared, StreamTypes
    <3> QED BY <3>1, ItemsMade
  <2>3. Untouched(c) \/ Offering(c, RowItem(Len(log) + 1))
    BY <2>1, Offers
  <2> QED BY <2>1, <2>2, <2>3, CountsUntouched, CountsOffered
<1>2. CASE EmitInThread \/ FanOut \/ EndRun \/ \E upto \in DOMAIN log : Prune(upto)
  BY <1>2, CountsUntouched DEF EmitInThread, FanOut, EndRun, Prune, Untouched
<1>3. CASE CallOffer
  <2> DEFINE n == Head(calls)[2]
  <2>1. /\ calls # <<>> /\ Offer({Head(calls)[1]}, RowItem(n))
        /\ written' = written
    BY <1>3 DEF CallOffer
  <2>2. Head(calls)[1] \in Client /\ n \in Nat
    <3>1. StreamTypes
      BY DEF Shared
    <3>2. Head(calls) = calls[1] /\ calls[1][1] \in Client /\ calls[1][2] \in Nat
      BY <2>1, <3>1, FirstCall
    <3> QED BY <3>2
  <2> HIDE DEF n
  <2>3. RowItem(n) \in Items
    BY <2>2, ItemsMade
  <2>4. Untouched(c) \/ Offering(c, RowItem(n))
    BY <2>1, <2>2, Offers
  <2> QED BY <2>1, <2>3, <2>4, CountsUntouched, CountsOffered
<1>4. CASE PublishLine
  <2> DEFINE S == {d \in Client : Subscribed(d) /\ Wants(d, {"run"})}
  <2>1. Offer(S, LineItem(written + 1)) /\ written' = written + 1
    BY <1>4 DEF PublishLine
  <2>2. LineItem(written + 1) \in Items /\ LineItem(written + 1).line = written + 1
    <3>1. written + 1 \in Nat
      BY DEF Shared, StreamTypes
    <3> QED BY <3>1, ItemsMade
  <2>3. CASE c \in S
    <3>1. Offering(c, LineItem(written + 1))
      BY <2>1, <2>3, Offers
    <3> QED BY <2>1, <2>2, <3>1, CountsOffered
  <2>4. CASE c \notin S
    <3>1. Untouched(c)
      BY <2>1, <2>4, Offers
    <3>2. ~Subscribed(c) \/ tab[c].stream # "run"
      BY <2>4 DEF Wants
    <3> QED BY <3>1, <3>2, CountsUntouched
  <2> QED BY <2>3, <2>4
<1>5. ASSUME NEW d \in Client, Stream(d) PROVE Counts(c)'
  <2>1. CASE c = d
    <3>1. CASE Open(c) \/ NextBatch(c)
      BY <3>1, CountsBatch
    <3>2. CASE ReplayLines(c)
      BY <3>2, CountsReplayLines
    <3>3. CASE Deliver(c)
      BY <3>3, CountsDeliver
    <3> QED BY <1>5, <2>1, <3>1, <3>2, <3>3 DEF Stream
  <2>2. CASE c # d
    <3>1. written' = written
      BY <1>5 DEF Stream, Open, NextBatch, ReplayLines, Deliver, StreamUnchanged
    <3>2. Untouched(c)
      BY <1>5, <2>2 DEF Stream, Open, NextBatch, SendBatch, ReplayLines, Deliver, Closed,
                        Untouched, Shared, StreamTypes
    <3> QED BY <3>1, <3>2, CountsUntouched
  <2> QED BY <2>1, <2>2
<1>6. ASSUME NEW d \in Client, Disconnect(d) PROVE Counts(c)'
  <2>1. written' = written /\ Closed(d, tab[d])
    BY <1>6 DEF Disconnect
  <2>2. CASE c = d
    <3>1. tab[c] \in Tabs /\ tab'[c] = [tab[c] EXCEPT !.first = FALSE]
      BY <2>1, <2>2 DEF Closed, Shared, StreamTypes
    <3>2. tab'[c].first = FALSE
      BY <3>1 DEF Tabs
    <3> QED BY <3>2 DEF Counts, Uncounted, Lines
  <2>3. CASE c # d
    <3>1. Untouched(c)
      BY <2>1, <2>3 DEF Closed, Untouched, Shared, StreamTypes
    <3> QED BY <2>1, <3>1, CountsUntouched
  <2> QED BY <2>2, <2>3
<1>7. CASE Crash
  <2>1. /\ tab[c] \in Tabs /\ server'[c] = Off /\ server'[c].pc = "off"
        /\ tab'[c] = [tab[c] EXCEPT !.first = @ /\ ~Subscribed(c)]
    BY <1>7 DEF Crash, Off, Shared, StreamTypes
  <2>2. PICK b \in BOOLEAN : b = (tab[c].first /\ ~Subscribed(c))
    OBVIOUS
  <2>3. tab'[c] = [tab[c] EXCEPT !.first = b]
    BY <2>1, <2>2
  <2>4. tab'[c].first = b /\ tab'[c].lines = tab[c].lines
    BY <2>1, <2>3 DEF Tabs
  <2> QED BY <2>1, <2>2, <2>4 DEF Counts, Uncounted, Lines, Subscribed
<1> QED BY <1>1, <1>2, <1>3, <1>4, <1>5, <1>6, <1>7 DEF Next
----------------------------------------------------------------------------
(* The invariant *)

\* Before anything has happened, nothing is missing.
LEMMA AtFirst == Init => IInv
<1> SUFFICES ASSUME Init PROVE IInv
  OBVIOUS
<1>1. PICK page \in [Client -> {"run", "repo"}] :
         tab = [c \in Client |->
                  [stream |-> page[c], cursor |-> 0, lines |-> 0, got |-> <<>>,
                   shown |-> <<>>, swallowed |-> {}, first |-> TRUE]]
  BY DEF Init
<1>2. /\ log = <<>> /\ kept = {} /\ late = {} /\ written = 0 /\ over = FALSE
      /\ inserted = 0 /\ calls = <<>> /\ server = [c \in Client |-> Off] /\ faults = 0
  BY DEF Init
<1>3. ASSUME NEW c \in Client
      PROVE  /\ tab[c] \in Tabs /\ server[c] = Off
             /\ tab[c].cursor = 0 /\ tab[c].lines = 0 /\ tab[c].got = <<>>
             /\ tab[c].swallowed = {}
  <2> DEFINE none == <<>>
  <2>1. none \in Seq(Nat)
    OBVIOUS
  <2> HIDE DEF none
  <2>2. tab[c] = [stream |-> page[c], cursor |-> 0, lines |-> 0, got |-> none,
                  shown |-> none, swallowed |-> {}, first |-> TRUE]
    BY <1>1 DEF none
  <2>3. tab[c] \in Tabs
    BY <2>1, <2>2 DEF Tabs
  <2>4. server[c] = Off
    BY <1>2
  <2> QED BY <2>2, <2>3, <2>4 DEF none
<1>4. tab \in [Client -> Tabs] /\ server \in [Client -> Ends]
  BY <1>1, <1>2, <1>3, OffTypes
<1>5. log \in Seq(Names) /\ calls \in Seq(Client \X Nat) /\ DOMAIN log = {} /\ DOMAIN calls = {}
  BY <1>2
<1>6. Shared
  BY <1>2, <1>4, <1>5 DEF Shared, StreamTypes, InFlightKept, CallsForThem
<1>7. ASSUME NEW c \in Client PROVE Follows(c) /\ Counts(c)
  <2>0. DOMAIN tab[c].got = {} /\ DOMAIN server[c].queue = {} /\ Len(server[c].queue) = 0
    <3>1. tab[c].got = <<>> /\ server[c].queue = <<>>
      BY <1>3, OffTypes
    <3> QED BY <3>1
  <2>1. Wanted(c) = {} /\ Got(c) = {} /\ Queued(c) = {}
    BY <1>5, <2>0 DEF Wanted, Got, Queued, ToSet
  <2>2. ~Subscribed(c) /\ ~Past(c)
    BY <1>3, OffTypes DEF Subscribed, Past
  <2>3. Reads(c)
    <3>1. Len(server[c].queue) <= Limit /\ DOMAIN tab[c].got = {}
      BY <2>0, EventStreamAssumption
    <3> QED BY <1>3, <2>1, <2>2, <3>1 DEF Reads
  <2>4. Behind(c) /\ Ahead(c) /\ Announced(c) /\ InTurn(c)
    BY <2>1, <2>2 DEF Behind, Ahead, Announced, InTurn
  <2>5. Counts(c)
    BY <1>3, <2>2, OffTypes DEF Counts, Uncounted, Lines
  <2> QED BY <2>3, <2>4, <2>5 DEF Follows
<1> QED BY <1>6, <1>7 DEF IInv, Counts

\* Every step keeps what has been sent, and what is still to come, in order.
LEMMA EveryStep == IInv /\ [Next]_vars => IInv'
<1> SUFFICES ASSUME IInv, [Next]_vars PROVE IInv'
  OBVIOUS
<1>1. Shared /\ \A c \in Client : Follows(c) /\ Counts(c)
  BY DEF IInv, Counts
<1>2. CASE Next
  <2>1. Shared' /\ \A c \in Client : Follows(c)'
    <3>1. ASSUME NEW d \in Client, Stream(d) PROVE Shared' /\ \A c \in Client : Follows(c)'
      BY <1>1, <3>1, StepBatch, StepReplayLines, StepDeliver DEF Stream
    <3> QED BY <1>1, <1>2, <3>1, StepEmit, StepEmitInThread, StepFanOut, StepCallOffer,
               StepPublishLine, StepEndRunAndPrune, StepDisconnect, StepCrash DEF Next
  <2>2. \A c \in Client : Counts(c)'
    BY <1>1, <1>2, <2>1, StepCounts
  <2> QED BY <2>1, <2>2 DEF IInv, Counts
<1>3. CASE UNCHANGED vars
  <2>1. /\ UNCHANGED <<log, kept, late, written, over, inserted, calls, server, tab, faults>>
        /\ Shared'
    BY <1>1, <1>3 DEF vars, Shared, StreamTypes, InFlightKept, CallsForThem, Wanted, Wants
  <2>2. ASSUME NEW c \in Client PROVE Follows(c)' /\ Counts(c)'
    <3>1. Untouched(c) /\ Wanted(c)' = Wanted(c) /\ Ordered(c)' = Ordered(c)
      BY <2>1 DEF Untouched, Wanted, Wants, Ordered
    <3>2. Grows
      BY <2>1 DEF Grows
    <3>3. StillComing(c)
      BY <2>1, <3>1 DEF StillComing, OnTheWay, Wanted
    <3> QED BY <1>1, <2>1, <3>1, <3>2, <3>3, FollowsUntouched, CountsUntouched
  <2> QED BY <2>1, <2>2 DEF IInv, Counts
<1> QED BY <1>2, <1>3

LEMMA Invariant == Spec => []IInv
<1> QED BY AtFirst, EveryStep, PTL DEF Spec
----------------------------------------------------------------------------
(* What a tab can rely on *)

\* Whatever the number of tabs and of their connections, each is shown a row once,
\* oldest first, and none of another stream: the cursor of ws.py and that of api.js
\* agree at every batch and at every event.
THEOREM RowsOnceInOrder == Spec => []OnceInOrder
<1>1. IInv => OnceInOrder
  BY DEF IInv, Follows, Reads, OnceInOrder
<1> QED BY <1>1, Invariant, PTL

\* Behind a tab's cursor nothing is missing but what was pruned, what came from the
\* thread and what was swallowed: subscribing before the first batch and the notice
\* after the first event sent are enough, whatever the sizes of queue and batch.
THEOREM NothingMissingBehind == Spec => []NoGap
<1>1. IInv => NoGap
  BY DEF IInv, Follows, Behind, NoGap
<1> QED BY <1>1, Invariant, PTL

\* Ahead of it, every row is queued, with the thread or the loop, or about to be
\* announced as dropped.
THEOREM NothingLostAhead == Spec => []OnItsWay
<1>1. IInv => OnItsWay
  BY DEF IInv, Follows, Ahead, Past, OnTheWay, OnItsWay
<1> QED BY <1>1, Invariant, PTL

\* A tab opened at any time of a run that is in flight sees what one opened at its
\* start has seen: prune leaves such a run its rows, so a replay has them all.
THEOREM LateTabSeesTheSame == Spec => []SameTranscript
<1>1. IInv => SameTranscript
  <2> SUFFICES ASSUME IInv, NEW c \in Client, ~over, server[c].pc = "live",
                      server[c].queue = <<>>, ~server[c].dropped,
                      NEW i \in DOMAIN log, "run" \in log[i], i \in Wanted(c)
               PROVE  i \in Got(c) \cup tab[c].swallowed
    BY DEF SameTranscript
  <2>1. StreamTypes /\ InFlightKept /\ CallsForThem /\ Follows(c)
    BY DEF IInv, Shared
  <2>2. i \in kept /\ i \notin late /\ i \in Nat
    BY <2>1 DEF StreamTypes, InFlightKept
  <2>3. server[c].delivered = tab[c].cursor /\ tab[c].cursor \in Nat
    BY <2>1 DEF Follows, Reads, Subscribed, StreamTypes
  <2>4. CASE i <= tab[c].cursor
    BY <2>1, <2>2, <2>4 DEF Follows, Behind
  <2>5. CASE i > tab[c].cursor
    <3>1. Queued(c) = {} /\ DOMAIN server[c].queue = {}
      BY DEF Queued, ToSet
    <3>2. Past(c)
      BY DEF Past
    <3>3. i \in Ordered(c) \/ i \in tab[c].swallowed
      BY <2>2 DEF Ordered
    <3> QED BY <2>1, <2>3, <2>5, <3>1, <3>2, <3>3 DEF Follows, Announced
  <2> QED BY <2>2, <2>3, <2>4, <2>5
<1> QED BY <1>1, Invariant, PTL

\* On its first connection a tab of the run misses no line: it was replayed, is
\* queued, or will be announced as dropped (on_line writes before it publishes, and
\* the subscription precedes the reading).
THEOREM FirstConnectionMissesNoLine == Spec => []NoLineMissed
<1>1. IInv => NoLineMissed
  BY DEF IInv, Lines, NoLineMissed
<1> QED BY <1>1, Invariant, PTL
============================================================================
