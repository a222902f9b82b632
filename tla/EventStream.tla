---------------------------- MODULE EventStream ----------------------------
(***************************************************************************)
(* The event log of storage/events.py, the streams of api/ws.py that       *)
(* replay it and go live, and the browser's end of them,                   *)
(* web/static/js/api.js.                                                   *)
(*                                                                         *)
(* One repository with one run.  Code on the loop is atomic up to its next *)
(* await; a rebuild of the charter emits from a worker thread, whose       *)
(* insert, hop to the loop and arrival there are steps of their own.       *)
(***************************************************************************)
EXTENDS SequencesExt

CONSTANTS Client,       \* browser tabs
          Limit,        \* _QUEUE_LIMIT: what a subscriber's queue holds
          Chunk,        \* _CHUNK: rows in one frame of a replay
          MaxRows,      \* bound: rows the table grows to
          MaxLines,     \* bound: lines of the transcript
          MaxFaults     \* bound: lost connections and ends of the process

ASSUME EventStreamAssumption ==
    /\ IsFiniteSet(Client)
    /\ Limit \in Nat \ {0} /\ Chunk \in Nat \ {0}
    /\ {MaxRows, MaxLines, MaxFaults} \subseteq Nat

VARIABLES
    log,        \* what each row ever inserted names: the run, the repository
    kept,       \* the rows still in the table, by seq
    late,       \* the rows that were inserted by the thread (history)
    written,    \* lines in the transcript
    over,       \* the run is in a terminal state
    inserted,   \* the row the thread has inserted and not fanned out, or 0
    calls,      \* call_soon_threadsafe: offers the loop has still to make
    server,     \* the server's end of each stream
    tab,        \* the browser's end of it
    faults      \* lost connections and ends of the process so far

vars == <<log, kept, late, written, over, inserted, calls, server, tab, faults>>
----------------------------------------------------------------------------
\* What a row names.  A job's rows name the run, the scheduler's the run and the
\* repository, the charter's the repository.
Names == {{"run"}, {"run", "repo"}, {"repo"}}

Seqs == 1 .. MaxRows

\* The members of a finite set of numbers, smallest first.
Ascending(S) ==
    CHOOSE s \in [1 .. Cardinality(S) -> S] :
        /\ \A k, m \in 1 .. Cardinality(S) : k < m => s[k] < s[m]
        /\ \A i \in S : \E k \in 1 .. Cardinality(S) : s[k] = i

\* A row, or a published line: it carries seq 0.
RowItem(i) == [seq |-> i, line |-> 0]
LineItem(k) == [seq |-> 0, line |-> k]

\* The server's end: delivered and skip are its cursors; dropped: the queue
\* overflowed.
Off == [pc |-> "off", delivered |-> 0, skip |-> 0, queue |-> <<>>,
        dropped |-> FALSE]

\* The tab's end: the page it is on, its cursors, the rows and lines it was shown.
\* History: the rows lost while all that was queued had been replayed, and whether
\* it has only had one connection.
Init ==
    /\ log = <<>> /\ kept = {} /\ late = {}
    /\ written = 0
    /\ over = FALSE
    /\ inserted = 0
    /\ calls = <<>>
    /\ server = [c \in Client |-> Off]
    /\ \E page \in [Client -> {"run", "repo"}] :
         tab = [c \in Client |->
                  [stream |-> page[c], cursor |-> 0, lines |-> 0, got |-> <<>>,
                   shown |-> <<>>, swallowed |-> {}, first |-> TRUE]]
    /\ faults = 0

\* Subscription.wants.  A line is the run's.
Wants(c, names) == tab[c].stream \in names

Subscribed(c) == server[c].pc # "off"

\* What the stream will discard when it gets to it.
Replayed(c, item) == item.seq > 0 /\ item.seq <= server[c].delivered

\* Seeded fault: only rows are counted as dropped.
OfferedLinesUncounted(c, item) ==
    IF Len(server[c].queue) < Limit
    THEN [server[c] EXCEPT !.queue = Append(@, item)]
    ELSE [server[c] EXCEPT !.dropped = @ \/ item.seq > 0]

\* offer: a full queue counts the event as dropped.
Offered(c, item) ==
    IF Len(server[c].queue) < Limit
    THEN [server[c] EXCEPT !.queue = Append(@, item)]
    ELSE [server[c] EXCEPT !.dropped = TRUE]

\* A row is swallowed when it is dropped by a queue of nothing but rows the
\* replay has sent: they are discarded without a look at dropped.
Swallows(c, item) ==
    /\ item.seq > 0
    /\ server[c].pc \in {"lines", "live"}
    /\ Len(server[c].queue) = Limit
    /\ \A k \in 1 .. Limit : Replayed(c, server[c].queue[k])

\* offer, at the subscriptions S.
Offer(S, item) ==
    /\ server' = [c \in Client |-> IF c \in S THEN Offered(c, item) ELSE server[c]]
    /\ tab' = [c \in Client |-> IF c \in S /\ Swallows(c, item)
                                THEN [tab[c] EXCEPT !.swallowed = @ \cup {item.seq}]
                                ELSE tab[c]]
----------------------------------------------------------------------------
(* Writing *)

Insert(names) ==
    /\ Len(log) < MaxRows
    /\ log' = Append(log, names)
    /\ kept' = kept \cup {Len(log) + 1}

\* emit on the loop: the row, and the fan-out to whoever wants it.
Emit(names) ==
    /\ Insert(names)
    /\ Offer({c \in Client : Subscribed(c) /\ Wants(c, names)}, RowItem(Len(log) + 1))
    /\ UNCHANGED <<late, written, over, inserted, calls, faults>>

\* emit in the thread of a rebuild: the row,
EmitInThread ==
    /\ inserted = 0
    /\ Insert({"repo"})
    /\ inserted' = Len(log) + 1
    /\ late' = late \cup {Len(log) + 1}
    /\ UNCHANGED <<written, over, calls, server, tab, faults>>

\* then a call on the loop for each subscription there is by then,
FanOut ==
    /\ inserted # 0
    /\ calls' = calls \o SetToSeq({<<c, inserted>> :
                    c \in {d \in Client : Subscribed(d) /\ Wants(d, {"repo"})}})
    /\ inserted' = 0
    /\ UNCHANGED <<log, kept, late, written, over, server, tab, faults>>

\* and there the offer.
CallOffer ==
    /\ calls # <<>>
    /\ Offer({Head(calls)[1]}, RowItem(Head(calls)[2]))
    /\ calls' = Tail(calls)
    /\ UNCHANGED <<log, kept, late, written, over, inserted, faults>>

\* on_line: the transcript's file first, then publish.
PublishLine ==
    /\ ~over
    /\ written < MaxLines
    /\ written' = written + 1
    /\ Offer({c \in Client : Subscribed(c) /\ Wants(c, {"run"})}, LineItem(written + 1))
    /\ UNCHANGED <<log, kept, late, over, inserted, calls, faults>>

EndRun ==
    /\ ~over
    /\ over' = TRUE
    /\ UNCHANGED <<log, kept, late, written, inserted, calls, server, tab, faults>>

\* Seeded fault: age alone decides.
PruneAll(upto) ==
    /\ kept' = {i \in kept : i > upto}
    /\ UNCHANGED <<log, late, written, over, inserted, calls, server, tab, faults>>

\* prune: old rows go, unless they are of a run that is in flight.
Prune(upto) ==
    /\ kept' = {i \in kept : i > upto \/ ("run" \in log[i] /\ ~over)}
    /\ UNCHANGED <<log, late, written, over, inserted, calls, server, tab, faults>>
----------------------------------------------------------------------------
(* Streaming *)

\* ORDER BY seq LIMIT: the rows with fewer than a chunk of the others before them.
Earliest(rows) == {i \in rows : Cardinality({j \in rows : j < i}) < Chunk}

\* since: the rows after the cursor, oldest first, at most a chunk of them.
Since(c, cursor) == Ascending(Earliest({i \in kept : i > cursor /\ Wants(c, log[i])}))

\* onmessage, for rows: each is shown, and the cursor is the highest seen.
GetRows(t, rows) ==
    [t EXCEPT !.got = @ \o rows,
              !.cursor = IF rows = <<>> \/ Last(rows) < @ THEN @ ELSE Last(rows)]

\* onmessage, for lines: each is shown and counted.
GetLines(t, lines) ==
    [t EXCEPT !.shown = @ \o lines, !.lines = @ + Len(lines)]

StreamUnchanged ==
    UNCHANGED <<log, kept, late, written, over, inserted, calls, faults>>

\* One frame of the replay of the rows; a full one may not be the last.
SendBatch(c, s) ==
    LET batch == Since(c, s.delivered) IN
    /\ server' = [server EXCEPT ![c] =
          [s EXCEPT !.pc = IF Len(batch) < Chunk THEN "lines" ELSE "rows",
                    !.delivered = IF batch = <<>> THEN @ ELSE Last(batch)]]
    /\ tab' = [tab EXCEPT ![c] = GetRows(@, batch)]

\* The tab connects, with its cursors: the server subscribes and sends a frame.
Open(c) ==
    /\ ~Subscribed(c)
    /\ SendBatch(c, [Off EXCEPT !.delivered = tab[c].cursor, !.skip = tab[c].lines])
    /\ StreamUnchanged

NextBatch(c) ==
    /\ server[c].pc = "rows"
    /\ SendBatch(c, server[c])
    /\ StreamUnchanged

\* Seeded fault: what arrives during the replay is not buffered.
ReplayUnbuffered(c) ==
    /\ server[c].pc = "lines"
    /\ server' = [server EXCEPT ![c].pc = "live", ![c].queue = <<>>]
    /\ UNCHANGED tab
    /\ StreamUnchanged

\* _replay_transcript, for the stream of a run, without the lines the tab has; then
\* the live frame, which tells the tab what it has counted itself.
ReplayLines(c) ==
    LET skip == server[c].skip
        more == IF tab[c].stream = "run" /\ skip < written THEN written - skip ELSE 0
    IN  /\ server[c].pc = "lines"
        /\ server' = [server EXCEPT ![c].pc = "live"]
        /\ tab' = [tab EXCEPT ![c] = GetLines(@, [k \in 1 .. more |-> skip + k])]
        /\ StreamUnchanged

\* What the tab makes of one event.
GetItem(t, item) ==
    IF item.seq > 0 THEN GetRows(t, <<item.seq>>) ELSE GetLines(t, <<item.line>>)

\* The offers on their way to a subscription that is gone come to nothing.
CallsWithout(c) ==
    LET others == Ascending({k \in DOMAIN calls : calls[k][1] # c})
    IN  [k \in DOMAIN others |-> calls[others[k]]]

\* After a notice the tab closes the socket, to come back with its cursors.
Closed(c, other) ==
    /\ server' = [server EXCEPT ![c] = Off]
    /\ calls' = CallsWithout(c)
    /\ tab' = [tab EXCEPT ![c] = [other EXCEPT !.first = FALSE]]

\* Seeded fault: everything queued is sent.
DeliverAlways(c) ==
    LET s    == server[c]
        item == Head(s.queue)
    IN  /\ s.pc = "live"
        /\ s.queue # <<>>
        /\ server' = [server EXCEPT ![c].queue = Tail(s.queue)]
        /\ tab' = [tab EXCEPT ![c] = GetItem(@, item)]
        /\ UNCHANGED <<log, kept, late, written, over, inserted, calls, faults>>

\* Seeded fault: nobody is told that the queue overflowed.
DeliverUntold(c) ==
    LET s    == server[c]
        item == Head(s.queue)
    IN  /\ s.pc = "live"
        /\ s.queue # <<>>
        /\ server' = [server EXCEPT ![c].queue = Tail(s.queue), ![c].dropped = FALSE,
                                    ![c].delivered = IF item.seq > @ THEN item.seq ELSE @]
        /\ tab' = [tab EXCEPT ![c] = IF Replayed(c, item) THEN @ ELSE GetItem(@, item)]
        /\ UNCHANGED <<log, kept, late, written, over, inserted, calls, faults>>

\* The live loop: what the replay has sent is discarded; anything else is sent, and
\* after it the notice, if the queue has overflowed.
Deliver(c) ==
    LET s    == server[c]
        item == Head(s.queue)
    IN  /\ s.pc = "live"
        /\ s.queue # <<>>
        /\ \/ /\ Replayed(c, item)
              /\ server' = [server EXCEPT ![c].queue = Tail(s.queue)]
              /\ UNCHANGED <<tab, calls>>
           \/ /\ ~Replayed(c, item) /\ ~s.dropped
              /\ server' = [server EXCEPT ![c].queue = Tail(s.queue),
                                          ![c].delivered = IF item.seq > 0 THEN item.seq ELSE @]
              /\ tab' = [tab EXCEPT ![c] = GetItem(@, item)]
              /\ UNCHANGED calls
           \/ /\ ~Replayed(c, item) /\ s.dropped
              /\ Closed(c, GetItem(tab[c], item))
        /\ UNCHANGED <<log, kept, late, written, over, inserted, faults>>

\* The connection is lost: the queue goes, with the offers on their way to it.
Disconnect(c) ==
    /\ Subscribed(c)
    /\ faults < MaxFaults
    /\ faults' = faults + 1
    /\ Closed(c, tab[c])
    /\ UNCHANGED <<log, kept, late, written, over, inserted>>

\* The process is killed and comes back: the rows and the transcript are there.
Crash ==
    /\ faults < MaxFaults
    /\ faults' = faults + 1
    /\ inserted' = 0
    /\ calls' = <<>>
    /\ server' = [c \in Client |-> Off]
    /\ tab' = [c \in Client |-> [tab[c] EXCEPT !.first = @ /\ ~Subscribed(c)]]
    /\ UNCHANGED <<log, kept, late, written, over>>
----------------------------------------------------------------------------
Stream(c) == Open(c) \/ NextBatch(c) \/ ReplayLines(c) \/ Deliver(c)

Next ==
    \/ \E names \in Names : Emit(names)
    \/ EmitInThread \/ FanOut \/ CallOffer
    \/ PublishLine
    \/ EndRun
    \/ \E upto \in DOMAIN log : Prune(upto)
    \/ \E c \in Client : Stream(c) \/ Disconnect(c)
    \/ Crash

\* The loop runs what is ready, the thread goes on, and a tab whose socket is
\* closed connects again after its backoff.
Fairness ==
    /\ WF_vars(FanOut) /\ WF_vars(CallOffer)
    /\ \A c \in Client : WF_vars(Stream(c))

Spec == Init /\ [][Next]_vars
FairSpec == Spec /\ Fairness
----------------------------------------------------------------------------
(* Properties *)

Wanted(c) == {i \in DOMAIN log : Wants(c, log[i])}
Got(c) == ToSet(tab[c].got)
Queued(c) == {item.seq : item \in ToSet(server[c].queue)} \ {0}
QueuedLines(c) == {item.line : item \in ToSet(server[c].queue)} \ {0}

\* A tab is shown each row once, oldest first, and none of another stream, over
\* any number of connections (the cursors of ws.py and of api.js agree).
OnceInOrder ==
    \A c \in Client :
        /\ \A k, m \in DOMAIN tab[c].got : k < m => tab[c].got[k] < tab[c].got[m]
        /\ Got(c) \subseteq Wanted(c)

\* Behind the tab's cursor nothing is missing that a reconnect could have brought:
\* a row it was not shown was pruned, or came from the thread, or was swallowed
\* (subscribe before since; the notice after the first event that is sent).
NoGap ==
    \A c \in Client : \A i \in Wanted(c) \cap kept :
        i <= tab[c].cursor => i \in Got(c) \cup late \cup tab[c].swallowed

\* Ahead of the cursor, every row is on its way to a stream that has left the
\* replay behind: queued, with the thread or the loop, or about to be announced as
\* dropped.
OnItsWay ==
    \A c \in Client : server[c].pc \in {"lines", "live"} =>
        \A i \in Wanted(c) \cap kept : i > server[c].delivered =>
            \/ i \in Queued(c)
            \/ i = inserted \/ \E k \in DOMAIN calls : calls[k] = <<c, i>>
            \/ server[c].dropped

\* A tab opened at the end sees what a tab opened at the start saw: while a run is
\* in flight, a stream with nothing left to send has sent all its rows, the oldest
\* too (prune against replay).
SameTranscript ==
    \A c \in Client :
        ~over /\ server[c].pc = "live" /\ server[c].queue = <<>> /\ ~server[c].dropped
            => {i \in DOMAIN log : "run" \in log[i]} \cap Wanted(c)
                  \subseteq Got(c) \cup tab[c].swallowed

\* On its first connection a tab misses no line: each was replayed, is queued, or
\* will be announced as dropped (the file is written before the line is published,
\* and the subscription precedes the reading of the file).
NoLineMissed ==
    \A c \in Client :
        tab[c].stream = "run" /\ tab[c].first /\ server[c].pc = "live" =>
            \/ server[c].dropped
            \/ 1 .. written \subseteq ToSet(tab[c].shown) \cup QueuedLines(c)

\* Every row reaches every tab that wants it, over lost connections, overflows and
\* restarts, unless it is pruned, came from the thread or was swallowed.
RowsArrive ==
    \A c \in Client, i \in Seqs :
        i \in DOMAIN log /\ Wants(c, log[i])
            ~> i \in Got(c) \cup late \cup tab[c].swallowed \/ i \notin kept
============================================================================
