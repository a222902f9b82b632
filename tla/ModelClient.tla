---------------------------- MODULE ModelClient ----------------------------
(***************************************************************************)
(* Threads that ask a model: llm/client.py over llm/ledger.py and the file *)
(* cache of llm/cache.py.  A thread runs with the others at any point, so  *)
(* each access to the ledger, the provider or a file is a step.            *)
(***************************************************************************)
EXTENDS Ledger

CONSTANTS Thread,
          Purpose,      \* the accounts, but for the total, of a run or of a brain's call
          MaxCalls,     \* bound: calls reserved before no more are begun
          MaxFaults     \* bound: failing writes and ends of the process

ASSUME ModelClientAssumption ==
    /\ Purpose \subseteq SUBSET (Run \cup Repo)
    /\ MaxCalls \in Nat /\ MaxFaults \in Nat

VARIABLES
    thread,     \* what each thread is at
    available,  \* there is a provider
    file,       \* the cache's file of each key
    tmp,        \* and the temporary file beside it
    billed,     \* what the provider has charged (history)
    lost,       \* of that, what is in no row and never will be (history)
    leaked,     \* reservations nobody will release (history)
    faults

clientVars == <<thread, available, file, tmp, billed, lost, leaked, faults>>
vars == <<ledgerVars, clientVars>>
----------------------------------------------------------------------------
\* Neither is there, or it is still being written, or it can be read.
Content == {"none", "half", "whole"}

NoReservation == [id |-> 0, usd |-> 0, accounts |-> {}]

\* fd: the file the thread has open, as the temporary one may be renamed under it.
Idle == [pc |-> "idle", key |-> CHOOSE k \in Key : TRUE, accounts |-> {},
         reservation |-> NoReservation, usd |-> 0, fd |-> "none"]

Ask == [pc : {"idle", "reserve", "call", "record", "release", "open", "fill", "replace"},
        key : Key, accounts : SUBSET Account, reservation : Reservation, usd : Nat,
        fd : {"none", "tmp", "file"}]

\* Between reserving and releasing a thread has a reservation of its own.
Holds(t) == thread[t].pc \in {"call", "record", "release"}

TypeOK ==
    /\ LedgerTypeOK
    /\ thread \in [Thread -> Ask]
    /\ available \in BOOLEAN
    /\ file \in [Key -> Content] /\ tmp \in [Key -> Content]
    /\ billed \in Nat /\ lost \in Int
    /\ leaked \subseteq held
    /\ faults \in 0 .. MaxFaults

Init ==
    /\ LedgerInit
    /\ thread = [t \in Thread |-> Idle]
    /\ available \in BOOLEAN
    /\ file = [k \in Key |-> "none"]
    /\ tmp = [k \in Key |-> "none"]
    /\ billed = 0 /\ lost = 0
    /\ leaked = {}
    /\ faults = 0

Goes(t, pc) == thread' = [thread EXCEPT ![t].pc = pc]
Returns(t) == thread' = [thread EXCEPT ![t] = Idle]
----------------------------------------------------------------------------
\* ask: a whole file is an answer, at no cost; a half one is as good as none.
Start(t, k, purpose) ==
    /\ thread[t].pc = "idle"
    /\ next < MaxCalls
    /\ file[k] # "whole"
    /\ available
    /\ thread' = [thread EXCEPT ![t] = [Idle EXCEPT !.pc = "reserve", !.key = k,
                                                    !.accounts = Accounts(purpose)]]
    /\ UNCHANGED <<ledgerVars, available, file, tmp, billed, lost, leaked, faults>>

\* Seeded fault: a call that does not fit waits for one that is under way.
ReserveWaits(t) ==
    LET k == thread[t].key
        a == thread[t].accounts
    IN  /\ thread[t].pc = "reserve"
        /\ Price[k] # Unpriced
        /\ Fits(WorstCase(k), a)
        /\ Hold(NewReservation(WorstCase(k), a))
        /\ thread' = [thread EXCEPT ![t].pc = "call",
                        ![t].reservation = NewReservation(WorstCase(k), a)]
        /\ UNCHANGED <<spent, available, file, tmp, billed, lost, leaked, faults>>

\* reserve: an unpriced model and a cap that could be breached refuse the call.
Reserve(t) ==
    LET k == thread[t].key
        a == thread[t].accounts
    IN  /\ thread[t].pc = "reserve"
        /\ \/ /\ Price[k] # Unpriced
              /\ Fits(WorstCase(k), a)
              /\ Hold(NewReservation(WorstCase(k), a))
              /\ thread' = [thread EXCEPT ![t].pc = "call",
                              ![t].reservation = NewReservation(WorstCase(k), a)]
           \/ /\ Price[k] # Unpriced => ~Fits(WorstCase(k), a)
              /\ Returns(t)
              /\ UNCHANGED <<held, next>>
        /\ UNCHANGED <<spent, available, file, tmp, billed, lost, leaked, faults>>

\* The provider answers, and says what it used.
Answered(t) ==
    /\ thread[t].pc = "call"
    /\ available
    /\ \E usage \in Usage(thread[t].key) :
         LET usd == Cost(usage, Price[thread[t].key]) IN
         /\ billed' = billed + usd
         /\ thread' = [thread EXCEPT ![t].pc = "record", ![t].usd = usd]
    /\ UNCHANGED <<ledgerVars, available, file, tmp, lost, leaked, faults>>

\* Seeded fault: a call that failed keeps its reservation.
RaisedHolding(t) ==
    /\ thread[t].pc = "call"
    /\ available' \in {available, FALSE}
    /\ Returns(t)
    /\ UNCHANGED <<ledgerVars, file, tmp, billed, lost, leaked, faults>>

\* It raises, or another thread has taken the provider away: the reservation is
\* released, and a refusal of the credentials or the model trips the client.
Raised(t) ==
    /\ thread[t].pc = "call"
    /\ Release(thread[t].reservation)
    /\ available' \in {available, FALSE}
    /\ Returns(t)
    /\ UNCHANGED <<spent, next, file, tmp, billed, lost, leaked, faults>>

\* record: the row first,
Record(t) ==
    /\ thread[t].pc = "record"
    /\ Insert(thread[t].usd, thread[t].accounts)
    /\ Goes(t, "release")
    /\ UNCHANGED <<held, next, available, file, tmp, billed, lost, leaked, faults>>

\* or the INSERT raises, and nothing releases what is held;
RecordFails(t) ==
    /\ thread[t].pc = "record"
    /\ faults < MaxFaults
    /\ faults' = faults + 1
    /\ lost' = lost + thread[t].usd
    /\ leaked' = leaked \cup {thread[t].reservation}
    /\ Returns(t)
    /\ UNCHANGED <<ledgerVars, available, file, tmp, billed>>

\* then the release.
Recorded(t) ==
    /\ thread[t].pc = "release"
    /\ Release(thread[t].reservation)
    /\ Goes(t, "open")
    /\ UNCHANGED <<spent, next, available, file, tmp, billed, lost, leaked, faults>>
----------------------------------------------------------------------------
(* _write *)

\* Seeded fault: the file is renamed before it is written.
OpenUnfilled(t) ==
    /\ thread[t].pc = "open"
    /\ tmp' = [tmp EXCEPT ![thread[t].key] = "half"]
    /\ Goes(t, "replace")
    /\ UNCHANGED <<ledgerVars, available, file, billed, lost, leaked, faults>>

\* The temporary file of a key is one for all threads; opening it empties it.
OpenTmp(t) ==
    /\ thread[t].pc = "open"
    /\ tmp' = [tmp EXCEPT ![thread[t].key] = "half"]
    /\ thread' = [thread EXCEPT ![t].pc = "fill", ![t].fd = "tmp"]
    /\ UNCHANGED <<ledgerVars, available, file, billed, lost, leaked, faults>>

\* What is written goes to the file that was opened, wherever it is by now.
FillTmp(t) ==
    LET k == thread[t].key IN
    /\ thread[t].pc = "fill"
    /\ tmp' = IF thread[t].fd = "tmp" THEN [tmp EXCEPT ![k] = "whole"] ELSE tmp
    /\ file' = IF thread[t].fd = "file" THEN [file EXCEPT ![k] = "whole"] ELSE file
    /\ thread' = [thread EXCEPT ![t].pc = "replace", ![t].fd = "none"]
    /\ UNCHANGED <<ledgerVars, available, billed, lost, leaked, faults>>

\* replace raises if another thread has renamed the file already.  A rename takes
\* the writers of the file with it.
Replace(t) ==
    LET k == thread[t].key
        moved == [tmp |-> "file", file |-> "none", none |-> "none"]
    IN  /\ thread[t].pc = "replace"
        /\ IF tmp[k] = "none"
           THEN Returns(t) /\ UNCHANGED <<file, tmp>>
           ELSE /\ file' = [file EXCEPT ![k] = tmp[k]]
                /\ tmp' = [tmp EXCEPT ![k] = "none"]
                /\ thread' = [u \in Thread |->
                     IF u = t THEN Idle
                     ELSE IF thread[u].key = k
                     THEN [thread[u] EXCEPT !.fd = moved[@]] ELSE thread[u]]
        /\ UNCHANGED <<ledgerVars, available, billed, lost, leaked, faults>>
----------------------------------------------------------------------------
\* The process ends: reservations and calls are gone, rows and files are not.  What
\* was charged for a call and not recorded never will be.
Crash ==
    /\ faults < MaxFaults
    /\ faults' = faults + 1
    /\ lost' = billed - spent[Total]
    /\ held' = {} /\ next' = 0
    /\ leaked' = {}
    /\ thread' = [t \in Thread |-> Idle]
    /\ available' \in BOOLEAN
    /\ UNCHANGED <<spent, file, tmp, billed>>

Midnight == NewDay /\ UNCHANGED clientVars

Proceed(t) ==
    \/ Reserve(t) \/ Answered(t) \/ Raised(t) \/ Record(t) \/ Recorded(t)
    \/ OpenTmp(t) \/ FillTmp(t) \/ Replace(t)

Next ==
    \/ \E t \in Thread :
         \/ \E k \in Key, purpose \in Purpose : Start(t, k, purpose)
         \/ Proceed(t)
         \/ RecordFails(t)
    \/ Midnight
    \/ Crash

\* Every call has a timeout, and a thread is never blocked but for a moment.
Fairness == \A t \in Thread : WF_vars(Proceed(t))

Spec == Init /\ [][Next]_vars
FairSpec == Spec /\ Fairness
----------------------------------------------------------------------------
(* Properties *)

\* The reservations whose call is in no row yet.
Unrecorded == {r \in held : \A t \in Thread :
                  thread[t].pc = "release" => thread[t].reservation # r}

\* Money spent, and money that calls in flight may still cost, together stay
\* within every cap, whatever the threads do, over midnight and restarts (reserve
\* and record, which together take several steps).
WithinCaps == \A a \in Account : spent[a] + HeldOn(Unrecorded, a) <= Cap[a]

\* What the provider charged is in the table, or about to be, or was lost with a
\* failing write or with the process: no call is charged twice or not at all.
Charging == {t \in Thread : thread[t].pc = "record"}
ChargedNotRecorded == Cardinality(UNION {{t} \X (1 .. thread[t].usd) : t \in Charging})
MoneyAccounted == billed = spent[Total] + ChargedNotRecorded + lost

\* A reservation is held by a call that is under way, each by one; only those
\* whose INSERT failed are held for nothing (the except of ask covers the call and
\* not the recording).
HeldByCalls ==
    /\ \A t \in Thread : Holds(t) => thread[t].reservation \in held \ leaked
    /\ \A t, u \in Thread : Holds(t) /\ Holds(u) /\ thread[t].reservation.id
                              = thread[u].reservation.id => t = u
    /\ \A r \in held \ leaked : \E t \in Thread : Holds(t) /\ thread[t].reservation = r

\* A cached answer is half written only while its writer still writes it, or for
\* good if the process ended before it had: two threads that answer the same
\* question write the same temporary file (_write).
HalfIsBeingWritten ==
    \A k \in Key : file[k] = "half" =>
        \/ faults > 0
        \/ \E t \in Thread : thread[t].pc = "fill" /\ thread[t].key = k /\ thread[t].fd = "file"

\* Every question ends, with an answer or an exception: none waits for money that
\* a call in flight may give back.
QuestionsEnd == \A t \in Thread : thread[t].pc # "idle" ~> thread[t].pc = "idle"
============================================================================
