---------------------------- MODULE BrainKeeper ----------------------------
(***************************************************************************)
(* The norms of one repository mined from its review history:              *)
(* brain/keeper.py, with brain/harvest.py and what it stores through       *)
(* storage/repos.py, and who calls it in api/service.py and api/app.py.    *)
(* Closed pull requests are numbered in the order GitHub last updated      *)
(* them.                                                                   *)
(***************************************************************************)
EXTENDS Mining, Sequences

CONSTANTS MaxPulls,      \* bound: pull requests closed
          Ties,          \* those that may be closed in the second of the one before
          Unmerged,      \* those closed without a merge, which may be reopened
          HarvestLimit, IncrementalLimit,  \* how many a first and a later harvest reads
          PageSize,      \* how many GitHub lists per page
          Schedule, Reader, Caller,  \* who refreshes: each day, at first reading, the API
          MaxEvents      \* bound: faults and reopenings

ASSUME BrainKeeperAssumption ==
    /\ MaxPulls \in Nat /\ Unmerged \cup Ties \subseteq 1 .. MaxPulls
    /\ 1 .. MaxPulls \subseteq DOMAIN Reviews \cap DOMAIN Commits
    /\ Cardinality({Schedule, Reader, Caller}) = 3
    /\ MaxEvents \in Nat
    /\ {HarvestLimit, IncrementalLimit, PageSize} \subseteq Nat \ {0}

VARIABLES
    stamp,     \* the second at which each closed pull request was last updated
    reopened,  \* those reopened since
    comments,  \* the review comments stored
    mined,     \* the comments that the norms stored with source "mined" were mined from
    by,        \* and the vectoriser; together they determine the norms
    through,   \* harvested_through
    built,     \* whether built_at is unset, or within refresh_hours, or older
    learner,   \* what each learner is at
    passed,    \* pull requests a walk left beyond its limit, or between its pages (history)
    unmined,   \* a refresh was killed or failed before it mined (history)
    events

github == <<stamp, reopened>>
tables == <<comments, mined, by, through, built>>
vars == <<github, tables, learner, passed, unmined, events>>
----------------------------------------------------------------------------
Learner == {Schedule, Reader, Caller}
Pulls == DOMAIN stamp \ reopened
merged == DOMAIN stamp \ Unmerged
IdleLearner == [pc |-> "idle", force |-> FALSE, since |-> 0, never |-> FALSE,
                page |-> 0, out |-> <<>>]

\* remember: every start, and a new repository, begin with a first reading.
Starting == [l \in Learner |-> IF l = Reader THEN [IdleLearner EXCEPT !.pc = "begin"]
                               ELSE IdleLearner]

Init ==
    /\ stamp = <<>> /\ reopened = {}
    /\ comments = {} /\ mined = {} /\ by = CHOOSE v \in DOMAIN Likeness : TRUE
    /\ through = 0 /\ built = "never"
    /\ learner = Starting
    /\ passed = {} /\ unmined = FALSE
    /\ events = 0

\* Seeded fault: refresh_hours are never counted.
DueOnce == built = "never"

Due == built # "fresh"
Learning(l) == learner[l].pc \in {"fetch", "store", "mine", "state"}
Event == events < MaxEvents /\ events' = events + 1
Gets(l, pc) == learner' = [learner EXCEPT ![l].pc = pc]
----------------------------------------------------------------------------
(* GitHub, and fetch_reviews, which walks its closed pull requests from the *)
(* newest back, page by page, to the last one read or to its limit         *)

\* A pull request is closed, perhaps in the second of another.
Close ==
    LET n == Len(stamp) IN
    /\ n < MaxPulls
    /\ \E second \in IF n = 0 THEN {1} ELSE IF n + 1 \in Ties THEN {stamp[n], stamp[n] + 1}
                     ELSE {stamp[n] + 1} :
         stamp' = Append(stamp, second)
    /\ UNCHANGED <<reopened, tables, learner, passed, unmined, events>>

Newer(n) == {m \in Pulls : m > n}
Listed == [i \in 1 .. Cardinality(Pulls) |->
             CHOOSE n \in Pulls : Cardinality(Newer(n)) = i - 1]
Limit(l) == IF learner[l].since = 0 THEN HarvestLimit ELSE IncrementalLimit
PerPage(l) == IF Limit(l) < PageSize THEN Limit(l) ELSE PageSize

\* One that was closed without a merge is reopened and leaves the list: between two
\* pages of a walk, the first one of the next page moves to the one just read.
Reopen(n) ==
    /\ Event
    /\ n \in Pulls \cap Unmerged
    /\ reopened' = reopened \cup {n}
    /\ passed' = passed \cup UNION {LET read == PerPage(l) * learner[l].page IN
          IF learner[l].pc = "fetch" /\ Len(Listed) > read
             /\ n \in {Listed[i] : i \in 1 .. read}
          THEN {Listed[read + 1]} ELSE {} : l \in Learner}
    /\ UNCHANGED <<stamp, tables, learner, unmined>>

\* One page; the walk ends at one that was read before, at a page that is not full,
\* or at the limit, beyond which it leaves what it will not come back to.
FetchPage(l) ==
    LET k == learner[l]
        per == PerPage(l)
        batch == SubSeq(Listed, per * k.page + 1,
                        IF per * (k.page + 1) < Len(Listed) THEN per * (k.page + 1)
                        ELSE Len(Listed))
        known == {i \in DOMAIN batch : stamp[batch[i]] <= k.since}
        new == IF known = {} THEN batch
               ELSE SubSeq(batch, 1, (CHOOSE i \in known : \A j \in known : i <= j) - 1)
        out == k.out \o new
        more == known = {} /\ Len(batch) = per /\ Len(out) < Limit(l)
    IN  /\ k.pc = "fetch"
        /\ learner' = [learner EXCEPT ![l].pc = IF more THEN "fetch" ELSE "store",
                                      ![l].page = IF more THEN @ + 1 ELSE 0,
                                      ![l].out = IF Len(out) > Limit(l)
                                                 THEN SubSeq(out, 1, Limit(l)) ELSE out]
        /\ passed' = IF more THEN passed
                     ELSE passed \cup {n \in {Listed[i] : i \in Limit(l) + 1 .. Len(Listed)} :
                                        stamp[n] > k.since}
        /\ UNCHANGED <<github, tables, unmined, events>>

\* GitHub refuses a page, or the comments or commits of a pull request: all that was
\* read is dropped, and the refresh goes on with nothing.
FetchRefused(l) ==
    /\ Event
    /\ learner[l].pc = "fetch"
    /\ learner' = [learner EXCEPT ![l].pc = "store", ![l].page = 0, ![l].out = <<>>]
    /\ UNCHANGED <<github, tables, passed, unmined>>
----------------------------------------------------------------------------
(* Who refreshes, and when *)

\* refresh_hours have passed.
Ages ==
    /\ built = "fresh"
    /\ built' = "old"
    /\ UNCHANGED <<github, comments, mined, by, through, learner, passed, unmined, events>>

\* Whether a refresh is due is asked before the lock is.
Scheduled ==
    /\ learner[Schedule].pc = "idle"
    /\ Due
    /\ Gets(Schedule, "wait")
    /\ UNCHANGED <<github, tables, passed, unmined, events>>

\* A first reading, once the charter has had its own.
BeginReading ==
    /\ learner[Reader].pc = "begin"
    /\ Gets(Reader, IF Due THEN "wait" ELSE "idle")
    /\ UNCHANGED <<github, tables, passed, unmined, events>>

\* A request forces it.
Request ==
    /\ learner[Caller].pc = "idle"
    /\ learner' = [learner EXCEPT ![Caller].pc = "wait", ![Caller].force = TRUE]
    /\ UNCHANGED <<github, tables, passed, unmined, events>>

\* With the lock, _learn reads how far the last harvest came.
Learn(l) ==
    /\ learner[l].pc = "wait"
    /\ \A m \in Learner : ~Learning(m)
    /\ learner' = [learner EXCEPT ![l].pc = "fetch", ![l].since = through,
                                  ![l].never = (built = "never")]
    /\ UNCHANGED <<github, tables, passed, unmined, events>>

----------------------------------------------------------------------------
(* What a refresh does with what it read *)

\* judge_comments: the rows of the merged ones among what was read, each the comment
\* at a place, and the places in their order.
Places(l) ==
    UNION {{<<a, b>> : b \in DOMAIN Reviews[learner[l].out[a]]} :
           a \in {a \in DOMAIN learner[l].out : learner[l].out[a] \in merged}}
RowAt(l, p) == <<learner[l].out[p[1]], p[2]>>
RowsOf(l) == {RowAt(l, p) : p \in Places(l)}
UpTo(p, q) == p[1] < q[1] \/ (p[1] = q[1] /\ p[2] <= q[2])
Kept(rows) == {c \in rows : Enforced(c)}

\* put_review_comments says how many enforced ones are new, and without any the
\* norms are mined only on demand or if they never were.
Store(l) ==
    LET k == learner[l]
        new == Kept(RowsOf(l) \ comments)
    IN  /\ k.pc = "store"
        /\ comments' = comments \cup RowsOf(l)
        /\ Gets(l, IF new # {} \/ k.force \/ (Kept(comments') # {} /\ k.never)
                   THEN "mine" ELSE "state")
        /\ UNCHANGED <<github, mined, by, through, built, passed, unmined, events>>

norms == MineNorms(mined, by)

\* mine_norms with the vectoriser there is, and replace_norms in one transaction.
Mine(l) ==
    /\ learner[l].pc = "mine"
    /\ mined' = comments
    /\ by' \in DOMAIN Likeness
    /\ unmined' = FALSE
    /\ Gets(l, "state")
    /\ UNCHANGED <<github, comments, through, built, passed, events>>

\* Seeded fault: the next harvest goes on from what is closed by now.
PutStateNow(l) ==
    /\ learner[l].pc = "state"
    /\ through' = IF stamp = <<>> THEN 0 ELSE stamp[Len(stamp)]
    /\ built' = "fresh"
    /\ learner' = [learner EXCEPT ![l] = IdleLearner]
    /\ UNCHANGED <<github, comments, mined, by, passed, unmined, events>>

\* The next harvest goes on from the newest merged one this one read.
PutState(l) ==
    LET k == learner[l]
        read == {k.since} \cup {stamp[k.out[i]] : i \in {i \in DOMAIN k.out : k.out[i] \in merged}}
    IN  /\ k.pc = "state"
        /\ through' = CHOOSE s \in read : \A t \in read : t <= s
        /\ built' = "fresh"
        /\ learner' = [learner EXCEPT ![l] = IdleLearner]
        /\ UNCHANGED <<github, comments, mined, by, passed, unmined, events>>

\* The rows that may be stored, one after another, when a learner is stopped, and what
\* it then leaves for good: enforced ones that will not be new again.
Rows(l) ==
    {{}} \cup IF learner[l].pc # "store" THEN {}
             ELSE {{RowAt(l, p) : p \in {p \in Places(l) : UpTo(p, q)}} : q \in Places(l)}
Leaves(l, rows) ==
    /\ comments' = comments \cup rows
    /\ unmined' = (unmined \/ learner[l].pc = "mine" \/ Kept(rows \ comments) # {})

\* Anything raises: the attempt counts as one, and the next waits as long.
LearnFails(l) ==
    /\ Event
    /\ Learning(l)
    /\ \E rows \in Rows(l) : Leaves(l, rows)
    /\ built' = "fresh"
    /\ learner' = [learner EXCEPT ![l] = IdleLearner]
    /\ UNCHANGED <<github, mined, by, through, passed>>

\* The process ends and starts again; at most one learner has the lock.
Crash ==
    /\ Event
    /\ IF \E l \in Learner : Learning(l)
       THEN \E l \in Learner : Learning(l) /\ \E rows \in Rows(l) : Leaves(l, rows)
       ELSE UNCHANGED <<comments, unmined>>
    /\ learner' = Starting
    /\ UNCHANGED <<github, mined, by, through, built, passed>>

Step(l) == Learn(l) \/ FetchPage(l) \/ Store(l) \/ Mine(l) \/ PutState(l)

Next ==
    \/ Close \/ (\E n \in Unmerged : Reopen(n))
    \/ Ages \/ Scheduled \/ BeginReading \/ Request
    \/ \E l \in Learner : Step(l) \/ FetchRefused(l) \/ LearnFails(l)
    \/ Crash

\* Hours pass, the schedule comes round, and every step of a learner is taken in
\* time: requests have timeouts, and waiters get the lock in turn.
Fairness ==
    /\ WF_vars(Ages) /\ WF_vars(Scheduled)
    /\ \A l \in Learner : SF_vars(Step(l))

Spec == Init /\ [][Next]_vars
FairSpec == Spec /\ Fairness
----------------------------------------------------------------------------
(* Properties *)

SameSecond(n) == \E m \in DOMAIN stamp \ {n} : n \in DOMAIN stamp /\ stamp[m] = stamp[n]

\* Every merged pull request up to the last second harvested is stored with all its
\* comments, unless it was beyond a harvest's limit, slipped between two of its pages,
\* or was closed in the second of another, which counts as read (closed_pulls); and
\* every enforced comment stored is in what the norms were mined from, unless mining was
\* cut short: what was stored then is not new to the next refresh (_learn).
ReviewsReachNorms ==
    /\ \A n \in merged : stamp[n] <= through =>
         CommentsOf(n) \subseteq comments \/ n \in passed \/ SameSecond(n)
    /\ ~unmined /\ (\A l \in Learner : learner[l].pc # "mine") => Kept(comments) \subseteq mined

\* And every such comment comes to be in it, however often GitHub refuses or the
\* process ends on the way (refresh, _learn_periodically).
EnforcedAreLearned ==
    \A n \in 1 .. MaxPulls \ Unmerged : Kept(CommentsOf(n)) # {} => (n \in merged ~>
        CommentsOf(n) \subseteq mined \/ n \in passed \/ unmined \/ SameSecond(n))

\* The likeness between the comments of A and those of B, and whether its mean reaches
\* the threshold.
Likenings(A, B, v) == UNION {{p} \X (1 .. LikenessOf(p[1], p[2], v)) : p \in A \X B}
Alike(A, B, v) == Cardinality(Likenings(A, B, v)) >= Threshold[v] * (Cardinality(A) * Cardinality(B))

\* A norm stands for enforced comments, still stored, that as many reviewers raised as
\* asked for; they are no chain of comments each like the next, as a norm joined two
\* parts alike on the average of all their pairs; no two norms should have been one, and
\* none lends its comments to another (mine_norms, agglomerate: "average linkage
\* updates exactly this way").
AreStandards(mined_norms) ==
    /\ \A n \in mined_norms :
         /\ n.members \subseteq Kept(comments)
         /\ Cardinality(n.members) >= MinSupport
         /\ Cardinality({Review(c).reviewer : c \in n.members} \ {""}) >= MinReviewers
         /\ Cardinality(n.members) > 1 => \E A \in (SUBSET n.members) \ {{}, n.members} :
              Alike(A, n.members \ A, n.clustered_by)
    /\ \A m, n \in mined_norms : m # n =>
         m.members \cap n.members = {} /\ ~Alike(m.members, n.members, m.clustered_by)
NormsAreStandards == AreStandards(norms)
============================================================================
