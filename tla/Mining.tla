------------------------------- MODULE Mining -------------------------------
(***************************************************************************)
(* What the review comments of a repository teach: which were enforced     *)
(* (brain/enforce.py), how those are grouped, and which groups become      *)
(* norms (brain/mine.py).  A comment is <<pull request, position in it>>.  *)
(* How alike two texts are is data, in per cent; the code computes it with *)
(* sentence embeddings where a model is installed, else from shared words. *)
(***************************************************************************)
EXTENDS Naturals, FiniteSets
F == INSTANCE FiniteSetsExt

CONSTANTS Reviews,      \* per pull request, its comments: [reviewer, text, words, at]
          Commits,      \* per pull request, its commits: [committer, author], each a time
                        \* or 0 where GitHub names none
          Likeness,     \* per vectoriser and two texts, their similarity in per cent
          Threshold,    \* per vectoriser, the similarity at which groups merge
          MinSupport, MinReviewers, MaxComments  \* [brain] in the configuration

ASSUME MiningAssumption ==
    /\ MinSupport \in Nat \ {0} /\ MinReviewers \in Nat /\ MaxComments \in Nat
    /\ \A m, n \in DOMAIN Reviews : \A i \in DOMAIN Reviews[m], j \in DOMAIN Reviews[n] :
         Reviews[m][i].at = Reviews[n][j].at => <<m, i>> = <<n, j>>
    /\ \A n \in DOMAIN Reviews : /\ IsFiniteSet(DOMAIN Reviews[n])
                                 /\ \A i \in DOMAIN Reviews[n] : Reviews[n][i].at \in Nat
    /\ DOMAIN Likeness = DOMAIN Threshold /\ DOMAIN Likeness # {}
    /\ \A v \in DOMAIN Likeness :
         /\ Threshold[v] \in Nat
         /\ \A n \in DOMAIN Reviews : \A i \in DOMAIN Reviews[n] :
              Reviews[n][i].text \in DOMAIN Likeness[v]
         /\ \A s, t \in DOMAIN Likeness[v] :
              Likeness[v][s][t] \in 0 .. 100 /\ Likeness[v][s][t] = Likeness[v][t][s]
----------------------------------------------------------------------------
(* The enforcement filter and what is worth grouping *)

Review(c) == Reviews[c[1]][c[2]]
CommentsOf(n) == {<<n, i>> : i \in DOMAIN Reviews[n]}

CommitTime(k) == IF k.committer # 0 THEN k.committer ELSE k.author
Latest(n) == F!Max({0} \cup {CommitTime(k) : k \in Commits[n]})

\* A commit landed after the comment, on a pull request that then merged.
Enforced(c) == Review(c).at < Latest(c[1])

\* Acknowledgements, and fewer than four words of prose, teach nothing.
Teaches(c) == Review(c).words >= 4

\* Store.review_comments gives the enforced ones, newest first; the newest that teach
\* something are grouped.
Later(comments, c) == {d \in comments : Review(d).at > Review(c).at}
Usable(comments) ==
    LET enforced == {c \in comments : Enforced(c)}
    IN  {c \in enforced : Cardinality(Later(enforced, c)) < MaxComments /\ Teaches(c)}
----------------------------------------------------------------------------
(* agglomerate: average linkage with Lance-Williams updates.  A link says   *)
(* that two groups are as alike as the fraction n / d, in per cent; groups *)
(* stand in the order of their newest members.                             *)

LikenessOf(c, d, v) == Likeness[v][Review(c).text][Review(d).text]

Link(A, B, n, d) ==
    LET g == F!Max({e \in 1 .. d : d % e = 0 /\ n % e = 0})
    IN  [groups |-> {A, B}, n |-> n \div g, d |-> d \div g]

Alone(usable, v) ==
    [groups |-> {{c} : c \in usable},
     links |-> {Link({p[1]}, {p[2]}, LikenessOf(p[1], p[2], v), 1) :
                p \in {p \in usable \X usable : p[1] # p[2]}}]

Closer(k, l) == k.n * l.d > l.n * k.d
Newest(A) == F!Max({Review(c).at : c \in A})
First(l) == F!Max({Newest(A) : A \in l.groups})
Second(l) == F!Min({Newest(A) : A \in l.groups})

\* The most alike, and of several the first in the matrix.
Closest(links) ==
    LET best == {l \in links : \A k \in links : ~Closer(k, l)}
    IN  CHOOSE l \in best : \A k \in best :
          First(l) > First(k) \/ (First(l) = First(k) /\ Second(l) >= Second(k))

LinkOf(links, A, B) == CHOOSE l \in links : l.groups = {A, B}

\* Seeded fault: a joined group is as alike to another as the closer of its parts.
AverageNearest(k, m, l, n, A, C) ==
    IF Closer(k, l) THEN Link(A, C, k.n, k.d) ELSE Link(A, C, l.n, l.d)

\* (sizes[a] * similarity[a] + sizes[b] * similarity[b]) / (sizes[a] + sizes[b])
Average(k, m, l, n, A, C) ==
    Link(A, C, m * k.n * l.d + n * l.n * k.d, (m + n) * k.d * l.d)

Join(g, A, B) ==
    LET others == g.groups \ {A, B}
        mean(C) == Average(LinkOf(g.links, A, C), Cardinality(A),
                           LinkOf(g.links, B, C), Cardinality(B), A \cup B, C)
    IN  [groups |-> others \cup {A \cup B},
         links |-> {l \in g.links : l.groups \subseteq others} \cup {mean(C) : C \in others}]

JoinClosest(g, v) ==
    LET l == Closest(g.links)
        A == CHOOSE A \in l.groups : TRUE
        B == CHOOSE B \in l.groups : B # A
    IN  IF g.links = {} \/ l.n < Threshold[v] * l.d THEN g ELSE Join(g, A, B)

\* Every round but the last joins two groups, so there are fewer rounds than comments.
Agglomerate(usable, v) ==
    LET after[k \in 0 .. Cardinality(usable)] ==
          IF k = 0 THEN Alone(usable, v) ELSE JoinClosest(after[k - 1], v)
    IN  after[Cardinality(usable)].groups
----------------------------------------------------------------------------
(* From groups to norms *)

\* The member closest to all of the group speaks for it, the newest of several.
Representative(group, v) ==
    LET closeness(c) == F!MapThenSumSet(LAMBDA d : LikenessOf(c, d, v), group)
    IN  CHOOSE c \in group : \A d \in group :
            \/ closeness(d) < closeness(c)
            \/ closeness(d) = closeness(c) /\ Review(d).at <= Review(c).at

\* min(1, members / 10) * min(1, reviewers / 4), in thousandths.
Confidence(support, reviewers) ==
    25 * F!Min({support, 10}) * F!Min({reviewers, 4})

NormOf(group, v) ==
    LET reviewers == {Review(c).reviewer : c \in group} \ {""}
    IN  [quote |-> Review(Representative(group, v)).text,
         members |-> group,
         support |-> Cardinality(group),
         reviewers |-> Cardinality(reviewers),
         confidence |-> Confidence(Cardinality(group), Cardinality(reviewers)),
         clustered_by |-> v]

MineNorms(comments, v) ==
    LET usable == Usable(comments)
        candidates == {NormOf(g, v) : g \in Agglomerate(usable, v)}
    IN  IF Cardinality(usable) < MinSupport THEN {}
        ELSE {n \in candidates : n.support >= MinSupport /\ n.reviewers >= MinReviewers}
=============================================================================
