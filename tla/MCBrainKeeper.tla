--------------------------- MODULE MCBrainKeeper ---------------------------
(***************************************************************************)
(* A small instance of BrainKeeper for TLC.  Four pull requests were       *)
(* closed, the third without a merge.  Of the six comments one is too      *)
(* short and one came after the last commit; the others form a chain, each *)
(* like the next, that average linkage cuts.                               *)
(***************************************************************************)
EXTENDS BrainKeeper

Comment(reviewer, text, words, at) ==
    [reviewer |-> reviewer, text |-> text, words |-> words, at |-> at]

ReviewsOf ==
    << <<>>,
       <<Comment("ann", 1, 9, 1), Comment("bob", 2, 9, 2), Comment("cyd", 4, 2, 3)>>,
       <<>>,
       <<Comment("ann", 3, 9, 4), Comment("bob", 4, 9, 5), Comment("cyd", 4, 9, 7)>> >>
At(committer, author) == [committer |-> committer, author |-> author]
CommitsOf == <<{At(1, 1)}, {At(2, 1), At(4, 1)}, {At(7, 7)}, {At(0, 7), At(3, 1)}>>

\* How alike two texts are falls with their distance.
Texts == 1 .. 4
Near == [d \in 0 .. 3 |-> CASE d = 0 -> 100 [] d = 1 -> 80 [] d = 2 -> 55 [] OTHER -> 20]
Wide == [d \in 0 .. 3 |-> CASE d = 0 -> 100 [] d = 1 -> 25 [] d = 2 -> 5 [] OTHER -> 0]
Distance(s, t) == IF s < t THEN t - s ELSE s - t
Likenesses ==
    [semantic |-> [s \in Texts |-> [t \in Texts |-> Near[Distance(s, t)]]],
     lexical |-> [s \in Texts |-> [t \in Texts |-> Wide[Distance(s, t)]]]]
Thresholds == [semantic |-> 75, lexical |-> 20]
============================================================================
