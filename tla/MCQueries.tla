----------------------------- MODULE MCQueries ------------------------------
(***************************************************************************)
(* Small instances of CaptionQueries for TLC.                              *)
(***************************************************************************)
EXTENDS CaptionQueries, TLC

CONSTANTS r1, r2, r3, ann, ben, j1

\* Names and words in these texts hold no "-->".
NoArrows  == [n \in {} |-> None]
PlainOnly == [id \in {} |-> None]

Segment(id, start, end, runes) ==
  [id |-> id, time |-> [start |-> start, end |-> end], speaker |-> None,
   text |-> [lines |-> <<runes>>, arrows |-> NoArrows, marks |-> {"[", "]"}]]

\* A text without findings; one whose first caption stays on over the two that
\* follow, of which only the first is a neighbour; and one that leaves segments
\* out, moves and shortens one, adds one, and is silent for too long.
Calm    == <<Segment(1, 0, 1000, 5), Segment(2, 1200, 2200, 8),
             Segment(3, 2400, 3400, 9), Segment(4, 3600, 4600, 7)>>
Tangled == [Calm EXCEPT ![1].time.end = 3000]
Cut     == <<Segment(1, 0, 1000, 6), Segment(3, 2500, 3100, 9),
             Segment(5, 8000, 9000, 4)>>

Texts == {Calm, Tangled, Cut}

MCEvaluate == [pc \in KnownProfiles \X Contents |->
                 Rules!EvaluateRules(Rules!RuleSetForProfile(pc[1]), pc[2])]
MCWebVTT   == [c \in Contents |-> Rules!BuildWebVTT(c)]
MCIssues   == UNION {MCEvaluate[pc] : pc \in KnownProfiles \X Contents}
MCBlocking == {issue \in MCIssues : Rules!Severity(issue) = "blocking"}

\* As in MCCaption: keys of one operation are told apart by nothing else.
KeysInOrder ==
  \A op \in Ops, k \in Keys :
    k > 1 /\ ~KeyUnused(op, k) => ~KeyUnused(op, k - 1)

Symmetry == Permutations(Revisions) \cup Permutations(People)
=============================================================================
