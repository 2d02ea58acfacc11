---------------------------- MODULE MCSelfCheck -----------------------------
(***************************************************************************)
(* The self check with the text it sends, and small instances of it.       *)
(***************************************************************************)
EXTENDS SelfCheck

CONSTANTS j1, j2, r1, r2

NoArrows  == [n \in {} |-> None]
PlainOnly == [id \in {} |-> None]

Segment(id, start, end, speaker, runes, marks) ==
  [id |-> id, time |-> [start |-> start, end |-> end],
   speaker |-> [name |-> speaker, lines |-> <<Rules!Words(FALSE)>>],
   text |-> [lines |-> <<runes>>, arrows |-> NoArrows, marks |-> marks]]

\* A sound cue of four characters, too short by 200 ms, and a sentence.
Sent  == <<Segment(1, 0, 500, "sounds", 4, {"[", "]"}), Segment(2, 700, 2700, "host", 11, {})>>
Texts == {Sent}

MCEvaluate == [pc \in KnownProfiles \X Contents |->
                 Rules!EvaluateRules(Rules!RuleSetForProfile(pc[1]), pc[2])]
MCWebVTT   == [c \in Contents |-> Rules!BuildWebVTT(c)]
MCIssues   == UNION {MCEvaluate[pc] : pc \in KnownProfiles \X Contents}
MCBlocking == {issue \in MCIssues : Rules!Severity(issue) = "blocking"}

\* Which identifier is drawn first makes no difference.
DrawnInOrder ==
  /\ jobs[j2].status # "absent" => jobs[j1].status # "absent"
  /\ revisions[r2].job # None => revisions[r1].job # None
=============================================================================
