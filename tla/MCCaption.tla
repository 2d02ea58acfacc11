----------------------------- MODULE MCCaption -----------------------------
(***************************************************************************)
(* Small instances of CaptionWorkflow for TLC.                             *)
(***************************************************************************)
EXTENDS CaptionWorkflow, TLC

CONSTANTS r1, r2, r3, ann, ben, j1, j2

Cue(id, time, text) == [id |-> id, time |-> time, speaker |-> "", text |-> text]

\* One text without findings, and one that overlaps and has no sound cue.
Clean  == <<Cue("a", 0, "[music] hello"), Cue("b", 2, "bye")>>
Faulty == <<Cue("a", 0, "hello"), Cue("b", 0, "bye")>>

\* A text long enough for a sample that leaves something out, and two rewrites
\* of it that change one cue's text each.
Long   == <<Cue("a", 0, "[music]"), Cue("b", 2, "one"),
            Cue("c", 4, "two"), Cue("d", 6, "three")>>
LongB  == [Long EXCEPT ![2].text = "uno"]
LongC  == [Long EXCEPT ![3].text = "dos"]

Reported(c) ==
  CASE c = Faulty -> {"OVERLAP", "SOUND_CUE"}
    [] OTHER      -> {}

TwoTexts  == {Clean, Faulty}
LongTexts == {Long, LongB, LongC}

MCIssues   == {"OVERLAP", "SOUND_CUE"}
MCBlocking == {"OVERLAP"}
MCEvaluate == [pc \in KnownProfiles \X Contents |-> Reported(pc[2])]
MCWebVTT   == [c \in Contents |-> <<"WEBVTT", c>>]

\* Keys are numbers, spent in order for each operation: the records of one
\* operation are told apart by nothing else, so the other orders are alike.
KeysInOrder ==
  \A op \in Ops, k \in Keys :
    k > 1 /\ ~KeyUnused(op, k) => ~KeyUnused(op, k - 1)

\* One job goes all the way, with any text and no receipts; two jobs, and receipts,
\* go together with the clean text and a shorter way, so that TLC can visit both
\* kinds of histories in one run.  A state past these bounds is not gone on from.
ShortWay ==
  /\ \A r \in Revisions : revisions[r].job = None \/ revisions[r].content = Clean
  /\ \A preflight \in preflights : preflight.content = Clean
  /\ Cardinality({r \in Revisions : revisions[r].job # None}) <= 2
  /\ \A j \in Jobs : jobs[j].profile \in KnownProfiles \cup {None}
                    /\ jobs[j].version <= 6
  /\ \A op \in Ops : KeyUnused(op, 3)

LongOrShort ==
  (\A j \in Jobs : jobs[j].status # "absent") \/ preflights # {} \/ previews # {}
    => ShortWay

PeopleSymmetry   == Permutations(Revisions) \cup Permutations(People)
JobSymmetry      == PeopleSymmetry \cup Permutations(Jobs)
============================================================================
