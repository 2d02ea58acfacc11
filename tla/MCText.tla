------------------------------- MODULE MCText -------------------------------
(***************************************************************************)
(* A small instance of CaptionText for TLC.                                *)
(***************************************************************************)
EXTENDS CaptionText

\* At the limits of the rules, 700 ms and a gap of 4000 ms, and past an hour.
Times == {0, 700, 1000, 4700, 3661002}

Between == {time \in [start : Times, end : Times] : time.start < time.end}

NoArrows == [n \in {} |-> None]

Said(lines, marks) == [lines |-> lines, arrows |-> NoArrows, marks |-> marks]

Named(lines) == [name |-> "Ann", lines |-> lines]

\* At 15 characters a second; with empty lines at the start and inside,
\* and a line that is too long.
Spoken == {[speaker |-> None, text |-> Said(<<15>>, {"["})],
           [speaker |-> Named(<<Words(FALSE)>>), text |-> Said(<<0, 4>>, {"[", "]"})],
           [speaker |-> None, text |-> Said(<<4, 0, 33>>, {})]}

\* "-->" in the words, and times; markup; a speaker with an empty line, and one
\* with times, between two line breaks and before the words.
Second == [start |-> <<0, 0, 0, 0>>, end |-> <<0, 0, 1, 0>>]

Raw == {[speaker |-> None,
         text |-> [lines |-> <<4, 9, 7>>, arrows |-> [n \in {2} |-> None],
                   marks |-> {"]"}]],
        [speaker |-> None,
         text |-> [lines |-> <<4, 0, 2, 29>>, arrows |-> [n \in {4} |-> Second],
                   marks |-> {"[", "]"}]],
        [speaker |-> None, text |-> Said(<<8>>, {"<"})],
        [speaker |-> Named(<<Words(FALSE), Blank, Words(FALSE)>>),
         text |-> Said(<<5>>, {})],
        [speaker |-> Named(<<Arrow(None), Arrow(Second), Arrow(Second)>>),
         text |-> Said(<<5>>, {})]}

\* An identifier with an empty line in it, and one with "-->".
MCSpelling ==
  [id \in {4, 5} |-> IF id = 4 THEN <<Words(FALSE), Blank, Words(FALSE)>>
                              ELSE <<Arrow(None)>>]

Segment(id, time, said) ==
  [id |-> id, time |-> time, speaker |-> said.speaker, text |-> said.text]

Together == {time \in Between : time.start = 700 /\ time.end <= 4700}

MCSegments ==
  {Segment(id, time, said) : id \in 1..3, time \in Between, said \in Spoken}
  \cup {Segment(2, time, said) : time \in Together, said \in Raw}
  \cup {Segment(id, time, said) :
          id \in {4, 5}, time \in Together, said \in {s \in Spoken : s.speaker # None}}
=============================================================================
