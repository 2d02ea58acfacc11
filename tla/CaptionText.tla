---------------------------- MODULE CaptionText -----------------------------
(***************************************************************************)
(* Texts a client may send, grown segment by segment, and what the rules   *)
(* and the published track are to say of each that has the structure of a  *)
(* revision.                                                               *)
(***************************************************************************)
EXTENDS QualityRules, FiniteSets

CONSTANTS
  Segments,    \* what a client may add
  Duration,    \* of the programme
  MaxSegments  \* bound: segments of a text

ASSUME TextAssumption ==
  /\ None \notin [start : Seq(Int), end : Seq(Int)]
  /\ \A segment \in Segments : IsSegment(segment)
  /\ MaxSegments \in Nat

VARIABLE text

Init == text = <<>>

\* A text that was refused is not added to.
Add(segment) ==
  /\ Len(text) < MaxSegments
  /\ text = <<>> \/ ValidateSegments(text, Duration)
  /\ text' = Append(text, segment)

Next == \E segment \in Segments : Add(segment)

Spec == Init /\ [][Next]_text
----------------------------------------------------------------------------
(***************************************************************************)
(* A player: where a text is shown, and what it reads in a track.          *)
(***************************************************************************)
Accepted == ValidateSegments(text, Duration)

RuleSets == {RuleSetForProfile(p) : p \in {"PUBLIC-CULTURE-V1", "BROADCAST-V1"}}

ShownTogether(a, b) ==
  /\ a.time.start < b.time.end
  /\ b.time.start < a.time.end

\* Nothing is shown for longer than a gap may be, until the n-th starts.
SilenceBefore(rules, n) ==
  \A m \in 1..(n - 1) : text[n].time.start - text[m].time.end > rules.maxGap

Reported(rules, rule, n) ==
  Finding(rule, <<text[n - 1].id, text[n].id>>) \in EvaluateRules(rules, text)

RunesBetween(m, n) == SumFunction([k \in m..n |-> Runes(text[k])])

Millis(stamp) ==
  3600000 * stamp[1] + 60000 * stamp[2] + 1000 * stamp[3] + stamp[4]

\* A cue is the line of its times, the first line of a block before it, and the
\* lines of words after it.
ReadWebVTT(file) ==
  LET times == {n \in DOMAIN file : HoldsTimes(file[n])}
      EndOf(n) == CHOOSE m \in DOMAIN file :
                    /\ m > n /\ file[m].is # "words"
                    /\ \A k \in (n + 1)..(m - 1) : file[k].is = "words"
      HasId(n) == n > 2 /\ file[n - 1].is = "words" /\ file[n - 2] = Blank
      CueAt(n) == [id    |-> IF HasId(n) THEN file[n - 1] ELSE None,
                   start |-> Millis(file[n].times.start),
                   end   |-> Millis(file[n].times.end),
                   text  |-> SubSeq(file, n + 1, EndOf(n) - 1)]
  IN [k \in 1..Cardinality(times) |->
        CueAt(CHOOSE n \in times : Cardinality({m \in times : m < n}) = k - 1)]

\* The characters of the lines a cue shows; what it shows of markup is open.
SaidIn(cue) ==
  [n \in DOMAIN cue.text |-> IF cue.text[n].marked THEN None ELSE cue.text[n].runes]

\* Words without an empty line, "-->" and markup, said by nobody or by somebody
\* whose name is such a line.
IsPlain(segment) ==
  /\ \A n \in DOMAIN segment.text.lines :
       segment.text.lines[n] > 0 \/ (n = 1 /\ segment.speaker # None)
  /\ DOMAIN segment.text.arrows = {}
  /\ {"<", "&"} \cap segment.text.marks = {}
  /\ segment.speaker # None => segment.speaker.lines = <<Words(FALSE)>>

\* A line of a name or of the words is one of times.
ContainsTimes(segment) ==
  \/ /\ segment.id \in DOMAIN Spelling
     /\ \E n \in DOMAIN Spelling[segment.id] : HoldsTimes(Spelling[segment.id][n])
  \/ /\ segment.speaker # None
     /\ \E n \in DOMAIN segment.speaker.lines : HoldsTimes(segment.speaker.lines[n])
  \/ \E n \in DOMAIN segment.text.arrows : segment.text.arrows[n] # None

IsCueOf(cue, segment) ==
  /\ cue.start = segment.time.start
  /\ cue.end = segment.time.end
  /\ segment.id \notin DOMAIN Spelling => cue.id = IdLine(segment.id)
  /\ IsPlain(segment) => SaidIn(cue) = segment.text.lines
----------------------------------------------------------------------------
(***************************************************************************)
(* Properties.                                                             *)
(***************************************************************************)

\* Whether any two captions are on the screen together is decided rightly,
\* although each is compared with its neighbour only: a long caption that runs
\* into a later one, over others, leaves an overlap between neighbours.
OverlapNoticed ==
  Accepted => \A rules \in RuleSets :
    (\E m, n \in DOMAIN text : m # n /\ ShownTogether(text[m], text[n]))
      <=> \E finding \in EvaluateRules(rules, text) : finding.rule = "OVERLAP"

\* Every stretch without captions that is too long is reported, at the caption
\* that ends it; and what is reported is one, in a text without overlaps.
SilenceNoticed ==
  Accepted => \A rules \in RuleSets, n \in 2..Len(text) :
    /\ SilenceBefore(rules, n) => Reported(rules, "EXCESSIVE_GAP", n)
    /\ /\ Reported(rules, "EXCESSIVE_GAP", n)
       /\ \A k \in 2..n : ~Reported(rules, "OVERLAP", k)
       => SilenceBefore(rules, n)

\* A text without a blocking finding never asks for more characters a second
\* than its profile allows, over any stretch of captions and not only each.
ReadablePace ==
  Accepted => \A rules \in RuleSets :
    (\A finding \in EvaluateRules(rules, text) : Severity(finding) # "blocking")
      => \A n \in DOMAIN text : \A m \in 1..n :
           1000 * RunesBetween(m, n)
             <= rules.maxCharsPerSecond * (text[n].time.end - text[m].time.start)

\* Texts with the same segments have the same track, and so the same digest, in
\* whichever of the orders that are accepted they were sent.
TrackIsCanonical ==
  Accepted => \A order \in {f \in [DOMAIN text -> DOMAIN text] :
                              \A m, n \in DOMAIN text : f[m] = f[n] => m = n} :
    LET other == [n \in DOMAIN text |-> text[order[n]]] IN
    ValidateSegments(other, Duration) => BuildWebVTT(other) = BuildWebVTT(text)

\* A player finds in the track each caption at its times, with its identifier
\* and its words where these are plain, whatever is written raw into other
\* captions.  It finds no others, and these in the order of their starts, unless
\* some name or text holds a line of times.
TrackReadsBack ==
  Accepted =>
    LET cues == ReadWebVTT(BuildWebVTT(text)) IN
    /\ \A n \in DOMAIN text : \E k \in DOMAIN cues : IsCueOf(cues[k], text[n])
    /\ (\A n \in DOMAIN text : ~ContainsTimes(text[n])) =>
         /\ Len(cues) = Len(text)
         /\ \A k \in 2..Len(cues) : cues[k - 1].start <= cues[k].start
=============================================================================
