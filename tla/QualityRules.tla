---------------------------- MODULE QualityRules ----------------------------
(***************************************************************************)
(* What a caption text is checked for and what is published of it: the     *)
(* structure a revision must have, the rules of a profile, and the WebVTT  *)
(* track, as pure operators.                                               *)
(*                                                                         *)
(* A text is a sequence of segments                                        *)
(*   [id, time |-> [start, end], speaker, text |-> [lines, arrows, marks]] *)
(* with times in milliseconds.  Of the words there remain the number of    *)
(* characters of each line, 0 for an empty one, the lines with "-->" in    *)
(* them, and which of the marks of a sound cue, and of markup, occur;      *)
(* white space is left out.  Identifiers are numbers, ordered as their     *)
(* strings are.                                                            *)
(***************************************************************************)
EXTENDS Integers, Sequences, SequencesExt

CONSTANTS
  None,     \* no identifier, no speaker, no rule set, no times
  Spelling  \* the lines of each identifier that is not a single line of words
----------------------------------------------------------------------------
(***************************************************************************)
(* Rule sets.                                                              *)
(***************************************************************************)
DefaultRuleSet ==
  [maxCharsPerSecond |-> 15, maxLineRunes |-> 32, minDuration |-> 700,
   maxDuration |-> 7000, maxGap |-> 4000]

\* A profile code, trimmed and in capitals.
RuleSetForProfile(profile) ==
  CASE profile \in {"PUBLIC-CULTURE-V1", "P1", "P"} -> DefaultRuleSet
    [] profile = "BROADCAST-V1" ->
         [maxCharsPerSecond |-> 17, maxLineRunes |-> 42, minDuration |-> 500,
          maxDuration |-> 8000, maxGap |-> 5000]
    [] OTHER -> None
----------------------------------------------------------------------------
(***************************************************************************)
(* The structure of a text.                                                *)
(***************************************************************************)
IsWritten(lines) ==
  /\ lines # <<>>
  /\ lines \in Seq({lines[n] : n \in DOMAIN lines})

IsSegment(segment) ==
  /\ segment = [id |-> segment.id, time |-> segment.time,
                speaker |-> segment.speaker, text |-> segment.text]
  /\ segment.id \in Int \cup {None}
  /\ segment.id \in DOMAIN Spelling => IsWritten(Spelling[segment.id])
  /\ segment.time \in [start : Int, end : Int]
  /\ segment.speaker # None => IsWritten(segment.speaker.lines)
  /\ segment.text.lines \in Seq(Nat)

\* What the request of a client is decoded to, before anything is checked.
IsSegmentList(text) ==
  /\ text \in Seq({text[n] : n \in DOMAIN text})
  /\ \A n \in DOMAIN text : IsSegment(text[n])

StartsInOrder(text, n) == text[n - 1].time.start <= text[n].time.start

EndsInOrder(text, n) == text[n - 1].time.end <= text[n].time.end

ValidateSegments(text, duration) ==
  /\ text # <<>>
  /\ \A n \in DOMAIN text :
       /\ text[n].id # None
       /\ \A m \in DOMAIN text : text[m].id = text[n].id => m = n
       /\ 0 <= text[n].time.start
       /\ text[n].time.start < text[n].time.end
       /\ text[n].time.end <= duration
  /\ \A n \in 2..Len(text) : StartsInOrder(text, n)
----------------------------------------------------------------------------
(***************************************************************************)
(* The rules.  A finding is [rule, ids], the segments it names in order.   *)
(***************************************************************************)
BlockingRules == {"EMPTY_TEXT", "READING_SPEED", "OVERLAP"}

Severity(finding) == IF finding.rule \in BlockingRules THEN "blocking" ELSE "warning"

Finding(rule, ids) == [rule |-> rule, ids |-> ids]

\* strings.TrimSpace: empty lines at both ends go, empty lines within stay.
Trimmed(lines) ==
  LET said == {n \in DOMAIN lines : lines[n] > 0} IN
  IF said = {} THEN <<0>>
  ELSE SubSeq(lines, CHOOSE n \in said : \A m \in said : n <= m,
                     CHOOSE n \in said : \A m \in said : m <= n)

Runes(segment) == SumFunction(Trimmed(segment.text.lines))

DurationOf(segment) == segment.time.end - segment.time.start

TooFastByWholeSeconds(rules, segment) ==
  Runes(segment) > rules.maxCharsPerSecond * (1 + (DurationOf(segment) \div 1000))

\* Characters a second, as a fraction, above the limit.
TooFast(rules, segment) ==
  Runes(segment) * 1000 > rules.maxCharsPerSecond * DurationOf(segment)

SegmentFindings(rules, segment) ==
  LET broken ==
        [EMPTY_TEXT     |-> Trimmed(segment.text.lines) = <<0>>,
         DURATION_SHORT |-> DurationOf(segment) < rules.minDuration,
         DURATION_LONG  |-> DurationOf(segment) > rules.maxDuration,
         LINE_LENGTH    |-> \E n \in DOMAIN segment.text.lines :
                              segment.text.lines[n] > rules.maxLineRunes,
         READING_SPEED  |-> DurationOf(segment) > 0 /\ TooFast(rules, segment)]
  IN {Finding(rule, <<segment.id>>) : rule \in {r \in DOMAIN broken : broken[r]}}

OverlapFromSameStart(previous, segment) ==
  segment.time.start = previous.time.start

Overlaps(previous, segment) == segment.time.start < previous.time.end

GapFromStart(previous, segment) == segment.time.start - previous.time.start

Gap(previous, segment) == segment.time.start - previous.time.end

\* A segment is compared with the one before it only.
PairFindings(rules, previous, segment) ==
  LET ids == <<previous.id, segment.id>> IN
  IF Overlaps(previous, segment) THEN {Finding("OVERLAP", ids)}
  ELSE IF Gap(previous, segment) > rules.maxGap THEN {Finding("EXCESSIVE_GAP", ids)}
  ELSE {}

HasSoundCue(text) ==
  \E n \in DOMAIN text :
    \/ {"[", "]"} \subseteq text[n].text.marks
    \/ {"wide [", "wide ]"} \subseteq text[n].text.marks

SoundFindings(text) ==
  IF HasSoundCue(text) THEN {}
  ELSE {Finding("SOUND_CUE", IF text = <<>> THEN <<>> ELSE <<text[1].id>>)}

EvaluateRules(rules, text) ==
  (UNION {SegmentFindings(rules, text[n]) : n \in DOMAIN text})
  \cup (UNION {PairFindings(rules, text[n - 1], text[n]) : n \in 2..Len(text)})
  \cup SoundFindings(text)
----------------------------------------------------------------------------
(***************************************************************************)
(* The track: a file of lines, in blocks that empty lines part.  Names and  *)
(* words are written to it as they are.  A reader tells apart an empty     *)
(* line, one with "-->" in it, which may hold the times of a cue, and any  *)
(* other; in the last it looks for markup, "<" and "&".                    *)
(***************************************************************************)
Header == [is |-> "header"]

Blank == [is |-> "blank"]

Arrow(times) == [is |-> "arrow", times |-> times]

\* A line of a name: an identifier that is spelled out, or a speaker.
Words(marked) == [is |-> "words", marked |-> marked]

HoldsTimes(line) == line.is = "arrow" /\ line.times # None

ByStart(a, b) == a.time.start < b.time.start

\* By start, and by identifier where two start together.
TrackOrder(a, b) ==
  \/ a.time.start < b.time.start
  \/ a.time.start = b.time.start /\ a.id < b.id

\* What a stable sort puts before the n-th segment: those less than it, and of
\* those alike the ones before it.
SortedBefore(text, n) ==
  {m \in DOMAIN text :
     \/ TrackOrder(text[m], text[n])
     \/ ~TrackOrder(text[n], text[m]) /\ m < n}

Sorted(text) ==
  [k \in DOMAIN text |->
     text[CHOOSE n \in DOMAIN text : Cardinality(SortedBefore(text, n)) = k - 1]]

vttTimeInCentiseconds(ms) ==
  <<ms \div 3600000, (ms % 3600000) \div 60000, (ms % 60000) \div 1000,
    (ms % 1000) - (ms % 10)>>

vttTime(ms) ==
  <<ms \div 3600000, (ms % 3600000) \div 60000, (ms % 60000) \div 1000,
    ms % 1000>>

TimeLine(time) ==
  Arrow([start |-> vttTime(time.start), end |-> vttTime(time.end)])

IdLine(id) == [is |-> "words", id |-> id]

IdLines(id) == IF id \in DOMAIN Spelling THEN Spelling[id] ELSE <<IdLine(id)>>

\* "<v " stands before the speaker's name, which may break the line.  The text
\* follows the last line of the name and ">".
VoiceLines(speaker) ==
  IF speaker = None THEN <<>>
  ELSE [n \in 1..(Len(speaker.lines) - 1) |->
          IF n > 1 THEN speaker.lines[n]
          ELSE IF speaker.lines[1].is = "arrow" THEN Arrow(None) ELSE Words(TRUE)]

\* The times in the line of a name that the text follows: what begins with a tag
\* is not read as times, and what comes after times is no more of them.
TimesInName(voice) ==
  IF Len(voice.lines) > 1 /\ Last(voice.lines).is = "arrow"
  THEN Last(voice.lines).times ELSE None

TextLine(segment, n) ==
  LET voice  == IF n = 1 THEN segment.speaker ELSE None
      arrows == segment.text.arrows
      runes  == segment.text.lines[n]
  IN CASE voice = None /\ n \in DOMAIN arrows -> Arrow(arrows[n])
       [] voice = None /\ n \notin DOMAIN arrows /\ runes = 0 -> Blank
       [] voice # None /\ (n \in DOMAIN arrows \/ Last(voice.lines).is = "arrow") ->
            Arrow(TimesInName(voice))
       [] OTHER ->
            [is |-> "words", voice |-> voice, runes |-> runes,
             marked |-> \/ {"<", "&"} \cap segment.text.marks # {}
                        \/ voice # None /\ voice.lines # <<Words(FALSE)>>]

\* Identifier, times, the speaker and the text as they were sent, an empty line.
Block(segment) ==
  IdLines(segment.id)
    \o << TimeLine(segment.time) >>
    \o VoiceLines(segment.speaker)
    \o [n \in DOMAIN segment.text.lines |-> TextLine(segment, n)]
    \o << Blank >>

BuildWebVTT(text) ==
  LET sorted == Sorted(text) IN
  <<Header, Blank>> \o FlattenSeq([n \in DOMAIN sorted |-> Block(sorted[n])])

\* Of the size of a track, its heading and its lines of times: "WEBVTT" and two
\* line breaks, and twice 12 characters, " --> " and a line break.
BytesAtLeast(file) ==
  8 + 30 * Cardinality({n \in DOMAIN file : HoldsTimes(file[n])})
=============================================================================
