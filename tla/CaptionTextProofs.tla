------------------------- MODULE CaptionTextProofs --------------------------
(***************************************************************************)
(* What the rules report is right for texts of any length, any times and   *)
(* any rule set of a profile.                                              *)
(*                                                                         *)
(* Each rule looks at two neighbours, the properties at all pairs of a     *)
(* text.  What leads from one to the other is that a sequence without a    *)
(* step down never goes down (NoStepDown of OrderLemmas), an induction     *)
(* along the text made with the least element of a set of positions, and   *)
(* that sums over disjoint stretches add up (PaceAddsUp there).            *)
(*                                                                         *)
(* The track is read back by rank: the k-th of a finite strict order is    *)
(* the one with k - 1 before it (EveryRank, RanksAlong), whether those are *)
(* segments to be sorted or lines with times to be found.                  *)
(***************************************************************************)
EXTENDS CaptionText, OrderLemmas

(***************************************************************************)
(* Texts.                                                                  *)
(***************************************************************************)
Texts == Seq(Segments)

IsText == text \in Texts

LEMMA TextType == Spec => []IsText
<1>1. Init => IsText
  BY DEF Init, Texts, IsText
<1>2. IsText /\ [Next]_text => IsText'
  BY DEF Texts, Next, Add, IsText
<1>. QED
  BY <1>1, <1>2, PTL DEF Spec

LEMMA TimesAreNumbers ==
  ASSUME text \in Texts, NEW n \in DOMAIN text
  PROVE  /\ text[n].time.start \in Int
         /\ text[n].time.end \in Int
         /\ n \in 1..Len(text)
  BY TextAssumption DEF Texts, IsSegment

LEMMA RulesAreNumbers ==
  ASSUME NEW rules \in RuleSets
  PROVE  rules.maxGap \in Int
  BY DEF RuleSets, RuleSetForProfile, DefaultRuleSet

\* The segments of an accepted text start in order, all of them.
LEMMA StartsRise ==
  ASSUME text \in Texts, Accepted,
         NEW m \in DOMAIN text, NEW n \in DOMAIN text, m <= n
  PROVE  text[m].time.start <= text[n].time.start
<1>1. PICK f : f = [k \in 1..Len(text) |-> text[k].time.start]
  OBVIOUS
<1>2. Len(text) \in Nat /\ DOMAIN text = 1..Len(text)
  BY DEF Texts
<1>3. f \in [1..Len(text) -> Int]
  BY <1>1, <1>2, TimesAreNumbers
<1>4. \A k \in 2..Len(text) : f[k - 1] <= f[k]
  BY <1>1, <1>2 DEF Accepted, ValidateSegments, StartsInOrder
<1>5. f[m] <= f[n]
  BY <1>2, <1>3, <1>4, NoStepDown
<1>. QED
  BY <1>1, <1>2, <1>5

\* If no neighbours up to the n-th overlap, their ends are in order too.
LEMMA EndsRise ==
  ASSUME text \in Texts, Accepted, NEW n \in DOMAIN text,
         \A k \in 2..n : ~Overlaps(text[k - 1], text[k]),
         NEW m \in 1..n
  PROVE  text[m].time.end <= text[n].time.end
<1>1. PICK f : f = [k \in 1..n |-> text[k].time.end]
  OBVIOUS
<1>2. Len(text) \in Nat /\ DOMAIN text = 1..Len(text) /\ n \in Nat /\ n <= Len(text)
  BY DEF Texts
<1>3. f \in [1..n -> Int]
  BY <1>1, <1>2, TimesAreNumbers
<1>4. ASSUME NEW k \in 2..n  PROVE f[k - 1] <= f[k]
  <2>1. k \in DOMAIN text /\ k - 1 \in DOMAIN text /\ k - 1 \in 1..n /\ k \in 1..n
    BY <1>2
  <2>2. text[k - 1].time.end <= text[k].time.start
    <3>1. ~(text[k].time.start < text[k - 1].time.end)
      BY DEF Overlaps
    <3>. QED
      BY <2>1, <3>1, TimesAreNumbers
  <2>3. text[k].time.start < text[k].time.end
    BY <2>1 DEF Accepted, ValidateSegments
  <2>. QED
    BY <1>1, <2>1, <2>2, <2>3, TimesAreNumbers
<1>5. n \in 1..n /\ m <= n
  BY <1>2
<1>6. f[m] <= f[n]
  BY <1>2, <1>3, <1>4, <1>5, NoStepDown
<1>. QED
  BY <1>1, <1>2, <1>6
----------------------------------------------------------------------------
(***************************************************************************)
(* Findings.                                                               *)
(***************************************************************************)
LEMMA PairRule ==
  ASSUME NEW rules, NEW finding,
         finding.rule \in {"OVERLAP", "EXCESSIVE_GAP"}
  PROVE  finding \in EvaluateRules(rules, text)
           <=> \E n \in 2..Len(text) :
                 finding \in PairFindings(rules, text[n - 1], text[n])
<1>1. ASSUME NEW n \in DOMAIN text, finding \in SegmentFindings(rules, text[n])
      PROVE  FALSE
  <2>1. PICK rule \in {"EMPTY_TEXT", "DURATION_SHORT", "DURATION_LONG",
                       "LINE_LENGTH", "READING_SPEED"} :
               finding = Finding(rule, <<text[n].id>>)
    BY <1>1 DEF SegmentFindings
  <2>2. finding.rule = rule
    BY <2>1 DEF Finding
  <2>. QED
    BY <2>1, <2>2
<1>2. finding \notin SoundFindings(text)
  BY DEF SoundFindings, Finding
<1>. DEFINE A == UNION {SegmentFindings(rules, text[n]) : n \in DOMAIN text}
            B == UNION {PairFindings(rules, text[n - 1], text[n]) : n \in 2..Len(text)}
<1>3. EvaluateRules(rules, text) = A \cup B \cup SoundFindings(text)
  BY Zenon DEF EvaluateRules
<1>4. finding \notin A
  BY <1>1
<1>5. finding \in B <=> \E n \in 2..Len(text) :
                          finding \in PairFindings(rules, text[n - 1], text[n])
  OBVIOUS
<1>. HIDE DEF A, B
<1>. QED
  BY <1>2, <1>3, <1>4, <1>5

LEMMA OverlapRule ==
  ASSUME NEW rules
  PROVE  (\E finding \in EvaluateRules(rules, text) : finding.rule = "OVERLAP")
           <=> \E n \in 2..Len(text) : Overlaps(text[n - 1], text[n])
<1>1. ASSUME NEW finding \in EvaluateRules(rules, text), finding.rule = "OVERLAP"
      PROVE  \E n \in 2..Len(text) : Overlaps(text[n - 1], text[n])
  <2>1. PICK n \in 2..Len(text) :
               finding \in PairFindings(rules, text[n - 1], text[n])
    BY <1>1, PairRule
  <2>. QED
    BY <1>1, <2>1 DEF PairFindings, Finding
<1>2. ASSUME NEW n \in 2..Len(text), Overlaps(text[n - 1], text[n])
      PROVE  \E finding \in EvaluateRules(rules, text) : finding.rule = "OVERLAP"
  <2>1. PICK finding : finding = Finding("OVERLAP", <<text[n - 1].id, text[n].id>>)
    OBVIOUS
  <2>2. finding.rule = "OVERLAP"
    BY <2>1 DEF Finding
  <2>3. finding \in PairFindings(rules, text[n - 1], text[n])
    BY <1>2, <2>1 DEF PairFindings
  <2>. QED
    BY <2>2, <2>3, PairRule
<1>. QED
  BY <1>1, <1>2

\* A finding on two neighbours tells which they are: identifiers are unique.
LEMMA ReportedRule ==
  ASSUME text \in Texts, Accepted, NEW rules, NEW n \in 2..Len(text),
         NEW rule \in {"OVERLAP", "EXCESSIVE_GAP"}
  PROVE  Reported(rules, rule, n)
           <=> Finding(rule, <<text[n - 1].id, text[n].id>>)
                 \in PairFindings(rules, text[n - 1], text[n])
<1>1. PICK finding : finding = Finding(rule, <<text[n - 1].id, text[n].id>>)
  OBVIOUS
<1>2. finding.rule = rule /\ finding.ids = <<text[n - 1].id, text[n].id>>
  BY <1>1 DEF Finding
<1>3. ASSUME NEW k \in 2..Len(text),
             finding \in PairFindings(rules, text[k - 1], text[k])
      PROVE  k = n
  <2>1. finding.ids = <<text[k - 1].id, text[k].id>>
    BY <1>3 DEF PairFindings, Finding
  <2>2. text[k].id = text[n].id
    BY <1>2, <2>1
  <2>3. k \in DOMAIN text /\ n \in DOMAIN text
    BY DEF Texts
  <2>. QED
    BY <2>2, <2>3 DEF Accepted, ValidateSegments
<1>. QED
  BY <1>1, <1>2, <1>3, PairRule DEF Reported
----------------------------------------------------------------------------
(***************************************************************************)
(* The theorems.                                                           *)
(***************************************************************************)
LEMMA OverlapStep == IsText => OverlapNoticed
<1>. SUFFICES ASSUME text \in Texts, Accepted, NEW rules \in RuleSets
              PROVE  (\E m, n \in DOMAIN text :
                        m # n /\ ShownTogether(text[m], text[n]))
                       <=> \E n \in 2..Len(text) : Overlaps(text[n - 1], text[n])
  BY OverlapRule DEF OverlapNoticed, IsText
<1>0. DOMAIN text = 1..Len(text) /\ Len(text) \in Nat
  BY DEF Texts
<1>1. PICK start, end : /\ start = [n \in 1..Len(text) |-> text[n].time.start]
                        /\ end = [n \in 1..Len(text) |-> text[n].time.end]
  OBVIOUS
<1>2. start \in [1..Len(text) -> Int] /\ end \in [1..Len(text) -> Int]
  BY <1>0, <1>1, TimesAreNumbers
<1>3. \A n \in 2..Len(text) : start[n - 1] <= start[n]
  BY <1>0, <1>1 DEF Accepted, ValidateSegments, StartsInOrder
<1>4. \A n \in 1..Len(text) : start[n] < end[n]
  BY <1>0, <1>1 DEF Accepted, ValidateSegments
<1>5. (\E m, k \in 1..Len(text) : m # k /\ start[m] < end[k] /\ start[k] < end[m])
      <=> \E n \in 2..Len(text) : start[n] < end[n - 1]
  BY <1>0, <1>2, <1>3, <1>4, NeighboursMeet
<1>6. \A m, k \in 1..Len(text) :
        ShownTogether(text[m], text[k]) <=> start[m] < end[k] /\ start[k] < end[m]
  BY <1>1 DEF ShownTogether
<1>7. \A n \in 2..Len(text) : Overlaps(text[n - 1], text[n]) <=> start[n] < end[n - 1]
  <2>1. \A n \in 2..Len(text) : n \in 1..Len(text) /\ n - 1 \in 1..Len(text)
    BY <1>0
  <2>. QED
    BY <1>1, <2>1 DEF Overlaps
<1>. QED
  BY <1>0, <1>5, <1>6, <1>7

LEMMA SilenceStep == IsText => SilenceNoticed
<1>. SUFFICES ASSUME text \in Texts, Accepted,
                     NEW rules \in RuleSets, NEW n \in 2..Len(text)
              PROVE  /\ SilenceBefore(rules, n) => Reported(rules, "EXCESSIVE_GAP", n)
                     /\ /\ Reported(rules, "EXCESSIVE_GAP", n)
                        /\ \A k \in 2..n : ~Reported(rules, "OVERLAP", k)
                        => SilenceBefore(rules, n)
  BY DEF SilenceNoticed, IsText
<1>0. /\ DOMAIN text = 1..Len(text) /\ Len(text) \in Nat /\ rules.maxGap \in Int
      /\ n \in DOMAIN text /\ n - 1 \in DOMAIN text /\ n \in Nat
  BY RulesAreNumbers DEF Texts
<1>1. Reported(rules, "EXCESSIVE_GAP", n)
        <=> /\ ~Overlaps(text[n - 1], text[n])
            /\ text[n].time.start - text[n - 1].time.end > rules.maxGap
  BY ReportedRule DEF PairFindings, Finding, Gap
<1>2. ASSUME NEW k \in 2..n, ~Reported(rules, "OVERLAP", k)
      PROVE  ~Overlaps(text[k - 1], text[k])
  <2>1. k \in 2..Len(text)
    BY <1>0
  <2>. QED
    BY <1>2, <2>1, ReportedRule DEF PairFindings
<1>3. rules.maxGap >= 0
  BY DEF RuleSets, RuleSetForProfile, DefaultRuleSet
<1>4. ASSUME SilenceBefore(rules, n)  PROVE Reported(rules, "EXCESSIVE_GAP", n)
  <2>1. text[n].time.start - text[n - 1].time.end > rules.maxGap
    BY <1>0, <1>4 DEF SilenceBefore
  <2>2. ~Overlaps(text[n - 1], text[n])
    BY <1>0, <1>3, <2>1, TimesAreNumbers DEF Overlaps
  <2>. QED
    BY <1>1, <2>1, <2>2
<1>5. ASSUME Reported(rules, "EXCESSIVE_GAP", n),
             \A k \in 2..n : ~Reported(rules, "OVERLAP", k),
             NEW m \in 1..(n - 1)
      PROVE  text[n].time.start - text[m].time.end > rules.maxGap
  <2>1. \A k \in 2..(n - 1) : ~Overlaps(text[k - 1], text[k])
    BY <1>0, <1>2, <1>5
  <2>2. text[m].time.end <= text[n - 1].time.end
    BY <1>0, <2>1, EndsRise
  <2>3. m \in DOMAIN text
    BY <1>0
  <2>. QED
    BY <1>0, <1>1, <1>5, <2>2, <2>3, TimesAreNumbers
<1>. QED
  BY <1>4, <1>5 DEF SilenceBefore

\* No two captions are ever on the screen together without an OVERLAP finding,
\* and there is none without two such captions, however long the text.
THEOREM OverlapsAreNoticed == Spec => []OverlapNoticed
  BY TextType, OverlapStep, PTL

\* Every overlong stretch without captions is reported, and only such stretches
\* are where captions do not overlap.
THEOREM SilencesAreNoticed == Spec => []SilenceNoticed
  BY TextType, SilenceStep, PTL

\* The time a player reads in a track is the time of the segment.
THEOREM TimesSurvive ==
  ASSUME NEW ms \in Nat
  PROVE  Millis(vttTime(ms)) = ms
<1>1. PICK h : h = ms \div 3600000
  OBVIOUS
<1>2. PICK r : r = ms % 3600000
  OBVIOUS
<1>3. h \in Nat /\ r \in Nat /\ ms = 3600000 * h + r
  BY <1>1, <1>2
<1>4. ms % 60000 = r % 60000 /\ ms % 1000 = (r % 60000) % 1000
  BY <1>3
<1>. QED
  BY <1>1, <1>2, <1>3, <1>4 DEF Millis, vttTime

----------------------------------------------------------------------------
(***************************************************************************)
(* Pace.                                                                   *)
(***************************************************************************)
LEMMA SumOfLines ==
  ASSUME NEW lines \in Seq(Nat)
  PROVE  SumFunction(lines) \in Int
<1>1. PICK n \in Nat : n = Len(lines)
  OBVIOUS
<1>2. lines \in [1..n -> Int]
  BY <1>1
<1>3. IsFiniteSet(1..n)
  BY FS_Interval
<1>. QED
  BY <1>2, <1>3, SumIsNumber

\* What is left of the lines of a text are lines, and their characters a number.
LEMMA RunesAreNumber ==
  ASSUME NEW segment, IsSegment(segment)
  PROVE  Runes(segment) \in Int
<1>1. PICK lines \in Seq(Nat) : lines = segment.text.lines
  BY DEF IsSegment
<1>2. PICK said : said = {n \in DOMAIN lines : lines[n] > 0}
  OBVIOUS
<1>3. CASE said = {}
  <2>1. Trimmed(lines) = <<0>>
    BY <1>2, <1>3 DEF Trimmed
  <2>2. <<0>> \in Seq(Nat)
    OBVIOUS
  <2>. QED
    BY <1>1, <2>1, <2>2, SumOfLines DEF Runes
<1>4. CASE said # {}
  <2>1. DOMAIN lines = 1..Len(lines) /\ Len(lines) \in Nat
    BY <1>1
  <2>2. said \in SUBSET Nat /\ said \in SUBSET 0..Len(lines)
    BY <1>2, <2>1
  <2>3. PICK first, last : /\ first = CHOOSE n \in said : \A m \in said : n <= m
                           /\ last = CHOOSE n \in said : \A m \in said : m <= n
    OBVIOUS
  <2>4. first \in said
    BY <1>4, <2>2, <2>3, LeastNatural
  <2>5. last \in said
    BY <1>4, <2>1, <2>2, <2>3, GreatestNatural
  <2>6. Trimmed(lines) = SubSeq(lines, first, last)
    BY <1>2, <1>4, <2>3 DEF Trimmed
  <2>7. first \in 1..Len(lines) /\ last \in 1..Len(lines)
    BY <1>2, <2>1, <2>4, <2>5
  <2>8. SubSeq(lines, first, last) \in Seq(Nat)
    BY <2>1, <2>7
  <2>. QED
    BY <1>1, <2>6, <2>8, SumOfLines DEF Runes
<1>. QED
  BY <1>3, <1>4

LEMMA SlowEnough ==
  ASSUME text \in Texts, Accepted, NEW rules, NEW n \in DOMAIN text,
         \A finding \in EvaluateRules(rules, text) : Severity(finding) # "blocking"
  PROVE  ~TooFast(rules, text[n])
<1>1. SUFFICES ASSUME TooFast(rules, text[n])  PROVE FALSE
  OBVIOUS
<1>2. DurationOf(text[n]) > 0
  BY TimesAreNumbers DEF Accepted, ValidateSegments, DurationOf
<1>3. PICK finding : finding = Finding("READING_SPEED", <<text[n].id>>)
  OBVIOUS
<1>4. finding \in SegmentFindings(rules, text[n])
  BY <1>1, <1>2, <1>3 DEF SegmentFindings
<1>5. finding \in EvaluateRules(rules, text)
  BY <1>4 DEF EvaluateRules
<1>6. Severity(finding) = "blocking"
  BY <1>3 DEF Severity, BlockingRules, Finding
<1>. QED
  BY <1>5, <1>6

\* The milliseconds at which a segment is on the screen.
ShownAt(n) == text[n].time.start..(text[n].time.end - 1)

LEMMA ShownFor ==
  ASSUME text \in Texts, Accepted, NEW n \in DOMAIN text
  PROVE  IsFiniteSet(ShownAt(n)) /\ Cardinality(ShownAt(n)) = DurationOf(text[n])
<1>1. PICK start \in Int, end \in Int : start = text[n].time.start /\ end = text[n].time.end
  BY TimesAreNumbers
<1>2. start < end
  BY <1>1 DEF Accepted, ValidateSegments
<1>3. IsFiniteSet(start..(end - 1)) /\ Cardinality(start..(end - 1)) = end - start
  BY <1>2, FS_Interval
<1>. QED
  BY <1>1, <1>3 DEF ShownAt, DurationOf

LEMMA PaceStep == IsText => ReadablePace
<1>. SUFFICES ASSUME text \in Texts, Accepted, NEW rules \in RuleSets,
                     \A finding \in EvaluateRules(rules, text) :
                       Severity(finding) # "blocking",
                     NEW n \in DOMAIN text, NEW m \in 1..n
              PROVE  1000 * RunesBetween(m, n)
                       <= rules.maxCharsPerSecond * (text[n].time.end - text[m].time.start)
  BY DEF ReadablePace, IsText
<1>0. /\ Len(text) \in Nat /\ DOMAIN text = 1..Len(text) /\ n \in Nat
      /\ m..n \subseteq DOMAIN text /\ m \in m..n /\ n \in m..n
  BY DEF Texts
<1>1. PICK rate \in Nat : rate = rules.maxCharsPerSecond
  BY DEF RuleSets, RuleSetForProfile, DefaultRuleSet
<1>2. \A k \in 2..Len(text) : ~Overlaps(text[k - 1], text[k])
  <2>1. \A finding \in EvaluateRules(rules, text) : finding.rule # "OVERLAP"
    BY DEF Severity, BlockingRules
  <2>. QED
    BY <2>1, OverlapRule
<1>3. PICK f : f = [k \in m..n |-> Runes(text[k])]
  OBVIOUS
<1>4. f \in [m..n -> Int]
  <2>1. \A k \in m..n : Runes(text[k]) \in Int
    <3>. SUFFICES ASSUME NEW k \in m..n  PROVE Runes(text[k]) \in Int
      OBVIOUS
    <3>1. text[k] \in Segments
      BY <1>0 DEF Texts
    <3>. QED
      BY <3>1, RunesAreNumber, TextAssumption
  <2>. QED
    BY <1>3, <2>1
<1>5. PICK time : time = [k \in m..n |-> ShownAt(k)]
  OBVIOUS
<1>6. ASSUME NEW k \in m..n
      PROVE  IsFiniteSet(time[k]) /\ 1000 * f[k] <= rate * Cardinality(time[k])
  <2>1. IsFiniteSet(time[k]) /\ Cardinality(time[k]) = DurationOf(text[k])
    BY <1>0, <1>5, ShownFor
  <2>2. ~(f[k] * 1000 > rate * DurationOf(text[k]))
    BY <1>0, <1>1, <1>3, SlowEnough DEF TooFast
  <2>3. DurationOf(text[k]) \in Int
    BY <1>0, TimesAreNumbers DEF DurationOf
  <2>4. PICK d \in Int, runes \in Int : d = DurationOf(text[k]) /\ runes = f[k]
    BY <1>4, <2>3
  <2>5. ~(runes * 1000 > rate * d)
    BY <2>2, <2>4
  <2>6. rate * d \in Int
    OBVIOUS
  <2>7. 1000 * runes <= rate * d
    BY <2>5, <2>6
  <2>. QED
    BY <2>1, <2>4, <2>7
<1>7. ASSUME NEW j \in m..n, NEW k \in m..n, j < k
      PROVE  text[j].time.end <= text[k].time.start
  <2>1. k - 1 \in DOMAIN text /\ j \in 1..(k - 1) /\ k \in 2..Len(text)
        /\ j \in DOMAIN text /\ k \in DOMAIN text
    BY <1>0, <1>7
  <2>2. \A i \in 2..(k - 1) : ~Overlaps(text[i - 1], text[i])
    BY <1>0, <1>2, <2>1
  <2>3. text[j].time.end <= text[k - 1].time.end
    BY <2>1, <2>2, EndsRise
  <2>4. ~(text[k].time.start < text[k - 1].time.end)
    BY <1>2, <2>1 DEF Overlaps
  <2>. QED
    BY <2>1, <2>3, <2>4, TimesAreNumbers
<1>8. ASSUME NEW j \in m..n, NEW k \in m..n, j # k
      PROVE  time[j] \cap time[k] = {}
  <2>1. ASSUME NEW x \in m..n, NEW y \in m..n, x < y, NEW t, t \in time[x], t \in time[y]
        PROVE  FALSE
    <3>1. t \in text[x].time.start..(text[x].time.end - 1)
          /\ t \in text[y].time.start..(text[y].time.end - 1)
      BY <1>5, <2>1 DEF ShownAt
    <3>2. text[x].time.end <= text[y].time.start
      BY <1>7, <2>1
    <3>3. x \in DOMAIN text /\ y \in DOMAIN text
      BY <1>0
    <3>. QED
      BY <3>1, <3>2, <3>3, TimesAreNumbers
  <2>2. j \in Int /\ k \in Int /\ (j < k \/ k < j)
    BY <1>8
  <2>. QED
    BY <2>1, <2>2
<1>9. PICK All : All = UNION {time[k] : k \in m..n}
  OBVIOUS
<1>10. IsFiniteSet(All) /\ 1000 * SumFunction(f) <= rate * Cardinality(All)
  <2>1. PICK D : D = m..n
    OBVIOUS
  <2>2. IsFiniteSet(D) /\ f \in [D -> Int]
    BY <1>0, <1>4, <2>1, FS_Interval
  <2>3. \A k \in D : IsFiniteSet(time[k]) /\ 1000 * f[k] <= rate * Cardinality(time[k])
    BY <1>6, <2>1
  <2>4. \A j, k \in D : j # k => time[j] \cap time[k] = {}
    BY <1>8, <2>1
  <2>5. KeepsPace(D, f, rate, time)
    BY <2>3, <2>4 DEF KeepsPace
  <2>6. /\ IsFiniteSet(AllOf(D, time))
        /\ 1000 * SumFunction(f) <= rate * Cardinality(AllOf(D, time))
    BY <2>2, <2>5, PaceAddsUp
  <2>. QED
    BY <1>9, <2>1, <2>6 DEF AllOf
<1>11. PICK start \in Int, end \in Int : start = text[m].time.start /\ end = text[n].time.end
  BY <1>0, TimesAreNumbers
<1>12. All \subseteq start..(end - 1)
  <2>1. SUFFICES ASSUME NEW k \in m..n, NEW t \in time[k]  PROVE t \in start..(end - 1)
    BY <1>9
  <2>2. t \in text[k].time.start..(text[k].time.end - 1)
    BY <1>5 DEF ShownAt
  <2>3. k \in DOMAIN text /\ m \in DOMAIN text /\ m <= k /\ k <= n
    BY <1>0
  <2>4. text[m].time.start <= text[k].time.start
    BY <2>3, StartsRise
  <2>5. text[k].time.end <= text[n].time.end
    <3>1. \A i \in 2..n : ~Overlaps(text[i - 1], text[i])
      BY <1>0, <1>2
    <3>2. k \in 1..n
      BY <1>0
    <3>. QED
      BY <3>1, <3>2, EndsRise
  <2>. QED
    BY <1>11, <2>2, <2>3, <2>4, <2>5, TimesAreNumbers
<1>13. start < end
  <2>1. text[m].time.start <= text[n].time.start /\ text[n].time.start < text[n].time.end
    BY <1>0, StartsRise DEF Accepted, ValidateSegments
  <2>. QED
    BY <1>0, <1>11, <2>1, TimesAreNumbers
<1>14. PICK shown \in Nat : shown = Cardinality(All) /\ shown <= end - start
  <2>1. PICK span : span = start..(end - 1)
    OBVIOUS
  <2>2. IsFiniteSet(span) /\ Cardinality(span) = end - start
    BY <1>13, <2>1, FS_Interval
  <2>3. All \in SUBSET span
    BY <1>12, <2>1
  <2>4. Cardinality(All) <= Cardinality(span) /\ Cardinality(All) \in Nat
    BY <1>10, <2>2, <2>3, FS_Subset, FS_CardinalityType
  <2>. QED
    BY <2>2, <2>4
<1>15. PICK sum \in Int : sum = SumFunction(f)
  <2>1. IsFiniteSet(m..n)
    BY <1>0, FS_Interval
  <2>. QED
    BY <1>4, <2>1, SumIsNumber
<1>16. 1000 * sum <= rate * shown
  BY <1>10, <1>14, <1>15
<1>17. rate * shown <= rate * (end - start)
  <2>1. rate = 15 \/ rate = 17
    BY <1>1 DEF RuleSets, RuleSetForProfile, DefaultRuleSet
  <2>. QED
    BY <1>14, <2>1
<1>18. 1000 * sum <= rate * (end - start)
  <2>1. rate * shown \in Int /\ rate * (end - start) \in Int
    OBVIOUS
  <2>. QED
    BY <1>16, <1>17, <2>1
<1>. QED
  BY <1>1, <1>3, <1>11, <1>15, <1>18 DEF RunesBetween

\* Where no finding blocks, no stretch of captions asks for more characters a
\* second than the profile allows, however long, although each rule looks at one.
THEOREM PaceIsReadable == Spec => []ReadablePace
  BY TextType, PaceStep, PTL

----------------------------------------------------------------------------
(***************************************************************************)
(* Each finding has a place of its own: the segment it names last, and one *)
(* of four slots there, for the rules of a slot exclude each other.        *)
(***************************************************************************)
\* What is reported while the n-th segment is looked at.
AddedAt(rules, n) ==
  SegmentFindings(rules, text[n])
    \cup (IF n > 1 THEN PairFindings(rules, text[n - 1], text[n]) ELSE {})

\* Rule and segments tell each finding that Evaluate adds from every other, so
\* that the findings of a run are a set, which the diff, keyed by them, goes by;
\* and there are no more than four for each segment, although there are eight rules.
ReportedOnce ==
  Accepted => \A rules \in RuleSets :
    /\ \A n \in DOMAIN text :
         /\ AddedAt(rules, n) \cap SoundFindings(text) = {}
         /\ \A m \in 1..(n - 1) : AddedAt(rules, m) \cap AddedAt(rules, n) = {}
    /\ Cardinality(EvaluateRules(rules, text)) <= 4 * Len(text)

OwnRules == {"EMPTY_TEXT", "DURATION_SHORT", "DURATION_LONG", "LINE_LENGTH", "READING_SPEED"}

PairRules == {"OVERLAP", "EXCESSIVE_GAP"}

Slot(finding) ==
  CASE finding.rule \in {"EMPTY_TEXT", "LINE_LENGTH"}        -> 1
    [] finding.rule \in {"DURATION_SHORT", "DURATION_LONG"}  -> 2
    [] finding.rule = "READING_SPEED"                        -> 3
    [] OTHER                                                 -> 4

LastNamed(finding) == finding.ids[Len(finding.ids)]

Position(id) == CHOOSE n \in DOMAIN text : text[n].id = id

LEMMA OwnShape ==
  ASSUME NEW rules, NEW segment, NEW finding \in SegmentFindings(rules, segment)
  PROVE  /\ finding.rule \in OwnRules
         /\ finding = Finding(finding.rule, <<segment.id>>)
         /\ finding.rule = "EMPTY_TEXT" => Trimmed(segment.text.lines) = <<0>>
         /\ finding.rule = "DURATION_SHORT" => DurationOf(segment) < rules.minDuration
         /\ finding.rule = "DURATION_LONG" => DurationOf(segment) > rules.maxDuration
         /\ finding.rule = "LINE_LENGTH" =>
              \E n \in DOMAIN segment.text.lines :
                segment.text.lines[n] > rules.maxLineRunes
<1>. DEFINE empty == Trimmed(segment.text.lines) = <<0>>
            short == DurationOf(segment) < rules.minDuration
            long == DurationOf(segment) > rules.maxDuration
            wide == \E n \in DOMAIN segment.text.lines :
                      segment.text.lines[n] > rules.maxLineRunes
            fast == DurationOf(segment) > 0 /\ TooFast(rules, segment)
<1>1. finding \in LET broken == [EMPTY_TEXT     |-> empty, DURATION_SHORT |-> short,
                                 DURATION_LONG  |-> long,  LINE_LENGTH    |-> wide,
                                 READING_SPEED  |-> fast]
                  IN {Finding(rule, <<segment.id>>) :
                        rule \in {r \in DOMAIN broken : broken[r]}}
  BY DEF SegmentFindings
<1>. HIDE DEF empty, short, long, wide, fast
<1>2. PICK rule \in OwnRules :
        /\ finding = Finding(rule, <<segment.id>>)
        /\ rule = "EMPTY_TEXT" => empty
        /\ rule = "DURATION_SHORT" => short
        /\ rule = "DURATION_LONG" => long
        /\ rule = "LINE_LENGTH" => wide
  BY <1>1 DEF OwnRules
<1>3. finding.rule = rule
  BY <1>2 DEF Finding
<1>. USE DEF empty, short, long, wide
<1>. QED
  BY <1>2, <1>3

LEMMA PairShape ==
  ASSUME NEW rules, NEW previous, NEW segment,
         NEW finding \in PairFindings(rules, previous, segment)
  PROVE  /\ finding.rule \in PairRules
         /\ \/ /\ Overlaps(previous, segment)
               /\ finding = Finding("OVERLAP", <<previous.id, segment.id>>)
            \/ /\ ~Overlaps(previous, segment)
               /\ finding = Finding("EXCESSIVE_GAP", <<previous.id, segment.id>>)
<1>1. CASE Overlaps(previous, segment)
  <2>1. finding = Finding("OVERLAP", <<previous.id, segment.id>>)
    BY <1>1 DEF PairFindings
  <2>. QED
    BY <1>1, <2>1 DEF Finding, PairRules
<1>2. CASE ~Overlaps(previous, segment)
  <2>1. finding = Finding("EXCESSIVE_GAP", <<previous.id, segment.id>>)
    BY <1>2 DEF PairFindings
  <2>. QED
    BY <1>2, <2>1 DEF Finding, PairRules
<1>. QED
  BY <1>1, <1>2

\* A text is empty or has a line that is too long.
LEMMA EmptyHasNoLongLine ==
  ASSUME NEW segment, IsSegment(segment), NEW n \in DOMAIN segment.text.lines,
         segment.text.lines[n] > 0
  PROVE  Trimmed(segment.text.lines) # <<0>>
<1>1. PICK lines \in Seq(Nat) : lines = segment.text.lines
  BY DEF IsSegment
<1>2. PICK said : said = {m \in DOMAIN lines : lines[m] > 0}
  OBVIOUS
<1>3. n \in said
  BY <1>1, <1>2
<1>4. DOMAIN lines = 1..Len(lines) /\ Len(lines) \in Nat
  BY <1>1
<1>5. said \in SUBSET Nat /\ said \in SUBSET 0..Len(lines) /\ said # {}
  BY <1>2, <1>3, <1>4
<1>6. PICK first, last : /\ first = CHOOSE k \in said : \A m \in said : k <= m
                         /\ last = CHOOSE k \in said : \A m \in said : m <= k
  OBVIOUS
<1>7. first \in said /\ \A m \in said : first <= m
  BY <1>5, <1>6, LeastNatural
<1>8. last \in said
  BY <1>4, <1>5, <1>6, GreatestNatural
<1>9. Trimmed(lines) = SubSeq(lines, first, last)
  BY <1>2, <1>5, <1>6 DEF Trimmed
<1>10. /\ first \in 1..Len(lines) /\ last \in 1..Len(lines) /\ first <= last
       /\ lines[first] > 0 /\ lines[first] \in Nat
  BY <1>1, <1>2, <1>4, <1>7, <1>8
<1>11. PICK kept : kept = SubSeq(lines, first, last)
  OBVIOUS
<1>12. kept[1] = lines[first]
  BY <1>1, <1>4, <1>10, <1>11
<1>13. kept[1] # 0
  BY <1>10, <1>12
<1>14. kept # <<0>>
  BY <1>13
<1>. QED
  BY <1>1, <1>9, <1>11, <1>14

LEMMA LimitsOfRules ==
  ASSUME NEW rules \in RuleSets
  PROVE  /\ rules.minDuration \in Nat /\ rules.maxDuration \in Nat /\ rules.maxLineRunes \in Nat
         /\ rules.minDuration <= rules.maxDuration
  BY DEF RuleSets, RuleSetForProfile, DefaultRuleSet

\* Two findings of one slot that a segment was looked at for are the same.
LEMMA SlotIsOnes ==
  ASSUME text \in Texts, NEW rules \in RuleSets, NEW n \in DOMAIN text,
         NEW a \in AddedAt(rules, n), NEW b \in AddedAt(rules, n), Slot(a) = Slot(b)
  PROVE  a = b
<1>1. IsSegment(text[n])
  BY TextAssumption DEF Texts
<1>2. DurationOf(text[n]) \in Int
  BY TimesAreNumbers DEF DurationOf
<1>3. CASE a \in SegmentFindings(rules, text[n]) /\ b \in SegmentFindings(rules, text[n])
  <2>1. /\ a.rule \in OwnRules /\ a = Finding(a.rule, <<text[n].id>>)
        /\ b.rule \in OwnRules /\ b = Finding(b.rule, <<text[n].id>>)
    BY <1>3, OwnShape
  <2>2. ~(a.rule = "EMPTY_TEXT" /\ b.rule = "LINE_LENGTH")
        /\ ~(b.rule = "EMPTY_TEXT" /\ a.rule = "LINE_LENGTH")
    <3>1. ASSUME NEW m \in DOMAIN text[n].text.lines,
                 text[n].text.lines[m] > rules.maxLineRunes
          PROVE  Trimmed(text[n].text.lines) # <<0>>
      <4>1. text[n].text.lines \in Seq(Nat)
        BY <1>1 DEF IsSegment
      <4>2. text[n].text.lines[m] > 0
        BY <3>1, <4>1, LimitsOfRules
      <4>. QED
        BY <1>1, <4>2, EmptyHasNoLongLine
    <3>. QED
      BY <1>3, <3>1, OwnShape
  <2>3. ~(a.rule = "DURATION_SHORT" /\ b.rule = "DURATION_LONG")
        /\ ~(b.rule = "DURATION_SHORT" /\ a.rule = "DURATION_LONG")
    <3>1. PICK time \in Int, least \in Nat, most \in Nat :
            /\ time = DurationOf(text[n]) /\ least <= most
            /\ least = rules.minDuration /\ most = rules.maxDuration
      BY <1>2, LimitsOfRules
    <3>2. ~(time < least /\ time > most)
      BY <3>1
    <3>. QED
      BY <1>3, <3>1, <3>2, OwnShape
  <2>4. a.rule = b.rule
    BY <2>1, <2>2, <2>3 DEF Slot, OwnRules
  <2>. QED
    BY <2>1, <2>4
<1>4. CASE a \notin SegmentFindings(rules, text[n]) /\ b \notin SegmentFindings(rules, text[n])
  <2>1. a \in PairFindings(rules, text[n - 1], text[n])
        /\ b \in PairFindings(rules, text[n - 1], text[n])
    BY <1>4 DEF AddedAt
  <2>2. PICK overlap, gap :
          /\ overlap = Finding("OVERLAP", <<text[n - 1].id, text[n].id>>)
          /\ gap = Finding("EXCESSIVE_GAP", <<text[n - 1].id, text[n].id>>)
    OBVIOUS
  <2>3. a = IF Overlaps(text[n - 1], text[n]) THEN overlap ELSE gap
    BY <2>1, <2>2, PairShape, Zenon
  <2>4. b = IF Overlaps(text[n - 1], text[n]) THEN overlap ELSE gap
    BY <2>1, <2>2, PairShape, Zenon
  <2>. QED
    BY <2>3, <2>4, Zenon
<1>5. ASSUME NEW c \in SegmentFindings(rules, text[n]), NEW d \in AddedAt(rules, n),
             d \notin SegmentFindings(rules, text[n])
      PROVE  Slot(c) # Slot(d)
  <2>1. c.rule \in OwnRules
    BY OwnShape
  <2>2. d \in PairFindings(rules, text[n - 1], text[n])
    BY <1>5 DEF AddedAt
  <2>3. d.rule \in PairRules
    BY <2>2, PairShape, Zenon
  <2>. QED
    BY <2>1, <2>3 DEF Slot, OwnRules, PairRules
<1>. QED
  BY <1>3, <1>4, <1>5

\* What is reported of a segment names it last.
LEMMA AddedNames ==
  ASSUME NEW rules, NEW n, NEW finding \in AddedAt(rules, n)
  PROVE  LastNamed(finding) = text[n].id /\ finding.rule \in OwnRules \cup PairRules
<1>1. CASE finding \in SegmentFindings(rules, text[n])
  <2>1. finding.ids = <<text[n].id>> /\ finding.rule \in OwnRules
    <3>1. PICK rule \in OwnRules : rule = finding.rule /\ finding = Finding(rule, <<text[n].id>>)
      BY <1>1, OwnShape, Zenon
    <3>. QED
      BY <3>1 DEF Finding
  <2>. QED
    BY <2>1 DEF LastNamed
<1>2. CASE finding \in PairFindings(rules, text[n - 1], text[n])
  <2>1. finding.rule \in PairRules
    BY <1>2, PairShape, Zenon
  <2>2. PICK rule : finding = Finding(rule, <<text[n - 1].id, text[n].id>>)
    BY <1>2, PairShape, Zenon
  <2>3. finding.ids = <<text[n - 1].id, text[n].id>>
    BY <2>2 DEF Finding
  <2>. QED
    BY <2>1, <2>3 DEF LastNamed
<1>. QED
  BY <1>1, <1>2 DEF AddedAt

LEMMA SoundNames ==
  ASSUME text \in Texts, Accepted, NEW finding \in SoundFindings(text)
  PROVE  /\ finding.rule = "SOUND_CUE" /\ LastNamed(finding) = text[1].id
         /\ finding = Finding("SOUND_CUE", <<text[1].id>>) /\ 1 \in DOMAIN text
<1>1. text # <<>>
  BY DEF Accepted, ValidateSegments
<1>2. finding = Finding("SOUND_CUE", <<text[1].id>>) /\ 1 \in DOMAIN text
  BY <1>1 DEF SoundFindings, Texts
<1>3. finding.rule = "SOUND_CUE" /\ finding.ids = <<text[1].id>>
  BY <1>2 DEF Finding
<1>4. LastNamed(finding) = text[1].id
  BY <1>3 DEF LastNamed
<1>. QED
  BY <1>2, <1>3, <1>4, Zenon

LEMMA IdentifiersAreUnique ==
  ASSUME Accepted, NEW m \in DOMAIN text, NEW n \in DOMAIN text, text[m].id = text[n].id
  PROVE  m = n
  BY DEF Accepted, ValidateSegments

\* A finding was reported at a segment, or is that a sound cue is missing.
LEMMA ReportedSomewhere ==
  ASSUME text \in Texts, NEW rules, NEW finding \in EvaluateRules(rules, text)
  PROVE  \/ finding \in SoundFindings(text)
         \/ \E n \in DOMAIN text : finding \in AddedAt(rules, n)
<1>1. \/ finding \in SoundFindings(text)
      \/ \E n \in DOMAIN text : finding \in SegmentFindings(rules, text[n])
      \/ \E n \in 2..Len(text) : finding \in PairFindings(rules, text[n - 1], text[n])
  BY DEF EvaluateRules
<1>2. ASSUME NEW n \in 2..Len(text)  PROVE n \in DOMAIN text /\ n > 1
  BY DEF Texts
<1>. QED
  BY <1>1, <1>2 DEF AddedAt

LEMMA OnceStep == IsText => ReportedOnce
<1>. SUFFICES ASSUME text \in Texts, Accepted, NEW rules \in RuleSets
              PROVE  /\ \A n \in DOMAIN text :
                          /\ AddedAt(rules, n) \cap SoundFindings(text) = {}
                          /\ \A m \in 1..(n - 1) : AddedAt(rules, m) \cap AddedAt(rules, n) = {}
                     /\ Cardinality(EvaluateRules(rules, text)) <= 4 * Len(text)
  BY DEF IsText, ReportedOnce
<1>1. Len(text) \in Nat /\ DOMAIN text = 1..Len(text)
  BY DEF Texts
<1>2. ASSUME NEW n \in DOMAIN text, NEW finding \in AddedAt(rules, n),
             finding \in SoundFindings(text)
      PROVE  FALSE
  BY <1>2, AddedNames, SoundNames DEF OwnRules, PairRules
<1>3. ASSUME NEW n \in DOMAIN text, NEW m \in DOMAIN text,
             NEW finding \in AddedAt(rules, n), finding \in AddedAt(rules, m)
      PROVE  m = n
  BY <1>3, AddedNames, IdentifiersAreUnique
<1>4. ASSUME NEW n \in DOMAIN text, NEW m \in 1..(n - 1)
      PROVE  m \in DOMAIN text /\ m # n
  BY <1>1
<1>5. PICK F : F = EvaluateRules(rules, text)
  OBVIOUS
<1>6. PICK P : P = (1..Len(text)) \X (1..4)
  OBVIOUS
<1>7. PICK f : f = [finding \in F |-> <<Position(LastNamed(finding)), Slot(finding)>>]
  OBVIOUS
<1>8. ASSUME NEW n \in DOMAIN text, NEW finding, LastNamed(finding) = text[n].id
      PROVE  Position(LastNamed(finding)) = n
  <2>1. Position(LastNamed(finding)) \in DOMAIN text
        /\ text[Position(LastNamed(finding))].id = text[n].id
    BY <1>8 DEF Position
  <2>. QED
    BY <2>1, IdentifiersAreUnique
<1>9. ASSUME NEW finding  PROVE Slot(finding) \in 1..4
  BY DEF Slot
<1>10. ASSUME NEW finding \in F
       PROVE  \/ /\ finding \in SoundFindings(text) /\ Slot(finding) = 4
                 /\ Position(LastNamed(finding)) = 1 /\ 1 \in DOMAIN text
              \/ \E n \in DOMAIN text : /\ finding \in AddedAt(rules, n)
                                        /\ Position(LastNamed(finding)) = n
  <2>1. CASE finding \in SoundFindings(text)
    BY <1>8, <2>1, SoundNames DEF Slot
  <2>2. ASSUME NEW n \in DOMAIN text, finding \in AddedAt(rules, n)
        PROVE  Position(LastNamed(finding)) = n
    BY <1>8, <2>2, AddedNames
  <2>. QED
    BY <1>5, <2>1, <2>2, ReportedSomewhere
<1>11. f \in [F -> P]
  BY <1>1, <1>6, <1>7, <1>9, <1>10
<1>12. ASSUME NEW finding \in AddedAt(rules, 1)  PROVE Slot(finding) # 4
  <2>1. finding \in SegmentFindings(rules, text[1])
    BY DEF AddedAt
  <2>2. finding.rule \in OwnRules
    BY <2>1, OwnShape, Zenon
  <2>. QED
    BY <2>2 DEF Slot, OwnRules
<1>13. ASSUME NEW a \in F, NEW b \in F, f[a] = f[b]  PROVE a = b
  <2>1. Position(LastNamed(a)) = Position(LastNamed(b)) /\ Slot(a) = Slot(b)
    BY <1>7, <1>13
  <2>2. CASE a \in SoundFindings(text) /\ b \in SoundFindings(text)
    BY <2>2, SoundNames
  <2>3. CASE a \notin SoundFindings(text) /\ b \notin SoundFindings(text)
    <3>1. PICK n \in DOMAIN text : a \in AddedAt(rules, n) /\ b \in AddedAt(rules, n)
      BY <1>10, <2>1, <2>3
    <3>. QED
      BY <2>1, <3>1, SlotIsOnes
  <2>4. ASSUME NEW c \in F, NEW d \in F, c \in SoundFindings(text), d \notin SoundFindings(text),
               Position(LastNamed(c)) = Position(LastNamed(d)), Slot(c) = Slot(d)
        PROVE  FALSE
    <3>1. Slot(c) = 4 /\ Position(LastNamed(c)) = 1
      BY <1>8, <2>4, SoundNames DEF Slot
    <3>2. d \in AddedAt(rules, 1)
      BY <1>10, <2>4, <3>1
    <3>. QED
      BY <1>12, <2>4, <3>1, <3>2
  <2>. QED
    BY <2>1, <2>2, <2>3, <2>4
<1>14. f \in Injection(F, P)
  BY <1>11, <1>13 DEF Injection, IsInjective
<1>15. IsFiniteSet(P) /\ Cardinality(P) = Len(text) * 4
  <2>1. ASSUME NEW k \in Nat  PROVE IsFiniteSet(1..k) /\ Cardinality(1..k) = k
    BY FS_Interval
  <2>2. PICK places, slots : places = 1..Len(text) /\ slots = 1..4
    OBVIOUS
  <2>3. IsFiniteSet(places) /\ Cardinality(places) = Len(text)
    BY <1>1, <2>1, <2>2
  <2>4. IsFiniteSet(slots) /\ Cardinality(slots) = 4
    BY <2>1, <2>2
  <2>5. IsFiniteSet(places \X slots)
        /\ Cardinality(places \X slots) = Cardinality(places) * Cardinality(slots)
    BY <2>3, <2>4, FS_Product, Zenon
  <2>. QED
    BY <1>6, <2>2, <2>3, <2>4, <2>5
<1>16. Cardinality(F) <= Cardinality(P)
  BY <1>14, <1>15, FS_Injection
<1>17. Cardinality(EvaluateRules(rules, text)) <= 4 * Len(text)
  BY <1>1, <1>5, <1>15, <1>16
<1>. QED
  BY <1>2, <1>3, <1>4, <1>17

\* A finding is known by its rule and its segments, in texts of any length, and
\* a segment has at most four.
THEOREM FindingsAreDistinct == Spec => []ReportedOnce
  BY TextType, OnceStep, PTL

----------------------------------------------------------------------------
(***************************************************************************)
(* The track.                                                              *)
(***************************************************************************)
Before(sent) == [n \in DOMAIN sent |-> SortedBefore(sent, n)]

\* A text that is accepted has an identifier for each segment, and so one order.
LEMMA TrackOrderIsStrict ==
  ASSUME NEW sent \in Texts, ValidateSegments(sent, Duration)
  PROVE  /\ \A m, n \in DOMAIN sent :
              m \in SortedBefore(sent, n) <=> TrackOrder(sent[m], sent[n])
         /\ StrictOrder(DOMAIN sent, Before(sent))
<1>1. ASSUME NEW n \in DOMAIN sent
      PROVE  /\ sent[n].time.start \in Int /\ sent[n].id \in Int
             /\ n \in Int
             /\ \A m \in DOMAIN sent : sent[m].id = sent[n].id => m = n
  <2>1. sent[n] \in Segments /\ n \in 1..Len(sent)
    BY DEF Texts
  <2>2. IsSegment(sent[n])
    BY <2>1, TextAssumption
  <2>. QED
    BY <2>1, <2>2 DEF IsSegment, ValidateSegments
<1>2. PICK start \in [DOMAIN sent -> Int], id \in [DOMAIN sent -> Int] :
        \A n \in DOMAIN sent : start[n] = sent[n].time.start /\ id[n] = sent[n].id
  <2>1. PICK start, id : /\ start = [n \in DOMAIN sent |-> sent[n].time.start]
                         /\ id = [n \in DOMAIN sent |-> sent[n].id]
    OBVIOUS
  <2>. QED
    BY <1>1, <2>1
<1>. DEFINE Less(m, n) == start[m] < start[n] \/ (start[m] = start[n] /\ id[m] < id[n])
<1>3. ASSUME NEW m \in DOMAIN sent, NEW n \in DOMAIN sent
      PROVE  /\ TrackOrder(sent[m], sent[n]) <=> Less(m, n)
             /\ id[m] = id[n] => m = n
  BY <1>1, <1>2 DEF TrackOrder
<1>4. ASSUME NEW m \in DOMAIN sent, NEW n \in DOMAIN sent
      PROVE  m \in SortedBefore(sent, n) <=> Less(m, n)
  <2>1. m \in SortedBefore(sent, n) <=> Less(m, n) \/ (~Less(n, m) /\ m < n)
    BY <1>3 DEF SortedBefore
  <2>2. m = n => ~(m < n)
    BY <1>1
  <2>3. m # n => Less(m, n) \/ Less(n, m)
    BY <1>3
  <2>. QED
    BY <2>1, <2>2, <2>3
<1>5. \A m, n \in DOMAIN sent :
        m \in SortedBefore(sent, n) <=> TrackOrder(sent[m], sent[n])
  BY <1>3, <1>4
<1>6. StrictOrder(DOMAIN sent, Before(sent))
  <2>1. PICK before : before = Before(sent)
    OBVIOUS
  <2>2. \A m, n \in DOMAIN sent : m \in before[n] <=> Less(m, n)
    BY <1>4, <2>1 DEF Before
  <2>3. \A n \in DOMAIN sent : before[n] \in SUBSET DOMAIN sent
    BY <2>1 DEF Before, SortedBefore
  <2>4. \A n \in DOMAIN sent : n \notin before[n]
    BY <2>2
  <2>5. \A m, n \in DOMAIN sent : m # n => m \in before[n] \/ n \in before[m]
    BY <1>3, <2>2
  <2>6. ASSUME NEW m \in DOMAIN sent, NEW n \in DOMAIN sent, m \in before[n], NEW k \in before[m]
        PROVE  k \in before[n]
    <3>1. k \in DOMAIN sent
      BY <2>3
    <3>2. Less(m, n) /\ Less(k, m)
      BY <2>2, <2>6, <3>1
    <3>3. Less(k, n)
      BY <3>1, <3>2
    <3>. QED
      BY <2>2, <3>1, <3>3
  <2>. QED
    BY <2>1, <2>3, <2>4, <2>5, <2>6 DEF StrictOrder
<1>. QED
  BY <1>5, <1>6

LEMMA PositionsOf ==
  ASSUME NEW sent \in Texts
  PROVE  /\ Len(sent) \in Nat
         /\ DOMAIN sent = 1..Len(sent)
         /\ IsFiniteSet(DOMAIN sent)
         /\ Cardinality(DOMAIN sent) = Len(sent)
<1>1. PICK length \in Nat : length = Len(sent) /\ DOMAIN sent = 1..length
  BY DEF Texts
<1>2. IsFiniteSet(1..length) /\ Cardinality(1..length) = length
  BY FS_Interval
<1>. QED
  BY <1>1, <1>2

\* The k-th segment of the track is the one with k - 1 before it in its order.
LEMMA SortedHas ==
  ASSUME NEW sent \in Texts, ValidateSegments(sent, Duration),
         NEW k \in DOMAIN sent
  PROVE  \E n \in DOMAIN sent : /\ Cardinality(SortedBefore(sent, n)) = k - 1
                                /\ Sorted(sent)[k] = sent[n]
<1>1. PICK n \in DOMAIN sent : Cardinality(SortedBefore(sent, n)) = k - 1
  <2>1. k \in 1..Cardinality(DOMAIN sent)
    BY PositionsOf
  <2>2. PICK n \in DOMAIN sent : Cardinality(Before(sent)[n]) = k - 1
    BY <2>1, PositionsOf, TrackOrderIsStrict, EveryRank
  <2>. QED
    BY <2>2 DEF Before
<1>2. PICK j : j = CHOOSE i \in DOMAIN sent : Cardinality(SortedBefore(sent, i)) = k - 1
  OBVIOUS
<1>3. j \in DOMAIN sent /\ Cardinality(SortedBefore(sent, j)) = k - 1
  BY <1>1, <1>2
<1>4. Sorted(sent)[k] = sent[j]
  BY <1>2 DEF Sorted
<1>. QED
  BY <1>3, <1>4

\* No two segments have the same rank.
LEMMA RankIsOnes ==
  ASSUME NEW sent \in Texts, ValidateSegments(sent, Duration),
         NEW m \in DOMAIN sent, NEW n \in DOMAIN sent,
         Cardinality(SortedBefore(sent, m)) = Cardinality(SortedBefore(sent, n))
  PROVE  m = n
<1>1. Cardinality(Before(sent)[m]) = Cardinality(Before(sent)[n])
  BY DEF Before
<1>. QED
  BY <1>1, PositionsOf, TrackOrderIsStrict, RanksRise

LEMMA CanonicalStep == IsText => TrackIsCanonical
<1>. SUFFICES ASSUME text \in Texts, Accepted,
                     NEW order \in [DOMAIN text -> DOMAIN text],
                     \A m, n \in DOMAIN text : order[m] = order[n] => m = n,
                     NEW other, other = [n \in DOMAIN text |-> text[order[n]]],
                     ValidateSegments(other, Duration)
              PROVE  BuildWebVTT(other) = BuildWebVTT(text)
  BY DEF TrackIsCanonical, IsText
<1>1. PICK D : D = DOMAIN text
  OBVIOUS
<1>2. other \in Texts /\ DOMAIN other = D /\ \A n \in D : other[n] = text[order[n]]
  <2>1. DOMAIN text = 1..Len(text) /\ Len(text) \in Nat /\ \A n \in DOMAIN text : text[n] \in Segments
    BY DEF Texts
  <2>. QED
    BY <1>1, <2>1 DEF Texts
<1>3. \A i \in D : \E n \in D : order[n] = i
  <2>1. order \in Injection(D, D)
    BY <1>1 DEF Injection, IsInjective
  <2>2. order \in Surjection(D, D)
    BY <1>1, <2>1, PositionsOf, FS_Injection
  <2>. QED
    BY <2>2 DEF Surjection
<1>4. ASSUME NEW n \in D
      PROVE  Cardinality(SortedBefore(other, n)) = Cardinality(SortedBefore(text, order[n]))
  <2>1. PICK S, T : S = SortedBefore(other, n) /\ T = SortedBefore(text, order[n])
    OBVIOUS
  <2>2. S \subseteq D /\ T \subseteq D
    BY <1>1, <1>2, <2>1 DEF SortedBefore
  <2>3. \A m \in D : m \in S <=> order[m] \in T
    <3>. SUFFICES ASSUME NEW m \in D  PROVE m \in S <=> order[m] \in T
      OBVIOUS
    <3>1. m \in S <=> TrackOrder(other[m], other[n])
      BY <1>2, <2>1, TrackOrderIsStrict
    <3>2. order[m] \in T <=> TrackOrder(text[order[m]], text[order[n]])
      BY <1>1, <2>1, TrackOrderIsStrict DEF Accepted
    <3>. QED
      BY <1>2, <3>1, <3>2
  <2>4. PICK moved : moved = [m \in S |-> order[m]]
    OBVIOUS
  <2>5. moved \in [S -> T]
    BY <2>2, <2>3, <2>4
  <2>6. \A m, k \in S : moved[m] = moved[k] => m = k
    BY <1>1, <2>2, <2>4
  <2>7. \A i \in T : \E m \in S : moved[m] = i
    BY <1>3, <2>2, <2>3, <2>4
  <2>8. moved \in Bijection(S, T)
    BY <2>5, <2>6, <2>7 DEF Bijection, Injection, IsInjective, Surjection
  <2>9. IsFiniteSet(S)
    BY <1>1, <2>2, PositionsOf, FS_Subset
  <2>10. Cardinality(T) = Cardinality(S)
    BY <2>8, <2>9, FS_Bijection DEF ExistsBijection
  <2>. QED
    BY <2>1, <2>10
<1>5. ASSUME NEW k \in D  PROVE Sorted(other)[k] = Sorted(text)[k]
  <2>1. PICK n \in D : Cardinality(SortedBefore(other, n)) = k - 1 /\ Sorted(other)[k] = other[n]
    BY <1>2, SortedHas
  <2>2. PICK m \in D : Cardinality(SortedBefore(text, m)) = k - 1 /\ Sorted(text)[k] = text[m]
    BY <1>1, SortedHas DEF Accepted
  <2>3. Cardinality(SortedBefore(text, order[n])) = Cardinality(SortedBefore(text, m))
    BY <1>4, <2>1, <2>2
  <2>4. order[n] = m
    BY <1>1, <2>3, RankIsOnes DEF Accepted
  <2>. QED
    BY <1>2, <2>1, <2>2, <2>4
<1>6. Sorted(other) = Sorted(text)
  <2>1. Sorted(other) = [k \in D |-> Sorted(other)[k]] /\ Sorted(text) = [k \in D |-> Sorted(text)[k]]
    BY <1>1, <1>2 DEF Sorted
  <2>. QED
    BY <1>5, <2>1
<1>. QED
  BY <1>6 DEF BuildWebVTT

\* Whichever order the segments of a revision were sent in, its track is the
\* same, and so is the digest a release is verified with.
THEOREM TracksAreCanonical == Spec => []TrackIsCanonical
  BY TextType, CanonicalStep, PTL

----------------------------------------------------------------------------
(***************************************************************************)
(* Reading a track: what a block holds for certain, whatever the names and *)
(* words in it are, is its line of times, with an empty line some way      *)
(* before and one after it.                                                *)
(***************************************************************************)
LEMMA MillisBack ==
  ASSUME NEW ms \in Nat
  PROVE  Millis(vttTime(ms)) = ms
  BY DEF Millis, vttTime

\* A line of words without markup in it.
IsSaid(line, runes) == line.is = "words" /\ ~line.marked /\ line.runes = runes

\* What there is in a block of which line t holds the times.
IsBlockOf(block, segment, t) ==
  /\ Len(block) \in Nat /\ t \in Nat /\ 1 < t /\ t < Len(block)
  /\ block[t] = TimeLine(segment.time)
  /\ block[Len(block)] = Blank
  /\ segment.id \notin DOMAIN Spelling => t = 2 /\ block[1] = IdLine(segment.id)
  /\ IsPlain(segment) =>
       /\ Len(block) = t + Len(segment.text.lines) + 1
       /\ \A n \in 1..Len(segment.text.lines) : IsSaid(block[t + n], segment.text.lines[n])
  /\ ~ContainsTimes(segment) =>
       \A n \in 1..Len(block) : n # t => ~HoldsTimes(block[n])

\* The kinds of lines are told apart.
LEMMA LineKinds ==
  /\ \A id : IdLine(id).is = "words"
  /\ \A times : Arrow(times).is = "arrow" /\ Arrow(times).times = times
  /\ \A marked : Words(marked).is = "words"
  /\ Blank.is = "blank" /\ Header.is = "header"
  /\ \A time : TimeLine(time).is = "arrow"
               /\ TimeLine(time).times = [start |-> vttTime(time.start), end |-> vttTime(time.end)]
  BY DEF IdLine, Arrow, Words, Blank, Header, TimeLine

LEMMA TimesAreTimes ==
  ASSUME NEW segment, IsSegment(segment)
  PROVE  HoldsTimes(TimeLine(segment.time))
<1>1. segment.time.start \in Int /\ segment.time.end \in Int
  BY DEF IsSegment
<1>2. ASSUME NEW ms \in Int  PROVE vttTime(ms) \in Seq(Int)
  BY DEF vttTime
<1>3. PICK from, to : from = vttTime(segment.time.start) /\ to = vttTime(segment.time.end)
  OBVIOUS
<1>4. from \in Seq(Int) /\ to \in Seq(Int)
  BY <1>1, <1>2, <1>3
<1>5. [start |-> from, end |-> to] \in [start : Seq(Int), end : Seq(Int)]
  BY <1>4
<1>6. TimeLine(segment.time).times = [start |-> from, end |-> to]
  BY <1>3, LineKinds
<1>. QED
  BY <1>5, <1>6, LineKinds, TextAssumption DEF HoldsTimes

LEMMA LineOfText ==
  ASSUME NEW segment, IsSegment(segment), NEW n \in 1..Len(segment.text.lines)
  PROVE  /\ IsPlain(segment) => IsSaid(TextLine(segment, n), segment.text.lines[n])
         /\ ~ContainsTimes(segment) => ~HoldsTimes(TextLine(segment, n))
<1>1. PICK voice, arrows, runes : /\ voice = IF n = 1 THEN segment.speaker ELSE None
                                  /\ arrows = segment.text.arrows
                                  /\ runes = segment.text.lines[n]
  OBVIOUS
<1>2. n \in DOMAIN segment.text.lines /\ runes \in Nat
  BY <1>1 DEF IsSegment
<1>3. PICK line : line = TextLine(segment, n)
  OBVIOUS
<1>4. PICK open : open = (voice # None /\ (n \in DOMAIN arrows \/ Last(voice.lines).is = "arrow"))
  OBVIOUS
<1>5. line = IF voice = None /\ n \in DOMAIN arrows THEN Arrow(arrows[n])
             ELSE IF voice = None /\ runes = 0 THEN Blank
             ELSE IF voice # None /\ (n \in DOMAIN arrows \/ Last(voice.lines).is = "arrow")
                  THEN Arrow(TimesInName(voice))
             ELSE [is |-> "words", voice |-> voice, runes |-> runes,
                   marked |-> \/ {"<", "&"} \cap segment.text.marks # {}
                              \/ voice # None /\ voice.lines # <<Words(FALSE)>>]
  BY <1>1, <1>3 DEF TextLine
<1>6. ASSUME IsPlain(segment)  PROVE IsSaid(line, runes)
  <2>1. /\ runes > 0 \/ voice # None
        /\ n \notin DOMAIN arrows
        /\ {"<", "&"} \cap segment.text.marks = {}
        /\ voice # None => voice.lines = <<Words(FALSE)>>
    BY <1>1, <1>2, <1>6 DEF IsPlain
  <2>2. voice # None => Last(voice.lines).is = "words"
    <3>1. Last(<<Words(FALSE)>>) = Words(FALSE)
      BY DEF Last
    <3>. QED
      BY <2>1, <3>1, LineKinds
  <2>3. line = [is |-> "words", voice |-> voice, runes |-> runes,
                marked |-> \/ {"<", "&"} \cap segment.text.marks # {}
                           \/ voice # None /\ voice.lines # <<Words(FALSE)>>]
    BY <1>2, <1>5, <2>1, <2>2
  <2>4. line.is = "words" /\ line.runes = runes
    BY <2>3
  <2>5. ~line.marked
    BY <2>1, <2>3
  <2>. QED
    BY <2>4, <2>5 DEF IsSaid
<1>7. ASSUME ~ContainsTimes(segment)  PROVE ~HoldsTimes(line)
  <2>1. n \in DOMAIN arrows => arrows[n] = None
    BY <1>1, <1>7 DEF ContainsTimes
  <2>2. voice # None => TimesInName(voice) = None
    <3>. SUFFICES ASSUME voice # None, Len(voice.lines) > 1, Last(voice.lines).is = "arrow"
                  PROVE  Last(voice.lines).times = None
      BY DEF TimesInName
    <3>1. voice = segment.speaker /\ IsWritten(voice.lines)
      BY <1>1 DEF IsSegment
    <3>2. Len(voice.lines) \in DOMAIN voice.lines
      BY <3>1 DEF IsWritten
    <3>. QED
      BY <1>7, <3>1, <3>2 DEF ContainsTimes, HoldsTimes, Last
  <2>3. \/ line = Arrow(None) \/ line = Blank
        \/ \E marked : line = [is |-> "words", voice |-> voice, runes |-> runes,
                               marked |-> marked]
    BY <1>5, <2>1, <2>2, Zenon
  <2>. QED
    BY <2>3, LineKinds DEF HoldsTimes
<1>. QED
  BY <1>1, <1>3, <1>6, <1>7

IsLines(lines) == lines \in Seq({lines[n] : n \in 1..Len(lines)})

\* The parts of a block, and where they are in it.
IsLaidOut(block, segment, ids, voice, size) ==
  /\ Len(block) = Len(ids) + 1 + Len(voice) + size + 1
  /\ \A n \in 1..Len(ids) : block[n] = ids[n]
  /\ block[Len(ids) + 1] = TimeLine(segment.time)
  /\ \A n \in 1..Len(voice) : block[Len(ids) + 1 + n] = voice[n]
  /\ \A n \in 1..size : block[Len(ids) + 1 + Len(voice) + n] = TextLine(segment, n)
  /\ block[Len(ids) + 1 + Len(voice) + size + 1] = Blank

LEMMA LinesAmong ==
  ASSUME NEW lines, IsLines(lines), NEW X, {lines[n] : n \in 1..Len(lines)} \subseteq X
  PROVE  lines \in Seq(X)
  BY DEF IsLines

LEMMA PartsOfBlock ==
  ASSUME NEW segment, NEW X, NEW ids \in Seq(X), NEW voice \in Seq(X), NEW body \in Seq(X),
         TimeLine(segment.time) \in X, Blank \in X,
         \A n \in 1..Len(body) : body[n] = TextLine(segment, n)
  PROVE  LET block == ids \o <<TimeLine(segment.time)>> \o voice \o body \o <<Blank>> IN
         IsLines(block) /\ IsLaidOut(block, segment, ids, voice, Len(body))
<1>1. PICK i \in Nat, v \in Nat, size \in Nat :
        i = Len(ids) /\ v = Len(voice) /\ size = Len(body)
  OBVIOUS
<1>2. PICK times, tail : times = <<TimeLine(segment.time)>> /\ tail = <<Blank>>
  OBVIOUS
<1>6. /\ times \in Seq(X) /\ Len(times) = 1 /\ times[1] = TimeLine(segment.time)
      /\ tail \in Seq(X) /\ Len(tail) = 1 /\ tail[1] = Blank
  BY <1>2
<1>7. PICK b, c, d : b = ids \o times /\ c = b \o voice /\ d = c \o body
  OBVIOUS
<1>8. PICK block : block = d \o tail
  OBVIOUS
<1>9. b \in Seq(X) /\ IsJoin(b, ids, times)
  BY <1>6, <1>7, Concatenation
<1>10. c \in Seq(X) /\ IsJoin(c, b, voice)
  BY <1>7, <1>9, Concatenation
<1>11. d \in Seq(X) /\ IsJoin(d, c, body)
  BY <1>7, <1>10, Concatenation
<1>12. block \in Seq(X) /\ IsJoin(block, d, tail)
  BY <1>6, <1>8, <1>11, Concatenation
<1>13. /\ Len(b) = i + 1 /\ Len(c) = i + 1 + v /\ Len(d) = i + 1 + v + size
       /\ Len(block) = i + 1 + v + size + 1
  BY <1>1, <1>6, <1>9, <1>10, <1>11, <1>12 DEF IsJoin
<1>14. \A n \in 1..Len(d) : block[n] = d[n]
  BY <1>12 DEF IsJoin
<1>15. \A n \in 1..Len(c) : d[n] = c[n] /\ n \in 1..Len(d)
  BY <1>1, <1>11, <1>13 DEF IsJoin
<1>16. \A n \in 1..Len(b) : c[n] = b[n] /\ n \in 1..Len(c)
  BY <1>1, <1>10, <1>13 DEF IsJoin
<1>17. \A n \in 1..i : b[n] = ids[n] /\ n \in 1..Len(b)
  BY <1>1, <1>9, <1>13 DEF IsJoin
<1>18. \A n \in 1..i : block[n] = ids[n]
  BY <1>14, <1>15, <1>16, <1>17
<1>19. block[i + 1] = TimeLine(segment.time)
  <2>1. b[i + 1] = TimeLine(segment.time)
    <3>1. 1 \in 1..Len(times)
      BY <1>6
    <3>. QED
      BY <1>1, <1>6, <1>9, <3>1 DEF IsJoin
  <2>2. i + 1 \in 1..Len(b)
    BY <1>13
  <2>. QED
    BY <1>14, <1>15, <1>16, <2>1, <2>2
<1>20. ASSUME NEW n \in 1..v  PROVE block[i + 1 + n] = voice[n]
  <2>1. c[i + 1 + n] = voice[n]
    BY <1>1, <1>10, <1>13 DEF IsJoin
  <2>2. i + 1 + n \in 1..Len(c)
    BY <1>13
  <2>. QED
    BY <1>14, <1>15, <2>1, <2>2
<1>21. ASSUME NEW n \in 1..size  PROVE block[i + 1 + v + n] = TextLine(segment, n)
  <2>1. d[i + 1 + v + n] = body[n]
    BY <1>1, <1>11, <1>13 DEF IsJoin
  <2>2. i + 1 + v + n \in 1..Len(d)
    BY <1>13
  <2>. QED
    BY <1>1, <1>14, <2>1, <2>2
<1>22. block[i + 1 + v + size + 1] = Blank
  <2>1. 1 \in 1..Len(tail)
    BY <1>6
  <2>. QED
    BY <1>6, <1>12, <1>13, <2>1 DEF IsJoin
<1>23. IsLaidOut(block, segment, ids, voice, size)
  BY <1>1, <1>13, <1>18, <1>19, <1>20, <1>21, <1>22 DEF IsLaidOut
<1>24. IsLines(block)
  <2>1. block \in Seq(X)
    BY <1>12
  <2>. QED
    BY <2>1, OwnMembers DEF IsLines
<1>. QED
  BY <1>1, <1>2, <1>7, <1>8, <1>23, <1>24

\* A name that breaks the line stands in lines before the one with the words.
LEMMA NameLines ==
  ASSUME NEW segment, IsSegment(segment),
         NEW ids, ids = IdLines(segment.id), NEW voice, voice = VoiceLines(segment.speaker)
  PROVE  /\ IsLines(ids) /\ Len(ids) # 0
         /\ IsLines(voice)
         /\ segment.id \notin DOMAIN Spelling => ids = <<IdLine(segment.id)>>
         /\ IsPlain(segment) => voice = <<>>
         /\ ~ContainsTimes(segment) =>
              /\ \A n \in 1..Len(ids) : ~HoldsTimes(ids[n])
              /\ \A n \in 1..Len(voice) : ~HoldsTimes(voice[n])
<1>1. /\ segment.id \in DOMAIN Spelling =>
           ids = Spelling[segment.id] /\ IsWritten(Spelling[segment.id])
      /\ segment.id \notin DOMAIN Spelling => ids = <<IdLine(segment.id)>>
      /\ segment.speaker # None => IsWritten(segment.speaker.lines)
  BY DEF IdLines, IsSegment
<1>2. IsLines(ids) /\ Len(ids) # 0
  <2>1. CASE segment.id \in DOMAIN Spelling
    <3>1. ids # <<>> /\ ids \in Seq({ids[n] : n \in DOMAIN ids})
      BY <1>1, <2>1 DEF IsWritten
    <3>2. Len(ids) # 0 /\ DOMAIN ids = 1..Len(ids)
      BY <3>1
    <3>. QED
      BY <3>1, <3>2 DEF IsLines
  <2>2. CASE segment.id \notin DOMAIN Spelling
    <3>1. PICK line : ids = <<line>>
      BY <1>1, <2>2
    <3>2. ids \in Seq({line}) /\ Len(ids) = 1
      BY <3>1
    <3>. QED
      BY <3>2, OwnMembers DEF IsLines
  <2>. QED
    BY <2>1, <2>2
<1>3. ~ContainsTimes(segment) => \A n \in 1..Len(ids) : ~HoldsTimes(ids[n])
  <2>. SUFFICES ASSUME ~ContainsTimes(segment), NEW n \in 1..Len(ids)
                PROVE  ~HoldsTimes(ids[n])
    OBVIOUS
  <2>1. n \in DOMAIN ids
    BY <1>2 DEF IsLines
  <2>2. CASE segment.id \in DOMAIN Spelling
    BY <1>1, <2>1, <2>2 DEF ContainsTimes
  <2>3. CASE segment.id \notin DOMAIN Spelling
    <3>1. ids[n] = IdLine(segment.id)
      <4>1. ids = <<IdLine(segment.id)>>
        BY <1>1, <2>3
      <4>2. n = 1
        BY <2>1, <4>1
      <4>. QED
        BY <4>1, <4>2
    <3>. QED
      BY <3>1, LineKinds DEF HoldsTimes
  <2>. QED
    BY <2>2, <2>3
<1>4. CASE segment.speaker = None
  <2>1. voice = <<>>
    BY <1>4 DEF VoiceLines
  <2>2. IsLines(voice) /\ Len(voice) = 0
    BY <2>1 DEF IsLines
  <2>. QED
    BY <1>1, <1>2, <1>3, <2>1, <2>2
<1>5. CASE segment.speaker # None
  <2>1. PICK lines : lines = segment.speaker.lines
    OBVIOUS
  <2>2. lines # <<>> /\ lines \in Seq({lines[n] : n \in DOMAIN lines})
    BY <1>1, <1>5, <2>1 DEF IsWritten
  <2>3. PICK size \in Nat : size = Len(lines) - 1 /\ DOMAIN lines = 1..(size + 1)
    BY <2>2
  <2>4. voice = [n \in 1..size |->
                   IF n > 1 THEN lines[n]
                   ELSE IF lines[1].is = "arrow" THEN Arrow(None) ELSE Words(TRUE)]
    BY <1>5, <2>1, <2>3 DEF VoiceLines
  <2>5. IsLines(voice) /\ Len(voice) = size /\ voice \in [1..size -> {voice[n] : n \in 1..size}]
    <3>1. DOMAIN voice = 1..size /\ voice = [n \in 1..size |-> voice[n]]
      BY <2>4
    <3>2. PICK X : X = {voice[n] : n \in 1..size}
      OBVIOUS
    <3>3. voice \in [1..size -> X]
      BY <3>1, <3>2
    <3>4. voice \in Seq(X) /\ Len(voice) = size
      BY <3>3
    <3>. QED
      BY <3>2, <3>3, <3>4, OwnMembers DEF IsLines
  <2>6. IsPlain(segment) => voice = <<>>
    <3>. SUFFICES ASSUME IsPlain(segment)  PROVE voice = <<>>
      OBVIOUS
    <3>1. lines = <<Words(FALSE)>>
      BY <1>5, <2>1 DEF IsPlain
    <3>2. Len(lines) = 1
      BY <3>1
    <3>3. size = 0
      BY <2>3, <3>2
    <3>. QED
      BY <2>5, <3>3
  <2>7. ~ContainsTimes(segment) => \A n \in 1..Len(voice) : ~HoldsTimes(voice[n])
    <3>. SUFFICES ASSUME ~ContainsTimes(segment), NEW n \in 1..size
                  PROVE  ~HoldsTimes(voice[n])
      BY <2>5
    <3>1. n \in DOMAIN lines
      BY <2>3
    <3>2. ~HoldsTimes(lines[n])
      BY <1>5, <2>1, <3>1 DEF ContainsTimes
    <3>3. voice[n] = lines[n] \/ voice[n] = Arrow(None) \/ voice[n] = Words(TRUE)
      BY <2>4
    <3>. QED
      BY <3>2, <3>3, LineKinds DEF HoldsTimes
  <2>. QED
    BY <1>1, <1>2, <1>3, <2>5, <2>6, <2>7
<1>. QED
  BY <1>4, <1>5

LEMMA BlockLines ==
  ASSUME NEW segment, IsSegment(segment)
  PROVE  /\ \E t \in Nat : IsBlockOf(Block(segment), segment, t)
         /\ IsLines(Block(segment))
<1>1. PICK lines \in Seq(Nat) : lines = segment.text.lines
  BY DEF IsSegment
<1>2. PICK size \in Nat : size = Len(lines) /\ DOMAIN lines = 1..size
  OBVIOUS
<1>3. PICK ids, voice, body, block :
        /\ ids = IdLines(segment.id) /\ voice = VoiceLines(segment.speaker)
        /\ body = [n \in 1..size |-> TextLine(segment, n)]
        /\ block = ids \o <<TimeLine(segment.time)>> \o voice \o body \o <<Blank>>
  OBVIOUS
<1>4. Block(segment) = block
  BY <1>1, <1>2, <1>3 DEF Block
<1>5. /\ IsLines(ids) /\ Len(ids) # 0
      /\ IsLines(voice)
      /\ segment.id \notin DOMAIN Spelling => ids = <<IdLine(segment.id)>>
      /\ IsPlain(segment) => voice = <<>>
      /\ ~ContainsTimes(segment) =>
           /\ \A n \in 1..Len(ids) : ~HoldsTimes(ids[n])
           /\ \A n \in 1..Len(voice) : ~HoldsTimes(voice[n])
  BY <1>3, NameLines
<1>6. /\ IsLaidOut(block, segment, ids, voice, size)
      /\ IsLines(block)
  <2>1. PICK X : X = {ids[n] : n \in 1..Len(ids)} \cup {voice[n] : n \in 1..Len(voice)}
                     \cup {body[n] : n \in 1..size} \cup {TimeLine(segment.time), Blank}
    OBVIOUS
  <2>2. body \in [1..size -> X]
    BY <1>3, <2>1
  <2>3. body \in Seq(X) /\ Len(body) = size /\ \A n \in 1..Len(body) : body[n] = TextLine(segment, n)
    BY <1>3, <2>2
  <2>4. ids \in Seq(X) /\ voice \in Seq(X) /\ TimeLine(segment.time) \in X /\ Blank \in X
    BY <1>5, <2>1, LinesAmong
  <2>. QED
    BY <1>3, <2>3, <2>4, PartsOfBlock
<1>7. PICK i \in Nat, v \in Nat, t \in Nat :
        i = Len(ids) /\ i # 0 /\ v = Len(voice) /\ t = i + 1
  <2>1. Len(ids) \in Nat /\ Len(voice) \in Nat
    BY <1>5 DEF IsLines
  <2>. QED
    BY <1>5, <2>1
<1>8. /\ Len(block) = t + v + size + 1
      /\ \A n \in 1..i : block[n] = ids[n]
      /\ block[t] = TimeLine(segment.time)
      /\ \A n \in 1..v : block[t + n] = voice[n]
      /\ \A n \in 1..size : block[t + v + n] = TextLine(segment, n)
      /\ block[t + v + size + 1] = Blank
  BY <1>6, <1>7 DEF IsLaidOut
<1>9. segment.id \notin DOMAIN Spelling => t = 2 /\ block[1] = IdLine(segment.id)
  <2>. SUFFICES ASSUME segment.id \notin DOMAIN Spelling
                PROVE  t = 2 /\ block[1] = IdLine(segment.id)
    OBVIOUS
  <2>1. ids = <<IdLine(segment.id)>>
    BY <1>5
  <2>2. i = 1 /\ ids[1] = IdLine(segment.id)
    BY <1>7, <2>1
  <2>3. 1 \in 1..i
    BY <2>2
  <2>. QED
    BY <1>7, <1>8, <2>2, <2>3
<1>10. IsPlain(segment) => /\ Len(block) = t + size + 1
                           /\ \A n \in 1..size : IsSaid(block[t + n], lines[n])
  <2>. SUFFICES ASSUME IsPlain(segment)
                PROVE  /\ Len(block) = t + size + 1
                       /\ \A n \in 1..size : IsSaid(block[t + n], lines[n])
    OBVIOUS
  <2>1. v = 0
    BY <1>5, <1>7
  <2>2. \A n \in 1..size : block[t + n] = TextLine(segment, n)
    BY <1>8, <2>1
  <2>3. Len(block) = t + size + 1
    BY <1>8, <2>1
  <2>. QED
    BY <1>1, <1>2, <2>2, <2>3, LineOfText
<1>11. ~ContainsTimes(segment) => \A n \in 1..Len(block) : n # t => ~HoldsTimes(block[n])
  <2>. SUFFICES ASSUME ~ContainsTimes(segment), NEW n \in 1..Len(block), n # t
                PROVE  ~HoldsTimes(block[n])
    OBVIOUS
  <2>1. n \in Int /\ 1 <= n /\ n <= t + v + size + 1
    BY <1>8
  <2>2. CASE n < t
    <3>1. n \in 1..i
      BY <1>7, <2>1, <2>2
    <3>. QED
      BY <1>5, <1>7, <1>8, <3>1
  <2>3. CASE n > t /\ n <= t + v
    <3>1. PICK m \in 1..v : n = t + m
      <4>1. n - t \in 1..v /\ n = t + (n - t)
        BY <2>1, <2>3
      <4>. QED
        BY <4>1
    <3>. QED
      BY <1>5, <1>7, <1>8, <3>1
  <2>4. CASE n > t + v /\ n <= t + v + size
    <3>1. PICK m \in 1..size : n = t + v + m
      <4>1. n - (t + v) \in 1..size /\ n = t + v + (n - (t + v))
        BY <2>1, <2>4
      <4>. QED
        BY <4>1
    <3>2. ~HoldsTimes(TextLine(segment, m))
      BY <1>1, <1>2, LineOfText
    <3>. QED
      BY <1>8, <3>1, <3>2
  <2>5. CASE n = t + v + size + 1
    BY <1>8, <2>5, LineKinds DEF HoldsTimes
  <2>. QED
    BY <2>1, <2>2, <2>3, <2>4, <2>5
<1>12. Len(block) \in Nat /\ 1 < t /\ t < Len(block) /\ block[Len(block)] = Blank
  BY <1>7, <1>8
<1>13. IsBlockOf(block, segment, t)
  BY <1>1, <1>2, <1>8, <1>9, <1>10, <1>11, <1>12 DEF IsBlockOf
<1>. QED
  BY <1>4, <1>6, <1>13

\* The block of the k-th of n segments is in the file after line at[k].
IsTrack(file, sorted, n, at) ==
  /\ IsLines(file)
  /\ at[1] = 2 /\ Len(file) = at[n + 1]
  /\ file[1] = Header /\ file[2] = Blank
  /\ \A k \in 1..n :
       /\ IsSegment(sorted[k])
       /\ at[k + 1] = at[k] + Len(Block(sorted[k]))
       /\ \A i \in 1..Len(Block(sorted[k])) : file[at[k] + i] = Block(sorted[k])[i]
  /\ \A p \in 3..Len(file) :
       \E k \in 1..n : \E i \in 1..Len(Block(sorted[k])) : p = at[k] + i

LEMMA TrackOfText ==
  ASSUME text \in Texts, Accepted
  PROVE  \E at \in [1..(Len(text) + 1) -> Nat] :
           IsTrack(BuildWebVTT(text), Sorted(text), Len(text), at)
<1>1. PICK n \in Nat : n = Len(text) /\ n # 0 /\ DOMAIN text = 1..n
  <2>1. text # <<>>
    BY DEF Accepted, ValidateSegments
  <2>. QED
    BY <2>1 DEF Texts
<1>2. PICK sorted : sorted = Sorted(text)
  OBVIOUS
<1>3. DOMAIN sorted = 1..n /\ \A k \in 1..n : IsSegment(sorted[k])
  <2>1. DOMAIN sorted = 1..n
    BY <1>1, <1>2 DEF Sorted
  <2>2. ASSUME NEW k \in 1..n  PROVE IsSegment(sorted[k])
    <3>1. PICK j \in DOMAIN text : sorted[k] = text[j]
      BY <1>1, <1>2, SortedHas DEF Accepted
    <3>2. text[j] \in Segments
      BY <3>1 DEF Texts
    <3>. QED
      BY <3>1, <3>2, TextAssumption
  <2>. QED
    BY <2>1, <2>2
<1>4. PICK blocks : blocks = [k \in 1..n |-> Block(sorted[k])]
  OBVIOUS
<1>5. PICK X : X = (UNION {{blocks[k][i] : i \in 1..Len(blocks[k])} : k \in 1..n})
               \cup {Header, Blank}
  OBVIOUS
<1>6. blocks \in [1..n -> Seq(X)]
  <2>1. SUFFICES ASSUME NEW k \in 1..n  PROVE blocks[k] \in Seq(X)
    BY <1>4
  <2>2. PICK own : own = {blocks[k][i] : i \in 1..Len(blocks[k])}
    OBVIOUS
  <2>3. blocks[k] \in Seq(own)
    BY <1>3, <1>4, <2>2, BlockLines DEF IsLines
  <2>4. own \subseteq X
    <3>1. own \in {{blocks[j][i] : i \in 1..Len(blocks[j])} : j \in 1..n}
      BY <2>2
    <3>. QED
      BY <1>5, <3>1
  <2>. QED
    BY <2>3, <2>4
<1>7. PICK flat, start : flat = FlattenSeq(blocks) /\ start = <<Header, Blank>>
  OBVIOUS
<1>8. flat \in Seq(X)
  BY <1>1, <1>6, <1>7, FlattenPlaces
<1>9. PICK before \in [1..(n + 1) -> Nat] : Places(blocks, n, flat, before)
  BY <1>1, <1>6, <1>7, FlattenPlaces
<1>10. PICK file : file = start \o flat
  OBVIOUS
<1>11. start \in Seq(X) /\ Len(start) = 2 /\ start[1] = Header /\ start[2] = Blank
  <2>1. Header \in X /\ Blank \in X
    BY <1>5
  <2>. QED
    BY <1>7, <2>1
<1>12. file \in Seq(X) /\ IsJoin(file, start, flat)
  BY <1>8, <1>10, <1>11, Concatenation
<1>13. BuildWebVTT(text) = file
  <2>1. [k \in DOMAIN sorted |-> Block(sorted[k])] = blocks
    BY <1>3, <1>4
  <2>. QED
    BY <1>2, <1>7, <1>10, <2>1 DEF BuildWebVTT
<1>14. PICK at : at = [k \in 1..(n + 1) |-> 2 + before[k]]
  OBVIOUS
<1>15. at \in [1..(n + 1) -> Nat] /\ \A k \in 1..(n + 1) : at[k] = 2 + before[k]
  BY <1>14
<1>16. at[1] = 2 /\ Len(file) = at[n + 1] /\ file[1] = Header /\ file[2] = Blank
  <2>1. 1 \in 1..(n + 1) /\ n + 1 \in 1..(n + 1) /\ 1 \in 1..2 /\ 2 \in 1..2
    OBVIOUS
  <2>. QED
    BY <1>9, <1>11, <1>12, <1>15, <2>1 DEF Places, IsJoin
<1>17. ASSUME NEW k \in 1..n
       PROVE  /\ at[k + 1] = at[k] + Len(blocks[k])
              /\ \A i \in 1..Len(blocks[k]) : file[at[k] + i] = blocks[k][i]
  <2>1. k \in 1..(n + 1) /\ k + 1 \in 1..(n + 1)
    OBVIOUS
  <2>2. PICK a \in Nat, b \in Nat, l \in Nat :
          a = before[k] /\ b = before[k + 1] /\ l = Len(blocks[k])
    <3>1. Len(blocks[k]) \in Nat
      BY <1>6
    <3>. QED
      BY <2>1, <3>1
  <2>3. b = a + l /\ at[k] = 2 + a /\ at[k + 1] = 2 + b
    BY <1>9, <1>15, <2>1, <2>2 DEF Places
  <2>4. ASSUME NEW i \in 1..Len(blocks[k])  PROVE file[at[k] + i] = blocks[k][i]
    <3>1. flat[a + i] = blocks[k][i]
      BY <1>9, <2>2 DEF Places
    <3>2. a + i \in 1..Len(flat)
      <4>1. Len(flat) = before[n + 1]
        BY <1>9 DEF Places
      <4>2. b <= before[n + 1]
        <5>1. \A j \in 2..(n + 1) : before[j - 1] <= before[j]
          <6>1. SUFFICES ASSUME NEW j \in 2..(n + 1)  PROVE before[j - 1] <= before[j]
            OBVIOUS
          <6>2. PICK c \in 1..n : c = j - 1 /\ c + 1 = j /\ c \in 1..(n + 1)
            OBVIOUS
          <6>3. before[c + 1] = before[c] + Len(blocks[c])
            BY <1>9 DEF Places
          <6>4. before[c] \in Nat /\ Len(blocks[c]) \in Nat
            BY <1>6, <6>2
          <6>. QED
            BY <6>2, <6>3, <6>4
        <5>2. n + 1 \in 1..(n + 1) /\ k + 1 <= n + 1 /\ n + 1 \in Nat
          OBVIOUS
        <5>3. before \in [1..(n + 1) -> Int]
          OBVIOUS
        <5>. QED
          BY <2>1, <2>2, <5>1, <5>2, <5>3, NoStepDown
      <4>3. i \in 1..l
        BY <2>2
      <4>4. before[n + 1] \in Nat
        OBVIOUS
      <4>. QED
        BY <2>3, <4>1, <4>2, <4>3, <4>4
    <3>3. file[2 + (a + i)] = flat[a + i]
      BY <1>11, <1>12, <3>2 DEF IsJoin
    <3>4. i \in Int /\ at[k] + i = 2 + (a + i)
      BY <2>2, <2>3
    <3>. QED
      BY <3>1, <3>3, <3>4
  <2>5. at[k + 1] = at[k] + Len(blocks[k])
    <3>1. 2 + b = (2 + a) + l
      BY <2>3
    <3>2. at[k] + Len(blocks[k]) = (2 + a) + l
      BY <2>2, <2>3
    <3>. QED
      BY <2>3, <3>1, <3>2
  <2>. QED
    BY <2>4, <2>5
<1>18. ASSUME NEW p \in 3..Len(file)
       PROVE  \E k \in 1..n : \E i \in 1..Len(blocks[k]) : p = at[k] + i
  <2>1. PICK q \in Nat, size \in Nat : q = p - 2 /\ size = Len(flat)
    <3>1. p - 2 \in Nat /\ Len(flat) \in Nat
      BY <1>8
    <3>. QED
      BY <3>1
  <2>2. q \in 1..Len(flat)
    BY <1>11, <1>12, <2>1 DEF IsJoin
  <2>3. IsPlaced(q, blocks, n, before)
    BY <1>6, <1>9, <2>2, EveryPlace
  <2>4. PICK k \in 1..n : \E i \in 1..Len(blocks[k]) : q = before[k] + i
    BY <2>3 DEF IsPlaced
  <2>5. PICK i \in 1..Len(blocks[k]) : q = before[k] + i
    BY <2>4
  <2>6. k \in 1..(n + 1) /\ at[k] = 2 + before[k] /\ before[k] \in Nat
    BY <1>15
  <2>7. p = at[k] + i
    BY <2>1, <2>5, <2>6
  <2>. QED
    BY <2>7
<1>19. IsLines(file)
  BY <1>12, OwnMembers DEF IsLines
<1>20. IsTrack(file, sorted, n, at)
  BY <1>3, <1>4, <1>16, <1>17, <1>18, <1>19 DEF IsTrack
<1>. QED
  BY <1>1, <1>2, <1>13, <1>15, <1>20

\* Between the empty lines a and e of a file there is the block of a segment, and
\* in line p the times of its cue.
IsCueAt(file, segment, a, p, e) ==
  /\ IsSegment(segment)
  /\ a \in Nat /\ p \in Nat /\ e \in Nat
  /\ 2 <= a /\ a + 2 <= p /\ p < e /\ e <= Len(file)
  /\ file[p] = TimeLine(segment.time)
  /\ file[a] = Blank /\ file[e] = Blank
  /\ segment.id \notin DOMAIN Spelling => p = a + 2 /\ file[a + 1] = IdLine(segment.id)
  /\ IsPlain(segment) =>
       /\ e = p + Len(segment.text.lines) + 1
       /\ \A n \in 1..Len(segment.text.lines) : IsSaid(file[p + n], segment.text.lines[n])
  /\ ~ContainsTimes(segment) =>
       \A q \in (a + 1)..e : q # p => ~HoldsTimes(file[q])

AreEnds(at, file, n) ==
  \A k \in 1..(n + 1) : 2 <= at[k] /\ at[k] <= Len(file) /\ file[at[k]] = Blank

\* The parts of a track before and after a block.
LEMMA TrackGrows ==
  ASSUME NEW n \in Nat, NEW sorted, NEW at \in [1..(n + 1) -> Nat], NEW file,
         IsTrack(file, sorted, n, at)
  PROVE  /\ \A j \in 1..n : /\ Len(Block(sorted[j])) \in Nat
                            /\ at[j + 1] = at[j] + Len(Block(sorted[j]))
         /\ AreEnds(at, file, n)
<1>1. ASSUME NEW j \in 1..n
      PROVE  /\ Len(Block(sorted[j])) \in Nat
             /\ at[j + 1] = at[j] + Len(Block(sorted[j]))
             /\ at[j] <= at[j + 1]
             /\ file[at[j + 1]] = Blank
  <2>1. /\ IsSegment(sorted[j]) /\ at[j + 1] = at[j] + Len(Block(sorted[j]))
        /\ \A i \in 1..Len(Block(sorted[j])) : file[at[j] + i] = Block(sorted[j])[i]
    BY DEF IsTrack
  <2>2. PICK t \in Nat : IsBlockOf(Block(sorted[j]), sorted[j], t)
    BY <2>1, BlockLines
  <2>3. PICK length \in Nat : length = Len(Block(sorted[j])) /\ 1 < length
                              /\ Block(sorted[j])[length] = Blank
    BY <2>2 DEF IsBlockOf
  <2>4. j \in 1..(n + 1)
    OBVIOUS
  <2>5. PICK a \in Nat : a = at[j] /\ at[j + 1] = a + length
    BY <2>1, <2>3, <2>4
  <2>6. length \in 1..length
    BY <2>3
  <2>7. file[a + length] = Blank
    BY <2>1, <2>3, <2>5, <2>6
  <2>. QED
    BY <2>1, <2>3, <2>5, <2>7
<1>2. \A j \in 2..(n + 1) : at[j - 1] <= at[j]
  <2>1. SUFFICES ASSUME NEW j \in 2..(n + 1)  PROVE at[j - 1] <= at[j]
    OBVIOUS
  <2>2. PICK i \in 1..n : i = j - 1 /\ i + 1 = j
    OBVIOUS
  <2>. QED
    BY <1>1, <2>2
<1>3. at[1] = 2 /\ Len(file) = at[n + 1] /\ file[2] = Blank
  BY DEF IsTrack
<1>4. ASSUME NEW k \in 1..(n + 1)
      PROVE  2 <= at[k] /\ at[k] <= Len(file) /\ file[at[k]] = Blank
  <2>1. n + 1 \in Nat /\ at \in [1..(n + 1) -> Int] /\ 1 \in 1..(n + 1) /\ n + 1 \in 1..(n + 1)
        /\ 1 <= k /\ k <= n + 1
    OBVIOUS
  <2>2. at[1] <= at[k] /\ at[k] <= at[n + 1]
    BY <1>2, <2>1, NoStepDown
  <2>3. CASE k = 1
    BY <1>3, <2>2, <2>3
  <2>4. CASE k # 1
    <3>1. PICK j \in 1..n : k = j + 1
      <4>1. k - 1 \in 1..n /\ k = (k - 1) + 1
        BY <2>4
      <4>. QED
        BY <4>1
    <3>. QED
      BY <1>1, <1>3, <2>2, <3>1
  <2>. QED
    BY <2>3, <2>4
<1>. QED
  BY <1>1, <1>4 DEF AreEnds

LEMMA TrackBlock ==
  ASSUME NEW n \in Nat, NEW sorted, NEW at \in [1..(n + 1) -> Nat], NEW file,
         IsTrack(file, sorted, n, at), NEW k \in 1..n
  PROVE  \E p \in Nat : IsCueAt(file, sorted[k], at[k], p, at[k + 1])
<1>0. /\ k \in 1..(n + 1) /\ k + 1 \in 1..(n + 1)
      /\ at[k + 1] = at[k] + Len(Block(sorted[k]))
      /\ 2 <= at[k] /\ file[at[k]] = Blank
      /\ at[k + 1] <= Len(file) /\ file[at[k + 1]] = Blank
  <2>1. k \in 1..(n + 1) /\ k + 1 \in 1..(n + 1)
    OBVIOUS
  <2>2. at[k + 1] = at[k] + Len(Block(sorted[k]))
    BY TrackGrows
  <2>3. AreEnds(at, file, n)
    BY TrackGrows
  <2>. QED
    BY <2>1, <2>2, <2>3 DEF AreEnds
<1>1. /\ IsSegment(sorted[k])
      /\ \A i \in 1..Len(Block(sorted[k])) : file[at[k] + i] = Block(sorted[k])[i]
  BY DEF IsTrack
<1>2. PICK t \in Nat : IsBlockOf(Block(sorted[k]), sorted[k], t)
  BY <1>1, BlockLines
<1>3. PICK block, segment : block = Block(sorted[k]) /\ segment = sorted[k]
  OBVIOUS
<1>4. PICK length \in Nat, lines \in Seq(Nat) :
        length = Len(block) /\ 1 < t /\ t < length /\ lines = segment.text.lines
  <2>1. segment.text.lines \in Seq(Nat)
    BY <1>1, <1>3 DEF IsSegment
  <2>. QED
    BY <1>2, <1>3, <2>1 DEF IsBlockOf
<1>5. PICK a \in Nat, e \in Nat, all \in Nat : a = at[k] /\ e = at[k + 1] /\ all = Len(file)
  <2>1. Len(file) \in Nat
    BY DEF IsTrack, IsLines
  <2>. QED
    BY <1>0, <2>1
<1>6. e = a + length
  BY <1>0, <1>3, <1>4, <1>5
<1>7. /\ 2 <= a /\ file[a] = Blank
       /\ e <= all /\ file[e] = Blank
  BY <1>0, <1>5
<1>8. \A i \in 1..length : file[a + i] = block[i]
  BY <1>1, <1>3, <1>4, <1>5
<1>9. PICK p \in Nat : p = a + t
  OBVIOUS
<1>10. a + 2 <= p /\ p < e /\ file[p] = TimeLine(segment.time)
  <2>1. t \in 1..length
    BY <1>4
  <2>2. block[t] = TimeLine(segment.time)
    BY <1>2, <1>3 DEF IsBlockOf
  <2>3. file[a + t] = block[t]
    BY <1>8, <2>1
  <2>4. a + 2 <= p /\ p < e
    BY <1>4, <1>6, <1>9
  <2>. QED
    BY <1>9, <2>2, <2>3, <2>4
<1>11. segment.id \notin DOMAIN Spelling => p = a + 2 /\ file[a + 1] = IdLine(segment.id)
  <2>1. segment.id \notin DOMAIN Spelling => t = 2 /\ block[1] = IdLine(segment.id)
    BY <1>2, <1>3 DEF IsBlockOf
  <2>2. 1 \in 1..length
    BY <1>4
  <2>. QED
    BY <1>8, <1>9, <2>1, <2>2
<1>12. ASSUME IsPlain(segment)
       PROVE  /\ e = p + Len(lines) + 1
              /\ \A i \in 1..Len(lines) : IsSaid(file[p + i], lines[i])
  <2>1. length = t + Len(lines) + 1 /\ \A i \in 1..Len(lines) : IsSaid(block[t + i], lines[i])
    BY <1>2, <1>3, <1>4, <1>12 DEF IsBlockOf
  <2>2. PICK size \in Nat : size = Len(lines)
    OBVIOUS
  <2>3. ASSUME NEW i \in 1..size  PROVE IsSaid(file[p + i], lines[i])
    <3>1. t + i \in 1..length /\ p + i = a + (t + i)
      BY <1>4, <1>9, <2>1, <2>2
    <3>2. file[p + i] = block[t + i]
      BY <1>8, <3>1
    <3>. QED
      BY <2>1, <2>2, <3>2
  <2>4. length = t + size + 1
    BY <2>1, <2>2
  <2>5. e = p + size + 1
    BY <1>4, <1>6, <1>9, <2>4
  <2>. QED
    BY <2>2, <2>3, <2>5
<1>13. ASSUME ~ContainsTimes(segment), NEW q \in (a + 1)..e, q # p
       PROVE  ~HoldsTimes(file[q])
  <2>1. PICK i \in 1..length : q = a + i
    <3>1. q - a \in 1..length /\ q = a + (q - a)
      BY <1>6
    <3>. QED
      BY <3>1
  <2>2. i # t
    BY <1>9, <1>13, <2>1
  <2>3. ~HoldsTimes(block[i])
    BY <1>2, <1>3, <1>4, <1>13, <2>2 DEF IsBlockOf
  <2>. QED
    BY <1>8, <2>1, <2>3
<1>14. IsCueAt(file, segment, a, p, e)
  BY <1>1, <1>3, <1>4, <1>5, <1>7, <1>10, <1>11, <1>12, <1>13 DEF IsCueAt
<1>. QED
  BY <1>3, <1>5, <1>14

\* The lines with times, and what a reader makes of each.
TimesOf(file) == {p \in DOMAIN file : HoldsTimes(file[p])}

EndAfter(file, p) ==
  CHOOSE m \in DOMAIN file :
    /\ m > p /\ file[m].is # "words"
    /\ \A k \in (p + 1)..(m - 1) : file[k].is = "words"

HasId(file, p) == p > 2 /\ file[p - 1].is = "words" /\ file[p - 2] = Blank

CueOf(file, p) == [id    |-> IF HasId(file, p) THEN file[p - 1] ELSE None,
                   start |-> Millis(file[p].times.start),
                   end   |-> Millis(file[p].times.end),
                   text  |-> SubSeq(file, p + 1, EndAfter(file, p) - 1)]

NthTime(file, k) ==
  CHOOSE p \in TimesOf(file) : Cardinality({m \in TimesOf(file) : m < p}) = k - 1

LEMMA CuesRead ==
  ASSUME NEW file
  PROVE  ReadWebVTT(file) =
           [k \in 1..Cardinality(TimesOf(file)) |-> CueOf(file, NthTime(file, k))]
  BY DEF ReadWebVTT, CueOf, EndAfter, HasId, NthTime, TimesOf

\* Every line with times makes a cue.
LEMMA EveryTimeIsRead ==
  ASSUME NEW file, IsLines(file), NEW p \in TimesOf(file)
  PROVE  \E k \in DOMAIN ReadWebVTT(file) : ReadWebVTT(file)[k] = CueOf(file, p)
<1>1. PICK all \in Nat : DOMAIN file = 1..all
  BY DEF IsLines
<1>2. PICK times : times = TimesOf(file)
  OBVIOUS
<1>3. times \subseteq 1..all /\ IsFiniteSet(1..all)
  BY <1>1, <1>2, FS_Interval DEF TimesOf
<1>4. IsFiniteSet(times) /\ p \in times
  BY <1>2, <1>3, FS_Subset
<1>5. PICK before : before = [q \in times |-> {m \in times : m < q}]
  OBVIOUS
<1>6. \A q \in times : q \in Nat
  BY <1>3
<1>7. StrictOrder(times, before)
  BY <1>5, <1>6 DEF StrictOrder
<1>8. PICK size \in Nat : size = Cardinality(times)
  BY <1>4, FS_CardinalityType
<1>9. PICK r \in Nat : r = Cardinality(before[p]) /\ r < size
  BY <1>4, <1>7, <1>8, RanksRise
<1>10. PICK k \in 1..size : k - 1 = r
  <2>1. r + 1 \in 1..size /\ (r + 1) - 1 = r
    BY <1>9
  <2>. QED
    BY <2>1
<1>11. PICK q : q = NthTime(file, k)
  OBVIOUS
<1>12. q \in times /\ Cardinality({m \in times : m < q}) = k - 1
  <2>1. Cardinality({m \in times : m < p}) = k - 1
    BY <1>4, <1>5, <1>9, <1>10
  <2>. QED
    BY <1>2, <1>4, <1>11, <2>1 DEF NthTime
<1>13. Cardinality(before[q]) = Cardinality(before[p])
  BY <1>5, <1>9, <1>10, <1>12
<1>14. q = p
  BY <1>4, <1>7, <1>12, <1>13, RanksRise
<1>15. ReadWebVTT(file) = [j \in 1..size |-> CueOf(file, NthTime(file, j))]
  BY <1>2, <1>8, CuesRead
<1>. QED
  BY <1>11, <1>14, <1>15

\* What a cue has of the segment in whose block it is.
LEMMA CueOfBlock ==
  ASSUME NEW file, IsLines(file), NEW segment, NEW a, NEW p, NEW e,
         IsCueAt(file, segment, a, p, e),
         0 <= segment.time.start, 0 <= segment.time.end
  PROVE  p \in TimesOf(file) /\ IsCueOf(CueOf(file, p), segment)
<1>1. PICK all \in Nat : all = Len(file) /\ DOMAIN file = 1..all
  BY DEF IsLines
<1>2. a \in Nat /\ p \in Nat /\ e \in Nat /\ 2 <= a /\ a + 2 <= p /\ p < e /\ e <= all
  BY <1>1 DEF IsCueAt
<1>3. file[p] = TimeLine(segment.time) /\ file[a] = Blank /\ file[e] = Blank
  BY DEF IsCueAt
<1>4. p \in TimesOf(file)
  <2>1. p \in DOMAIN file
    BY <1>1, <1>2
  <2>. QED
    BY <1>3, <2>1, TimesAreTimes DEF TimesOf, IsCueAt
<1>5. PICK cue : cue = CueOf(file, p)
  OBVIOUS
<1>6. cue.start = segment.time.start /\ cue.end = segment.time.end
  <2>1. segment.time.start \in Nat /\ segment.time.end \in Nat
    <3>1. segment.time.start \in Int /\ segment.time.end \in Int
      BY DEF IsCueAt, IsSegment
    <3>. QED
      BY <3>1
  <2>2. /\ file[p].times.start = vttTime(segment.time.start)
        /\ file[p].times.end = vttTime(segment.time.end)
    <3>1. file[p].times = [start |-> vttTime(segment.time.start), end |-> vttTime(segment.time.end)]
      BY <1>3, LineKinds
    <3>. QED
      BY <3>1
  <2>3. cue.start = Millis(file[p].times.start) /\ cue.end = Millis(file[p].times.end)
    BY <1>5 DEF CueOf
  <2>. QED
    BY <2>1, <2>2, <2>3, MillisBack
<1>7. ASSUME segment.id \notin DOMAIN Spelling  PROVE cue.id = IdLine(segment.id)
  <2>1. p = a + 2 /\ file[a + 1] = IdLine(segment.id)
    BY <1>7 DEF IsCueAt
  <2>2. p - 1 = a + 1 /\ p - 2 = a /\ p > 2
    BY <1>2, <2>1
  <2>3. HasId(file, p)
    BY <1>3, <2>1, <2>2, LineKinds DEF HasId
  <2>4. cue.id = file[p - 1]
    BY <1>5, <2>3 DEF CueOf
  <2>. QED
    BY <2>1, <2>2, <2>4
<1>8. ASSUME IsPlain(segment)  PROVE SaidIn(cue) = segment.text.lines
  <2>1. PICK lines \in Seq(Nat) : lines = segment.text.lines
    BY DEF IsCueAt, IsSegment
  <2>2. PICK size \in Nat : size = Len(lines) /\ DOMAIN lines = 1..size
    OBVIOUS
  <2>3. e = p + size + 1 /\ \A n \in 1..size : IsSaid(file[p + n], lines[n])
    BY <1>8, <2>1, <2>2 DEF IsCueAt
  <2>4. \A k \in (p + 1)..(e - 1) : file[k].is = "words"
    <3>. SUFFICES ASSUME NEW k \in (p + 1)..(e - 1)  PROVE file[k].is = "words"
      OBVIOUS
    <3>1. PICK n \in 1..size : k = p + n
      <4>1. k - p \in 1..size /\ k = p + (k - p)
        BY <1>2, <2>3
      <4>. QED
        BY <4>1
    <3>. QED
      BY <2>3, <3>1 DEF IsSaid
  <2>5. e \in DOMAIN file /\ e > p /\ file[e].is # "words"
    BY <1>1, <1>2, <1>3, LineKinds
  <2>6. EndAfter(file, p) = e
    <3>1. PICK m : m = EndAfter(file, p)
      OBVIOUS
    <3>2. /\ m \in DOMAIN file /\ m > p /\ file[m].is # "words"
          /\ \A k \in (p + 1)..(m - 1) : file[k].is = "words"
      BY <2>4, <2>5, <3>1 DEF EndAfter
    <3>3. m \in Nat
      BY <1>1, <3>2
    <3>4. ~(m < e)
      <4>1. SUFFICES ASSUME m < e  PROVE FALSE
        OBVIOUS
      <4>2. m \in (p + 1)..(e - 1)
        BY <1>2, <3>2, <3>3, <4>1
      <4>. QED
        BY <2>4, <3>2, <4>2
    <3>5. ~(e < m)
      <4>1. SUFFICES ASSUME e < m  PROVE FALSE
        OBVIOUS
      <4>2. e \in (p + 1)..(m - 1)
        BY <1>2, <3>3, <4>1
      <4>. QED
        BY <2>5, <3>2, <4>2
    <3>. QED
      BY <1>2, <3>1, <3>3, <3>4, <3>5
  <2>7. PICK first \in Nat, final \in Nat : first = p + 1 /\ final = e - 1
    <3>1. p + 1 \in Nat /\ e - 1 \in Nat
      BY <1>2
    <3>. QED
      BY <3>1
  <2>8. cue.text = SubSeq(file, first, final)
    BY <1>5, <2>6, <2>7 DEF CueOf
  <2>9. SubSeq(file, first, final) = [n \in 1..size |-> file[p + n]]
    <3>1. SubSeq(file, first, final) = [n \in 1..(final - first + 1) |-> file[n + first - 1]]
      BY DEF IsLines
    <3>2. final - first + 1 = size
      BY <1>2, <2>3, <2>7
    <3>3. \A n \in 1..size : n + first - 1 = p + n
      BY <1>2, <2>7
    <3>. QED
      BY <3>1, <3>2, <3>3
  <2>10. PICK said : said = [n \in 1..size |-> file[p + n]]
    OBVIOUS
  <2>11. SaidIn(cue) = [n \in 1..size |-> IF said[n].marked THEN None ELSE said[n].runes]
    BY <2>8, <2>9, <2>10 DEF SaidIn
  <2>12. \A n \in 1..size : ~said[n].marked /\ said[n].runes = lines[n]
    BY <2>3, <2>10 DEF IsSaid
  <2>13. SaidIn(cue) = [n \in 1..size |-> lines[n]]
    BY <2>11, <2>12
  <2>. QED
    BY <2>1, <2>2, <2>13
<1>9. IsCueOf(cue, segment)
  BY <1>6, <1>7, <1>8 DEF IsCueOf
<1>. QED
  BY <1>4, <1>5, <1>9

\* Without times in names and words, the lines with times are one of each block.
TimesAt(line, file, sorted, n, at) ==
  \A k \in 1..n : IsCueAt(file, sorted[k], at[k], line[k], at[k + 1])

NoOtherTimes(sorted, n) == \A k \in 1..n : ~ContainsTimes(sorted[k])

LEMMA TimesInTrack ==
  ASSUME NEW n \in Nat, NEW sorted, NEW at \in [1..(n + 1) -> Nat], NEW file,
         IsTrack(file, sorted, n, at), NoOtherTimes(sorted, n),
         NEW line, TimesAt(line, file, sorted, n, at)
  PROVE  TimesOf(file) = MembersOf(line, n)
<1>1. PICK all \in Nat : all = Len(file) /\ DOMAIN file = 1..all
  BY DEF IsTrack, IsLines
<1>2. ASSUME NEW k \in 1..n  PROVE line[k] \in TimesOf(file)
  <2>1. IsCueAt(file, sorted[k], at[k], line[k], at[k + 1])
    BY DEF TimesAt
  <2>2. PICK p : p = line[k]
    OBVIOUS
  <2>3. p \in 1..all /\ file[p] = TimeLine(sorted[k].time)
    BY <1>1, <2>1, <2>2 DEF IsCueAt
  <2>. QED
    BY <1>1, <2>1, <2>2, <2>3, TimesAreTimes DEF TimesOf, IsCueAt
<1>3. ASSUME NEW p \in TimesOf(file)  PROVE \E k \in 1..n : p = line[k]
  <2>1. p \in 1..all /\ HoldsTimes(file[p])
    BY <1>1 DEF TimesOf
  <2>2. p # 1 /\ p # 2
    BY <2>1, LineKinds DEF IsTrack, HoldsTimes
  <2>3. p \in 3..Len(file)
    BY <1>1, <2>1, <2>2
  <2>4. PICK k \in 1..n : \E i \in 1..Len(Block(sorted[k])) : p = at[k] + i
    BY <2>3 DEF IsTrack
  <2>5. PICK i \in 1..Len(Block(sorted[k])) : p = at[k] + i
    BY <2>4
  <2>6. p \in (at[k] + 1)..at[k + 1]
    <3>1. k \in 1..(n + 1)
      OBVIOUS
    <3>2. Len(Block(sorted[k])) \in Nat /\ at[k + 1] = at[k] + Len(Block(sorted[k]))
      BY TrackGrows
    <3>3. PICK a \in Nat, l \in Nat : a = at[k] /\ l = Len(Block(sorted[k])) /\ at[k + 1] = a + l
      BY <3>1, <3>2
    <3>4. i \in 1..l /\ p = a + i
      BY <2>5, <3>3
    <3>5. p \in (a + 1)..(a + l)
      BY <3>4
    <3>. QED
      BY <3>3, <3>5
  <2>7. IsCueAt(file, sorted[k], at[k], line[k], at[k + 1]) /\ ~ContainsTimes(sorted[k])
    BY DEF TimesAt, NoOtherTimes
  <2>8. p # line[k] => ~HoldsTimes(file[p])
    BY <2>6, <2>7 DEF IsCueAt
  <2>. QED
    BY <2>1, <2>8
<1>. QED
  BY <1>2, <1>3 DEF MembersOf

LEMMA CuesOfTrack ==
  ASSUME NEW n \in Nat, NEW sorted, NEW at \in [1..(n + 1) -> Nat], NEW file,
         IsTrack(file, sorted, n, at),
         NoOtherTimes(sorted, n), NEW line, TimesAt(line, file, sorted, n, at)
  PROVE  ReadWebVTT(file) = [k \in 1..n |-> CueOf(file, line[k])]
<1>1. PICK rise : rise = [k \in 1..n |-> line[k]]
  OBVIOUS
<1>2. rise \in [1..n -> Int] /\ \A k \in 1..n : rise[k] = line[k]
  <2>1. ASSUME NEW k \in 1..n  PROVE line[k] \in Int
    <3>1. IsCueAt(file, sorted[k], at[k], line[k], at[k + 1])
      BY DEF TimesAt
    <3>. QED
      BY <3>1 DEF IsCueAt
  <2>. QED
    BY <1>1, <2>1
<1>3. \A k \in 2..n : rise[k - 1] < rise[k]
  <2>1. SUFFICES ASSUME NEW k \in 2..n  PROVE rise[k - 1] < rise[k]
    OBVIOUS
  <2>2. PICK j \in 1..n : j = k - 1 /\ j + 1 = k /\ k \in 1..n
    OBVIOUS
  <2>3. /\ IsCueAt(file, sorted[j], at[j], line[j], at[j + 1])
        /\ IsCueAt(file, sorted[k], at[k], line[k], at[k + 1])
    BY <2>2 DEF TimesAt
  <2>4. PICK p \in Nat, q \in Nat, b \in Nat :
          p = line[j] /\ q = line[k] /\ b = at[k] /\ p < b /\ b + 2 <= q
    BY <2>2, <2>3 DEF IsCueAt
  <2>5. rise[k - 1] = p /\ rise[k] = q
    BY <1>2, <2>2, <2>4
  <2>6. p < q
    BY <2>4
  <2>. QED
    BY <2>5, <2>6
<1>4. PICK times : times = TimesOf(file)
  OBVIOUS
<1>5. times = MembersOf(rise, n)
  <2>1. TimesAt(rise, file, sorted, n, at)
    BY <1>2 DEF TimesAt
  <2>. QED
    BY <1>4, <2>1, TimesInTrack
<1>6. IsRanked(times, n, rise)
  BY <1>2, <1>3, <1>5, RanksAlong
<1>7. ReadWebVTT(file) = [k \in 1..n |-> CueOf(file, NthTime(file, k))]
  <2>1. Cardinality(times) = n
    BY <1>6 DEF IsRanked
  <2>. QED
    BY <1>4, <2>1, CuesRead
<1>8. \A k \in 1..n : NthTime(file, k) = line[k]
  BY <1>2, <1>4, <1>6 DEF IsRanked, NthTime
<1>. QED
  BY <1>7, <1>8

LEMMA SortedRises ==
  ASSUME NEW sent \in Texts, ValidateSegments(sent, Duration), NEW k \in 2..Len(sent)
  PROVE  Sorted(sent)[k - 1].time.start <= Sorted(sent)[k].time.start
<1>1. k \in DOMAIN sent /\ k - 1 \in DOMAIN sent /\ k \in Int
  BY PositionsOf
<1>2. PICK m \in DOMAIN sent : Cardinality(SortedBefore(sent, m)) = (k - 1) - 1
                               /\ Sorted(sent)[k - 1] = sent[m]
  BY <1>1, SortedHas
<1>3. PICK n \in DOMAIN sent : Cardinality(SortedBefore(sent, n)) = k - 1
                               /\ Sorted(sent)[k] = sent[n]
  BY <1>1, SortedHas
<1>4. Cardinality(Before(sent)[m]) < Cardinality(Before(sent)[n])
  BY <1>1, <1>2, <1>3 DEF Before
<1>5. m \in Before(sent)[n]
  BY <1>4, PositionsOf, TrackOrderIsStrict, RanksRise
<1>6. TrackOrder(sent[m], sent[n])
  BY <1>5, TrackOrderIsStrict DEF Before
<1>7. sent[m].time.start \in Int /\ sent[n].time.start \in Int
  <2>1. sent[m] \in Segments /\ sent[n] \in Segments
    BY DEF Texts
  <2>. QED
    BY <2>1, TextAssumption DEF IsSegment
<1>. QED
  BY <1>2, <1>3, <1>6, <1>7 DEF TrackOrder

\* Every segment is in the track.
LEMMA SortedHasAll ==
  ASSUME NEW sent \in Texts, ValidateSegments(sent, Duration), NEW n \in DOMAIN sent
  PROVE  \E k \in 1..Len(sent) : Sorted(sent)[k] = sent[n]
<1>1. PICK size \in Nat : size = Len(sent) /\ DOMAIN sent = 1..size
  BY PositionsOf
<1>2. Cardinality(Before(sent)[n]) \in 0..(Cardinality(DOMAIN sent) - 1)
  BY PositionsOf, TrackOrderIsStrict, RanksRise
<1>3. PICK r \in Nat : r = Cardinality(SortedBefore(sent, n)) /\ r \in 0..(size - 1)
  BY <1>1, <1>2, PositionsOf DEF Before
<1>4. PICK k \in 1..size : k = r + 1 /\ k - 1 = r
  BY <1>3
<1>5. PICK m \in DOMAIN sent : Cardinality(SortedBefore(sent, m)) = k - 1
                               /\ Sorted(sent)[k] = sent[m]
  BY <1>1, SortedHas
<1>6. m = n
  BY <1>3, <1>4, <1>5, RankIsOnes
<1>. QED
  BY <1>1, <1>5, <1>6

LEMMA ReadsBackStep == IsText => TrackReadsBack
<1>. SUFFICES ASSUME text \in Texts, Accepted,
                     NEW cues, cues = ReadWebVTT(BuildWebVTT(text))
              PROVE  /\ \A n \in DOMAIN text : \E k \in DOMAIN cues : IsCueOf(cues[k], text[n])
                     /\ (\A n \in DOMAIN text : ~ContainsTimes(text[n])) =>
                          /\ Len(cues) = Len(text)
                          /\ \A k \in 2..Len(cues) : cues[k - 1].start <= cues[k].start
  BY DEF TrackReadsBack, IsText
<1>1. PICK n \in Nat : n = Len(text) /\ DOMAIN text = 1..n
  BY PositionsOf
<1>2. PICK sorted, file : sorted = Sorted(text) /\ file = BuildWebVTT(text)
  OBVIOUS
<1>3. PICK at \in [1..(n + 1) -> Nat] : IsTrack(file, sorted, n, at)
  BY <1>1, <1>2, TrackOfText
<1>4. IsLines(file) /\ cues = ReadWebVTT(file)
  BY <1>2, <1>3 DEF IsTrack
<1>5. ASSUME NEW k \in 1..n
      PROVE  \E j \in 1..n : sorted[k] = text[j]
  <2>1. PICK j \in DOMAIN text : Sorted(text)[k] = text[j]
    BY <1>1, SortedHas DEF Accepted
  <2>. QED
    BY <1>1, <1>2, <2>1
<1>6. \A k \in 1..n : 0 <= sorted[k].time.start /\ 0 <= sorted[k].time.end
  <2>1. SUFFICES ASSUME NEW k \in 1..n  PROVE 0 <= sorted[k].time.start /\ 0 <= sorted[k].time.end
    OBVIOUS
  <2>2. PICK j \in DOMAIN text : sorted[k] = text[j]
    BY <1>1, <1>5
  <2>3. text[j].time.start \in Int /\ text[j].time.end \in Int
        /\ 0 <= text[j].time.start /\ text[j].time.start < text[j].time.end
    BY TimesAreNumbers DEF Accepted, ValidateSegments
  <2>. QED
    BY <2>2, <2>3
<1>7. PICK line : line = [k \in 1..n |-> CHOOSE p \in Nat :
                            IsCueAt(file, sorted[k], at[k], p, at[k + 1])]
  OBVIOUS
<1>8. ASSUME NEW k \in 1..n
      PROVE  /\ IsCueAt(file, sorted[k], at[k], line[k], at[k + 1])
             /\ line[k] \in TimesOf(file)
             /\ IsCueOf(CueOf(file, line[k]), sorted[k])
  <2>1. \E p \in Nat : IsCueAt(file, sorted[k], at[k], p, at[k + 1])
    BY <1>3, TrackBlock
  <2>2. IsCueAt(file, sorted[k], at[k], line[k], at[k + 1])
    BY <1>7, <2>1
  <2>. QED
    BY <1>4, <1>6, <2>2, CueOfBlock
<1>9. ASSUME NEW j \in DOMAIN text
      PROVE  \E k \in DOMAIN cues : IsCueOf(cues[k], text[j])
  <2>1. PICK i \in 1..n : sorted[i] = text[j]
    BY <1>1, <1>2, SortedHasAll DEF Accepted
  <2>2. PICK k \in DOMAIN cues : cues[k] = CueOf(file, line[i])
    BY <1>4, <1>8, EveryTimeIsRead
  <2>. QED
    BY <1>8, <2>1, <2>2
<1>10. ASSUME \A j \in DOMAIN text : ~ContainsTimes(text[j])
       PROVE  Len(cues) = n /\ \A k \in 2..n : cues[k - 1].start <= cues[k].start
  <2>1. NoOtherTimes(sorted, n) /\ TimesAt(line, file, sorted, n, at)
    BY <1>1, <1>5, <1>8, <1>10 DEF NoOtherTimes, TimesAt
  <2>2. cues = [k \in 1..n |-> CueOf(file, line[k])]
    BY <1>3, <1>4, <2>1, CuesOfTrack
  <2>3. Len(cues) = n
    BY <2>2
  <2>4. ASSUME NEW k \in 1..n  PROVE cues[k].start = sorted[k].time.start
    BY <1>8, <2>2 DEF IsCueOf
  <2>5. ASSUME NEW k \in 2..n  PROVE cues[k - 1].start <= cues[k].start
    <3>1. k - 1 \in 1..n /\ k \in 1..n /\ k \in 2..Len(text)
      BY <1>1
    <3>2. sorted[k - 1].time.start <= sorted[k].time.start
      BY <1>2, <3>1, SortedRises DEF Accepted
    <3>. QED
      BY <2>4, <3>1, <3>2
  <2>. QED
    BY <2>3, <2>5
<1>. QED
  BY <1>1, <1>9, <1>10

\* Whatever the names and words of an accepted revision are, a player finds each
\* of its captions in the track, at its times and, where they are plain, with its
\* identifier and its words; and it finds no others, in the order of their
\* starts, unless a name or a text holds a line of times.
THEOREM TracksReadBack == Spec => []TrackReadsBack
  BY TextType, ReadsBackStep, PTL
=============================================================================
