------------------------ MODULE CaptionQueriesProofs -----------------------
(***************************************************************************)
(* Theorems about what is made of the workflow's rows: the answers of      *)
(* CaptionQueries, for texts of any length and any limits, and the         *)
(* SelfCheck, for any number of checks that break off anywhere.            *)
(*                                                                         *)
(* What ties a query to the rules is CheckedByRules: the findings kept for *)
(* a revision are, whatever became of them, those the rules of its job     *)
(* report on its text.                                                     *)
(*                                                                         *)
(* What ties the self checks together is their one script: RInv says how   *)
(* much of it was carried out, what rows that has left, and that no check  *)
(* is ahead of it.                                                         *)
(***************************************************************************)
EXTENDS SelfCheck, CaptionLedgerProofs, OrderLemmas

(***************************************************************************)
(* Texts.                                                                  *)
(***************************************************************************)
LEMMA ContentShape ==
  ASSUME NEW c \in Contents
  PROVE  /\ Len(c) \in Nat /\ Len(c) >= 1 /\ DOMAIN c = 1..Len(c)
         /\ \A n \in 1..Len(c) :
              /\ Rules!IsSegment(c[n])
              /\ c[n].time.start \in Int /\ c[n].time.end \in Int
              /\ c[n].time.start < c[n].time.end
         /\ \A n \in 2..Len(c) : c[n - 1].time.start <= c[n].time.start
         /\ \A m, n \in 1..Len(c) : c[m].id = c[n].id => m = n
<1>1. Rules!IsSegmentList(c) /\ Rules!ValidateSegments(c, Duration)
  BY QueriesAssumption
<1>2. PICK S : c \in Seq(S)
  BY <1>1 DEF Rules!IsSegmentList
<1>3. Len(c) \in Nat /\ DOMAIN c = 1..Len(c) /\ c # <<>>
  BY <1>1, <1>2 DEF Rules!ValidateSegments
<1>4. Len(c) >= 1
  BY <1>2, <1>3
<1>5. \A n \in 1..Len(c) : Rules!IsSegment(c[n])
  BY <1>1, <1>3 DEF Rules!IsSegmentList
<1>6. \A n \in 1..Len(c) :
        c[n].time.start \in Int /\ c[n].time.end \in Int /\ c[n].time.start < c[n].time.end
  BY <1>1, <1>3, <1>5 DEF Rules!IsSegment, Rules!ValidateSegments
<1>7. \A n \in 2..Len(c) : c[n - 1].time.start <= c[n].time.start
  BY <1>1 DEF Rules!ValidateSegments, Rules!StartsInOrder
<1>8. \A m, n \in 1..Len(c) : c[m].id = c[n].id => m = n
  BY <1>1, <1>3 DEF Rules!ValidateSegments
<1>. QED
  BY <1>3, <1>4, <1>5, <1>6, <1>7, <1>8

\* A text has as many identifiers as segments, and each leads to its segment.
LEMMA IdsOfContent ==
  ASSUME NEW c \in Contents
  PROVE  /\ IsFiniteSet(SegmentIDs(c)) /\ Cardinality(SegmentIDs(c)) = Len(c)
         /\ SegmentIDs(c) = {c[n].id : n \in 1..Len(c)}
         /\ \A n \in 1..Len(c) : SegmentOf(c, c[n].id) = c[n]
<1>0. Len(c) \in Nat /\ DOMAIN c = 1..Len(c)
      /\ \A m, n \in 1..Len(c) : c[m].id = c[n].id => m = n
  BY ContentShape
<1>1. SegmentIDs(c) = {c[n].id : n \in 1..Len(c)}
  BY <1>0 DEF SegmentIDs
<1>2. PICK f : f = [n \in 1..Len(c) |-> c[n].id]
  OBVIOUS
<1>3. f \in Bijection(1..Len(c), SegmentIDs(c))
  BY <1>0, <1>1, <1>2 DEF Bijection, Injection, Surjection, IsInjective
<1>4. ExistsBijection(1..Len(c), SegmentIDs(c))
  BY <1>3 DEF ExistsBijection
<1>5. IsFiniteSet(1..Len(c)) /\ Cardinality(1..Len(c)) = Len(c)
  BY <1>0, FS_Interval
<1>6. IsFiniteSet(SegmentIDs(c)) /\ Cardinality(SegmentIDs(c)) = Len(c)
  BY <1>4, <1>5, FS_Bijection
<1>7. ASSUME NEW n \in 1..Len(c)  PROVE SegmentOf(c, c[n].id) = c[n]
  <2>1. PICK m : m = CHOOSE k \in DOMAIN c : c[k].id = c[n].id
    OBVIOUS
  <2>2. m \in DOMAIN c /\ c[m].id = c[n].id
    BY <1>0, <2>1
  <2>3. m = n
    BY <1>0, <2>2
  <2>. QED
    BY <2>1, <2>3 DEF SegmentOf
<1>. QED
  BY <1>1, <1>6, <1>7

(***************************************************************************)
(* The track of a text: it is a sequence of lines, and one of them holds   *)
(* the times of a cue.                                                     *)
(***************************************************************************)
\* QualityRules has these operators from the same modules.
LEMMA SameCardinality ==
  ASSUME NEW S
  PROVE  Rules!Cardinality(S) = Cardinality(S)
  BY DEF Rules!Cardinality, Cardinality

LEMMA SameFlattenSeq ==
  ASSUME NEW seqs
  PROVE  Rules!FlattenSeq(seqs) = FlattenSeq(seqs)
  BY DEF Rules!FlattenSeq, FlattenSeq

BeforeInTrack(c) == [n \in DOMAIN c |-> Rules!SortedBefore(c, n)]

LEMMA ContentIsOrdered ==
  ASSUME NEW c \in Contents
  PROVE  StrictOrder(DOMAIN c, BeforeInTrack(c))
<1>1. /\ Len(c) \in Nat /\ DOMAIN c = 1..Len(c)
      /\ \A n \in 1..Len(c) : Rules!IsSegment(c[n])
      /\ \A m, n \in 1..Len(c) : c[m].id = c[n].id => m = n
  BY ContentShape
<1>2. \A n \in DOMAIN c : c[n].id # None
  BY QueriesAssumption DEF Rules!ValidateSegments
<1>3. ASSUME NEW n \in DOMAIN c  PROVE c[n].time.start \in Int /\ c[n].id \in Int
  BY <1>1, <1>2 DEF Rules!IsSegment
<1>4. PICK start \in [DOMAIN c -> Int], id \in [DOMAIN c -> Int] :
        \A n \in DOMAIN c : start[n] = c[n].time.start /\ id[n] = c[n].id
  <2>1. PICK start, id : /\ start = [n \in DOMAIN c |-> c[n].time.start]
                         /\ id = [n \in DOMAIN c |-> c[n].id]
    OBVIOUS
  <2>. QED
    BY <1>3, <2>1
<1>. DEFINE Less(m, n) == start[m] < start[n] \/ (start[m] = start[n] /\ id[m] < id[n])
<1>5. ASSUME NEW m \in DOMAIN c, NEW n \in DOMAIN c
      PROVE  /\ Rules!TrackOrder(c[m], c[n]) <=> Less(m, n)
             /\ id[m] = id[n] => m = n
  BY <1>1, <1>4 DEF Rules!TrackOrder
<1>6. PICK before : before = BeforeInTrack(c)
  OBVIOUS
<1>7. ASSUME NEW m \in DOMAIN c, NEW n \in DOMAIN c
      PROVE  m \in before[n] <=> Less(m, n)
  <2>1. m \in before[n] <=> Less(m, n) \/ (~Less(n, m) /\ m < n)
    BY <1>5, <1>6 DEF BeforeInTrack, Rules!SortedBefore
  <2>2. m = n => ~(m < n)
    BY <1>1
  <2>3. m # n => Less(m, n) \/ Less(n, m)
    BY <1>5
  <2>. QED
    BY <2>1, <2>2, <2>3
<1>8. \A n \in DOMAIN c : before[n] \in SUBSET DOMAIN c
  BY <1>6 DEF BeforeInTrack, Rules!SortedBefore
<1>9. \A n \in DOMAIN c : n \notin before[n]
  BY <1>7
<1>10. \A m, n \in DOMAIN c : m # n => m \in before[n] \/ n \in before[m]
  BY <1>5, <1>7
<1>11. ASSUME NEW m \in DOMAIN c, NEW n \in DOMAIN c, m \in before[n], NEW k \in before[m]
       PROVE  k \in before[n]
  <2>1. k \in DOMAIN c
    BY <1>8
  <2>2. Less(m, n) /\ Less(k, m)
    BY <1>7, <1>11, <2>1
  <2>3. Less(k, n)
    BY <2>1, <2>2
  <2>. QED
    BY <1>7, <2>1, <2>3
<1>. QED
  BY <1>6, <1>8, <1>9, <1>10, <1>11 DEF StrictOrder

LEMMA SortedContent ==
  ASSUME NEW c \in Contents
  PROVE  /\ DOMAIN Rules!Sorted(c) = 1..Len(c)
         /\ \A k \in 1..Len(c) : Rules!IsSegment(Rules!Sorted(c)[k])
<1>1. PICK n \in Nat : n = Len(c) /\ DOMAIN c = 1..n
  BY ContentShape
<1>2. IsFiniteSet(1..n) /\ Cardinality(1..n) = n
  BY FS_Interval
<1>3. \A m \in DOMAIN c : Rules!IsSegment(c[m])
  BY <1>1, ContentShape
<1>4. ASSUME NEW k \in 1..n  PROVE Rules!IsSegment(Rules!Sorted(c)[k])
  <2>1. PICK before : before = BeforeInTrack(c)
    OBVIOUS
  <2>2. StrictOrder(1..n, before)
    BY <1>1, <2>1, ContentIsOrdered
  <2>3. k \in 1..Cardinality(1..n)
    BY <1>2
  <2>4. PICK m \in 1..n : Cardinality(before[m]) = k - 1
    BY <1>2, <2>2, <2>3, EveryRank
  <2>5. Rules!Cardinality(Rules!SortedBefore(c, m)) = k - 1 /\ m \in DOMAIN c
    BY <1>1, <2>1, <2>4, SameCardinality DEF BeforeInTrack
  <2>6. PICK j : j = CHOOSE i \in DOMAIN c :
                       Rules!Cardinality(Rules!SortedBefore(c, i)) = k - 1
    OBVIOUS
  <2>7. j \in DOMAIN c
    BY <2>5, <2>6
  <2>8. Rules!Sorted(c)[k] = c[j]
    BY <1>1, <2>6 DEF Rules!Sorted
  <2>. QED
    BY <1>3, <2>7, <2>8
<1>5. DOMAIN Rules!Sorted(c) = 1..n
  BY <1>1 DEF Rules!Sorted
<1>. QED
  BY <1>1, <1>4, <1>5

\* The lines of a block, and among them the one with the times of its cue.
TimedAt(block, t) == t \in 1..Len(block) /\ Rules!HoldsTimes(block[t])

LinesOf(block) == {block[n] : n \in 1..Len(block)}

LEMMA BlockIsTimed ==
  ASSUME NEW segment, Rules!IsSegment(segment)
  PROVE  /\ Rules!Block(segment) \in Seq(LinesOf(Rules!Block(segment)))
         /\ \E t \in Nat : TimedAt(Rules!Block(segment), t)
<1>1. PICK time : time = Rules!TimeLine(segment.time)
  OBVIOUS
<1>2. Rules!HoldsTimes(time)
  <2>1. segment.time.start \in Int /\ segment.time.end \in Int
    BY DEF Rules!IsSegment
  <2>2. ASSUME NEW ms \in Int  PROVE Rules!vttTime(ms) \in Seq(Int)
    BY DEF Rules!vttTime
  <2>3. PICK from, to : /\ from = Rules!vttTime(segment.time.start)
                        /\ to = Rules!vttTime(segment.time.end)
    OBVIOUS
  <2>4. from \in Seq(Int) /\ to \in Seq(Int)
    BY <2>1, <2>2, <2>3
  <2>5. [start |-> from, end |-> to] \in [start : Seq(Int), end : Seq(Int)]
    BY <2>4
  <2>6. [start |-> from, end |-> to] # None
    BY <2>5, QueriesAssumption
  <2>7. time = [is |-> "arrow", times |-> [start |-> from, end |-> to]]
    BY <1>1, <2>3 DEF Rules!TimeLine, Rules!Arrow
  <2>8. time.is = "arrow" /\ time.times = [start |-> from, end |-> to]
    BY <2>7
  <2>. QED
    BY <2>6, <2>8 DEF Rules!HoldsTimes
<1>3. PICK lines \in Seq(Nat) : lines = segment.text.lines
  BY DEF Rules!IsSegment
<1>4. PICK size \in Nat : size = Len(lines) /\ DOMAIN lines = 1..size
  OBVIOUS
<1>5. PICK ids, voice, body :
        /\ ids = Rules!IdLines(segment.id) /\ voice = Rules!VoiceLines(segment.speaker)
        /\ body = [n \in 1..size |-> Rules!TextLine(segment, n)]
  OBVIOUS
<1>6. PICK I : ids \in Seq(I)
  <2>1. CASE segment.id \in DOMAIN Spelling
    BY <1>5, <2>1 DEF Rules!IdLines, Rules!IsSegment, Rules!IsWritten
  <2>2. CASE segment.id \notin DOMAIN Spelling
    <3>1. PICK line : line = Rules!IdLine(segment.id)
      OBVIOUS
    <3>2. ids = <<line>>
      BY <1>5, <2>2, <3>1 DEF Rules!IdLines
    <3>3. ids \in Seq({line})
      BY <3>2
    <3>. QED
      BY <3>3
  <2>. QED
    BY <2>1, <2>2
<1>7. PICK V : voice \in Seq(V)
  <2>1. CASE segment.speaker = None
    BY <1>5, <2>1 DEF Rules!VoiceLines
  <2>2. CASE segment.speaker # None
    <3>1. PICK name : name = segment.speaker.lines
      OBVIOUS
    <3>2. name # <<>> /\ name \in Seq({name[n] : n \in DOMAIN name})
      BY <2>2, <3>1 DEF Rules!IsSegment, Rules!IsWritten
    <3>3. PICK k \in Nat : k = Len(name) - 1
      BY <3>2
    <3>4. voice = [n \in 1..k |->
                     IF n > 1 THEN name[n]
                     ELSE IF name[1].is = "arrow" THEN Rules!Arrow(None) ELSE Rules!Words(TRUE)]
      BY <1>5, <2>2, <3>1, <3>3 DEF Rules!VoiceLines
    <3>5. PICK all : all = {voice[n] : n \in 1..k}
      OBVIOUS
    <3>6. voice \in [1..k -> all]
      BY <3>4, <3>5
    <3>7. voice \in Seq(all)
      BY <3>6
    <3>. QED
      BY <3>7
  <2>. QED
    BY <2>1, <2>2
<1>8. PICK B : body \in Seq(B)
  <2>1. PICK all : all = {body[n] : n \in 1..size}
    OBVIOUS
  <2>2. body \in [1..size -> all]
    BY <1>5, <2>1
  <2>3. body \in Seq(all)
    BY <2>2
  <2>. QED
    BY <2>3
<1>9. PICK X : X = I \cup V \cup B \cup {time, Rules!Blank}
  OBVIOUS
<1>10. /\ ids \in Seq(X) /\ voice \in Seq(X) /\ body \in Seq(X)
       /\ <<time>> \in Seq(X) /\ <<Rules!Blank>> \in Seq(X)
  <2>1. I \subseteq X /\ V \subseteq X /\ B \subseteq X /\ time \in X /\ Rules!Blank \in X
    BY <1>9
  <2>2. ids \in Seq(X)
    BY <1>6, <2>1
  <2>3. voice \in Seq(X)
    BY <1>7, <2>1
  <2>4. body \in Seq(X)
    BY <1>8, <2>1
  <2>. QED
    BY <2>1, <2>2, <2>3, <2>4
<1>11. PICK b, c, d, block :
         /\ b = ids \o <<time>> /\ c = b \o voice /\ d = c \o body
         /\ block = d \o <<Rules!Blank>>
  OBVIOUS
<1>12. b \in Seq(X) /\ c \in Seq(X) /\ d \in Seq(X) /\ block \in Seq(X)
  BY <1>10, <1>11
<1>13. PICK t \in Nat : t \in 1..Len(b) /\ b[t] = time
  <2>1. PICK i \in Nat : i = Len(ids)
    BY <1>10
  <2>2. Len(b) = i + 1 /\ b[i + 1] = time
    BY <1>10, <1>11, <2>1
  <2>. QED
    BY <2>1, <2>2
<1>14. t \in 1..Len(c) /\ c[t] = time
  BY <1>10, <1>11, <1>12, <1>13, StaysInJoin
<1>15. t \in 1..Len(d) /\ d[t] = time
  BY <1>10, <1>11, <1>12, <1>14, StaysInJoin
<1>16. t \in 1..Len(block) /\ block[t] = time
  BY <1>10, <1>11, <1>12, <1>15, StaysInJoin
<1>17. Rules!Block(segment) = block
  BY <1>1, <1>3, <1>4, <1>5, <1>11 DEF Rules!Block
<1>18. block \in Seq(LinesOf(block))
  BY <1>12, OwnMembers DEF LinesOf
<1>. QED
  BY <1>2, <1>16, <1>17, <1>18 DEF TimedAt

\* So no track is as short as a check refuses.
LEMMA TracksAreLong ==
  ASSUME NEW c \in Contents
  PROVE  Rules!BytesAtLeast(WebVTT[c]) \in Nat /\ Rules!BytesAtLeast(WebVTT[c]) >= 20
<1>1. PICK n \in Nat : n = Len(c) /\ n >= 1 /\ n # 0
  BY ContentShape
<1>2. PICK sorted : sorted = Rules!Sorted(c)
  OBVIOUS
<1>3. DOMAIN sorted = 1..n /\ \A k \in 1..n : Rules!IsSegment(sorted[k])
  BY <1>1, <1>2, SortedContent
<1>4. PICK blocks : blocks = [k \in 1..n |-> Rules!Block(sorted[k])]
  OBVIOUS
<1>5. PICK X : X = (UNION {LinesOf(blocks[k]) : k \in 1..n}) \cup {Rules!Header, Rules!Blank}
  OBVIOUS
<1>6. blocks \in [1..n -> Seq(X)]
  <2>1. SUFFICES ASSUME NEW k \in 1..n  PROVE blocks[k] \in Seq(X)
    BY <1>4
  <2>2. blocks[k] \in Seq(LinesOf(blocks[k]))
    BY <1>3, <1>4, BlockIsTimed
  <2>3. LinesOf(blocks[k]) \subseteq X
    BY <1>5
  <2>. QED
    BY <2>2, <2>3
<1>7. PICK flat, start, file :
        flat = FlattenSeq(blocks) /\ start = <<Rules!Header, Rules!Blank>> /\ file = start \o flat
  OBVIOUS
<1>8. flat \in Seq(X)
  BY <1>1, <1>6, <1>7, FlattenPlaces
<1>9. PICK at \in [1..(n + 1) -> Nat] : Places(blocks, n, flat, at)
  BY <1>1, <1>6, <1>7, FlattenPlaces
<1>10. PICK p \in 1..Len(flat) : Rules!HoldsTimes(flat[p])
  <2>1. n \in 1..n /\ n \in 1..(n + 1) /\ n + 1 \in 1..(n + 1)
    BY <1>1
  <2>2. PICK t \in Nat : TimedAt(blocks[n], t)
    BY <1>3, <1>4, <2>1, BlockIsTimed
  <2>3. PICK before \in Nat, size \in Nat : before = at[n] /\ size = Len(blocks[n])
    <3>1. Len(blocks[n]) \in Nat
      BY <1>6, <2>1
    <3>. QED
      BY <2>1, <3>1
  <2>4. /\ Len(flat) = before + size /\ t \in 1..size
        /\ Rules!HoldsTimes(blocks[n][t]) /\ flat[before + t] = blocks[n][t]
    BY <1>9, <2>1, <2>2, <2>3 DEF Places, TimedAt
  <2>5. before + t \in 1..Len(flat)
    BY <2>3, <2>4
  <2>. QED
    BY <2>4, <2>5
<1>11. start \in Seq(X) /\ Len(start) = 2
  <2>1. Rules!Header \in X /\ Rules!Blank \in X
    BY <1>5
  <2>. QED
    BY <1>7, <2>1
<1>12. file \in Seq(X) /\ IsJoin(file, start, flat)
  BY <1>7, <1>8, <1>11, Concatenation
<1>13. WebVTT[c] = file
  <2>1. [k \in DOMAIN sorted |-> Rules!Block(sorted[k])] = blocks
    BY <1>3, <1>4
  <2>. QED
    BY <1>2, <1>7, <2>1, SameFlattenSeq, QueriesAssumption DEF Rules!BuildWebVTT
<1>14. PICK timed : timed = {k \in DOMAIN file : Rules!HoldsTimes(file[k])}
  OBVIOUS
<1>15. 2 + p \in timed
  <2>1. PICK size \in Nat : size = Len(flat) /\ p \in 1..size
    BY <1>8
  <2>2. Len(file) = 2 + size /\ file[2 + p] = flat[p]
    BY <1>11, <1>12, <2>1 DEF IsJoin
  <2>3. 2 + p \in DOMAIN file
    BY <1>12, <2>1, <2>2
  <2>. QED
    BY <1>10, <1>14, <2>2, <2>3
<1>16. IsFiniteSet(timed)
  <2>1. PICK size \in Nat : size = Len(file) /\ DOMAIN file = 1..size
    BY <1>12
  <2>2. IsFiniteSet(1..size)
    BY FS_Interval
  <2>. QED
    BY <1>14, <2>1, <2>2, FS_Subset
<1>17. PICK count \in Nat : count = Cardinality(timed) /\ count # 0
  BY <1>15, <1>16, FS_CardinalityType, FS_EmptySet
<1>18. Rules!BytesAtLeast(file) = 8 + 30 * count
  BY <1>14, <1>17, SameCardinality DEF Rules!BytesAtLeast
<1>. QED
  BY <1>13, <1>17, <1>18

----------------------------------------------------------------------------
(***************************************************************************)
(* Findings are what the rules report, as long as the revision is kept.    *)
(***************************************************************************)
ProfileOf(r) == jobs[revisions[r].job].profile

CheckedByRules ==
  \A r \in Revisions : batches[r] > 0 =>
    /\ revisions[r].job \in Jobs
    /\ jobs[revisions[r].job].status # "absent"
    /\ ProfileOf(r) \in KnownProfiles
    /\ FoundIn(r) = Evaluate[ProfileOf(r), ContentOf(r)]

\* A job keeps its profile, and is not forgotten.
JobsKept ==
  \A k \in Jobs : jobs[k].status # "absent" =>
    jobs'[k].profile = jobs[k].profile /\ jobs'[k].status # "absent"

LEMMA CommitKeepsJobs ==
  ASSUME TypeOK, NEW op, NEW j \in Jobs, NEW key, NEW row \in JobRows,
         Commit(op, j, key, row),
         jobs[j].status # "absent" => row.profile = jobs[j].profile /\ row.status # "absent"
  PROVE  JobsKept
<1>1. jobs' = [jobs EXCEPT ![j] = [row EXCEPT !.version = jobs[j].version + 1]]
      /\ jobs \in [Jobs -> JobRows]
  BY DEF Commit, TypeOK, LedgerTypeOK
<1>2. jobs'[j].profile = row.profile /\ jobs'[j].status = row.status
  BY <1>1 DEF JobRows
<1>3. \A k \in Jobs : k # j => jobs'[k] = jobs[k]
  BY <1>1
<1>. QED
  BY <1>2, <1>3 DEF JobsKept

LEMMA CommandKeepsJobs ==
  ASSUME TypeOK, NEW j \in Jobs, NEW expected, NEW key \in Keys,
         Command(j, expected, key)
  PROVE  JobsKept
<1>0. jobs[j] \in JobRows
  BY DEF TypeOK, LedgerTypeOK
<1>1. ASSUME NEW op, NEW status \in Statuses,
             Commit(op, j, key, [jobs[j] EXCEPT !.status = status])
      PROVE  JobsKept
  <2>1. [jobs[j] EXCEPT !.status = status] \in JobRows
        /\ [jobs[j] EXCEPT !.status = status].profile = jobs[j].profile
        /\ [jobs[j] EXCEPT !.status = status].status = status /\ status # "absent"
    BY <1>0 DEF JobRows, Statuses
  <2>. QED
    BY <1>1, <2>1, CommitKeepsJobs
<1>2. \A rows : StatusAfterFindings(rows) \in Statuses
  BY DEF StatusAfterFindings, Statuses
<1>3. CASE SubmitRevision(j, expected, key)
  <2>1. PICK r \in Revisions :
          Commit("submit_revision", j, key,
                 [jobs[j] EXCEPT !.current = r,
                    !.status = IF NextSequence(j) > 1 THEN "remediating" ELSE "draft"])
    BY <1>3 DEF SubmitRevision
  <2>2. PICK row : row = [jobs[j] EXCEPT !.current = r,
                    !.status = IF NextSequence(j) > 1 THEN "remediating" ELSE "draft"]
    OBVIOUS
  <2>3. row \in JobRows /\ row.profile = jobs[j].profile /\ row.status # "absent"
    BY <1>0, <2>2 DEF JobRows, Statuses
  <2>. QED
    BY <2>1, <2>2, <2>3, CommitKeepsJobs
<1>4. CASE RunQuality(j, expected, key)
  BY <1>1, <1>2, <1>4 DEF RunQuality
<1>5. CASE DispositionFinding(j, expected, key)
  BY <1>1, <1>2, <1>5 DEF DispositionFinding, Dispose
<1>6. CASE BatchDisposition(j, expected, key)
  BY <1>1, <1>2, <1>6 DEF BatchDisposition, Dispose
<1>7. CASE Review(j, expected, key)
  <2>1. PICK decision \in Decisions :
          Commit("review", j, key, [jobs[j] EXCEPT !.status = StatusAfterReview(decision)])
    BY <1>7 DEF Review
  <2>2. StatusAfterReview(decision) \in Statuses
    BY DEF StatusAfterReview, Statuses
  <2>. QED
    BY <1>1, <2>1, <2>2
<1>8. CASE Freeze(j, expected, key)
  BY <1>1, <1>8 DEF Freeze, Statuses
<1>9. CASE VerifyAndRecord(j, expected, key)
  BY <1>0, <1>9, CommitKeepsJobs DEF VerifyAndRecord
<1>. QED
  BY <1>3, <1>4, <1>5, <1>6, <1>7, <1>8, <1>9 DEF Command

LEMMA StepKeepsJobs ==
  ASSUME TypeOK, [Next]_vars
  PROVE  JobsKept
<1>1. ASSUME NEW j \in Jobs, NEW key \in Keys, CreateJob(j, key)  PROVE JobsKept
  <2>1. jobs[j].status = "absent"
        /\ \E profile \in Profiles :
             Commit("create_job", j, key,
                    [AbsentJob EXCEPT !.status = "draft", !.profile = profile])
    BY <1>1 DEF CreateJob
  <2>2. \A profile \in Profiles :
          [AbsentJob EXCEPT !.status = "draft", !.profile = profile] \in JobRows
    BY DEF AbsentJob, JobRows, Statuses
  <2>. QED
    BY <2>1, <2>2, CommitKeepsJobs
<1>2. ASSUME NEW j \in Jobs, NEW expected \in 1..MaxVersion, Inquiry(j, expected)
      PROVE  JobsKept
  BY <1>2 DEF Inquiry, PreflightRevision, FreezePreview, ledger, JobsKept
<1>3. ASSUME NEW op \in Ops, NEW key \in Keys, Replay(op, key)  PROVE JobsKept
  BY <1>3 DEF Replay, vars, ledger, JobsKept
<1>4. CASE UNCHANGED vars
  BY <1>4 DEF vars, ledger, JobsKept
<1>. QED
  BY <1>1, <1>2, <1>3, <1>4, CommandKeepsJobs DEF Next

LEMMA CheckedFrame ==
  ASSUME CheckedByRules, EvidenceGrows, JobsKept,
         NEW r \in Revisions, batches[r] > 0, FoundIn(r)' = FoundIn(r)
  PROVE  /\ revisions'[r].job \in Jobs
         /\ jobs'[revisions'[r].job].status # "absent"
         /\ ProfileOf(r)' \in KnownProfiles
         /\ FoundIn(r)' = Evaluate[ProfileOf(r)', ContentOf(r)']
<1>1. /\ revisions[r].job \in Jobs
      /\ jobs[revisions[r].job].status # "absent"
      /\ ProfileOf(r) \in KnownProfiles
      /\ FoundIn(r) = Evaluate[ProfileOf(r), ContentOf(r)]
  BY DEF CheckedByRules
<1>2. revisions'[r] = revisions[r]
  BY <1>1, WorkflowAssumption DEF EvidenceGrows, RevisionKept
<1>3. jobs'[revisions[r].job].profile = jobs[revisions[r].job].profile
      /\ jobs'[revisions[r].job].status # "absent"
  BY <1>1 DEF JobsKept
<1>4. ProfileOf(r)' = ProfileOf(r) /\ ContentOf(r)' = ContentOf(r)
  BY <1>2, <1>3 DEF ProfileOf, ContentOf
<1>. QED
  BY <1>1, <1>2, <1>3, <1>4

LEMMA CheckedUntouched ==
  ASSUME CheckedByRules, EvidenceGrows, JobsKept, UNCHANGED <<findings, batches>>
  PROVE  CheckedByRules'
<1>1. \A r \in Revisions : FoundIn(r)' = FoundIn(r)
  BY DEF FoundIn
<1>. QED
  BY <1>1, CheckedFrame DEF CheckedByRules

LEMMA RunQualityChecks ==
  ASSUME IInv, CheckedByRules, EvidenceGrows, JobsKept,
         NEW j \in Jobs, NEW expected, NEW key \in Keys, RunQuality(j, expected, key)
  PROVE  CheckedByRules'
<1>1. PICK c, rows : c = Current(j) /\ rows = FindingRows(jobs[j].profile, ContentOf(c))
  OBVIOUS
<1>2. /\ c # None /\ jobs[j].profile \in KnownProfiles /\ jobs[j].status # "absent"
      /\ findings' = [findings EXCEPT ![c] = rows]
      /\ batches' = [batches EXCEPT ![c] = @ + 1]
      /\ revisions' = revisions
  BY <1>1 DEF RunQuality, Admit
<1>3. c \in Revisions /\ revisions[c].job = j /\ ContentOf(c) \in Contents
  BY <1>1, <1>2, CurrentIsRow DEF IInv
<1>4. findings \in [Revisions -> [Issues -> Dispositions]] /\ batches \in [Revisions -> Nat]
  BY DEF IInv, TypeOK, EvidenceTypeOK
<1>5. FoundIn(c)' = Evaluate[jobs[j].profile, ContentOf(c)]
  <2>1. findings'[c] = rows
    BY <1>2, <1>3, <1>4
  <2>2. Evaluate[jobs[j].profile, ContentOf(c)] \subseteq Issues
    BY <1>2, <1>3, DomainAssumption
  <2>. QED
    BY <1>1, <2>1, <2>2 DEF FoundIn, FindingRows
<1>6. jobs'[j].profile = jobs[j].profile /\ jobs'[j].status # "absent"
  BY <1>2 DEF JobsKept
<1>7. ASSUME NEW r \in Revisions, batches'[r] > 0
      PROVE  /\ revisions'[r].job \in Jobs
             /\ jobs'[revisions'[r].job].status # "absent"
             /\ ProfileOf(r)' \in KnownProfiles
             /\ FoundIn(r)' = Evaluate[ProfileOf(r)', ContentOf(r)']
  <2>1. CASE r = c
    BY <1>2, <1>3, <1>5, <1>6, <2>1 DEF ProfileOf, ContentOf
  <2>2. CASE r # c
    <3>1. findings'[r] = findings[r] /\ batches'[r] = batches[r]
      BY <1>2, <1>4, <2>2
    <3>2. FoundIn(r)' = FoundIn(r)
      BY <3>1 DEF FoundIn
    <3>. QED
      BY <1>7, <3>1, <3>2, CheckedFrame
  <2>. QED
    BY <2>1, <2>2
<1>. QED
  BY <1>7 DEF CheckedByRules

\* To dispose of a finding changes what became of it, not that it was found.
LEMMA DisposeKeepsFound ==
  ASSUME IInv, CheckedByRules, EvidenceGrows, JobsKept,
         NEW op, NEW j \in Jobs, NEW key, NEW chosen, DOMAIN chosen \subseteq Issues,
         Dispose(op, j, key, chosen)
  PROVE  CheckedByRules'
<1>1. PICK c : c = Current(j)
  OBVIOUS
<1>2. /\ c # None
      /\ \A i \in DOMAIN chosen : ValidateDisposition(findings[c][i], chosen[i])
      /\ findings' = [findings EXCEPT ![c] = Resolved(findings[c], chosen)]
      /\ batches' = batches
  BY <1>1 DEF Dispose
<1>3. c \in Revisions
  BY <1>1, <1>2, CurrentIsRow DEF IInv
<1>4. findings \in [Revisions -> [Issues -> Dispositions]]
  BY DEF IInv, TypeOK, EvidenceTypeOK
<1>5. \A i \in DOMAIN chosen : findings[c][i] # "absent" /\ chosen[i] # "absent"
  BY <1>2 DEF ValidateDisposition, Resolutions
<1>6. FoundIn(c)' = FoundIn(c)
  <2>1. findings'[c] = Resolved(findings[c], chosen)
    BY <1>2, <1>3, <1>4
  <2>2. \A i \in Issues : findings'[c][i] # "absent" <=> findings[c][i] # "absent"
    BY <1>5, <2>1 DEF Resolved
  <2>. QED
    BY <2>2 DEF FoundIn
<1>7. \A r \in Revisions : r # c => FoundIn(r)' = FoundIn(r)
  BY <1>2, <1>4 DEF FoundIn
<1>. QED
  BY <1>2, <1>6, <1>7, CheckedFrame DEF CheckedByRules

LEMMA StepChecked ==
  ASSUME IInv, CheckedByRules, [Next]_vars
  PROVE  CheckedByRules'
<1>0. TypeOK /\ EvidenceGrows /\ JobsKept
  BY StepGrows, StepKeepsJobs DEF IInv
<1>1. ASSUME NEW j \in Jobs, NEW key \in Keys, CreateJob(j, key)  PROVE CheckedByRules'
  BY <1>0, <1>1, CheckedUntouched DEF CreateJob, evidence
<1>2. ASSUME NEW j \in Jobs, NEW expected \in 1..MaxVersion, NEW key \in Keys,
             Command(j, expected, key)
      PROVE  CheckedByRules'
  <2>1. CASE SubmitRevision(j, expected, key)
    BY <1>0, <2>1, CheckedUntouched DEF SubmitRevision
  <2>2. CASE RunQuality(j, expected, key)
    BY <1>0, <2>2, RunQualityChecks
  <2>3. CASE DispositionFinding(j, expected, key)
    <3>1. PICK i \in Issues : \E chosen \in [{i} -> Resolutions] :
            Dispose("disposition_finding", j, key, chosen)
      BY <2>3 DEF DispositionFinding
    <3>. QED
      BY <1>0, <3>1, DisposeKeepsFound
  <2>4. CASE BatchDisposition(j, expected, key)
    <3>1. PICK named \in SUBSET Issues : \E chosen \in [named -> Resolutions] :
            Dispose("batch_disposition", j, key, chosen)
      BY <2>4 DEF BatchDisposition
    <3>. QED
      BY <1>0, <3>1, DisposeKeepsFound
  <2>5. CASE Review(j, expected, key)
    BY <1>0, <2>5, CheckedUntouched DEF Review
  <2>6. CASE Freeze(j, expected, key)
    BY <1>0, <2>6, CheckedUntouched DEF Freeze
  <2>7. CASE VerifyAndRecord(j, expected, key)
    BY <1>0, <2>7, CheckedUntouched DEF VerifyAndRecord
  <2>. QED
    BY <1>2, <2>1, <2>2, <2>3, <2>4, <2>5, <2>6, <2>7 DEF Command
<1>3. ASSUME NEW j \in Jobs, NEW expected \in 1..MaxVersion, Inquiry(j, expected)
      PROVE  CheckedByRules'
  BY <1>0, <1>3, CheckedUntouched DEF Inquiry, PreflightRevision, FreezePreview, evidence
<1>4. ASSUME NEW op \in Ops, NEW key \in Keys, Replay(op, key)  PROVE CheckedByRules'
  BY <1>0, <1>4, CheckedUntouched DEF Replay, vars, evidence
<1>5. CASE UNCHANGED vars
  BY <1>0, <1>5, CheckedUntouched DEF vars, evidence
<1>. QED
  BY <1>1, <1>2, <1>3, <1>4, <1>5 DEF Next

\* The findings kept for a revision are those its rules report on its text,
\* whatever became of them and whatever else was submitted since.
THEOREM FindingsAreOfTheRules == Spec => []CheckedByRules
<1>1. Init => CheckedByRules
  <2>. SUFFICES ASSUME Init PROVE CheckedByRules
    OBVIOUS
  <2>1. \A r \in Revisions : ~(batches[r] > 0)
    BY DEF Init
  <2>. QED
    BY <2>1 DEF CheckedByRules
<1>2. IInv /\ CheckedByRules /\ [Next]_vars => CheckedByRules'
  BY StepChecked
<1>. QED
  BY <1>1, <1>2, Invariance, PTL DEF Spec

(***************************************************************************)
(* Jobs of a profile without rules.                                        *)
(***************************************************************************)
\* Only a job that has rules is reviewed.
ReviewedByRules ==
  \A j \in Jobs : reviews[j] # <<>> =>
    jobs[j].status # "absent" /\ jobs[j].profile \in KnownProfiles

\* A job past the gate was checked, and so has rules.
LEMMA GateHasRules ==
  ASSUME IInv, CheckedByRules, NEW j \in Jobs,
         jobs[j].status \in {"review_ready", "approved", "frozen"}
  PROVE  jobs[j].profile \in KnownProfiles
<1>1. Current(j) # None /\ batches[Current(j)] > 0
  BY DEF IInv, ReviewGate, PastGate
<1>2. Current(j) \in Revisions /\ revisions[Current(j)].job = j
  BY <1>1, CurrentIsRow DEF IInv
<1>. QED
  BY <1>1, <1>2 DEF CheckedByRules, ProfileOf

LEMMA StepReviewed ==
  ASSUME IInv, CheckedByRules, ReviewedByRules, [Next]_vars
  PROVE  ReviewedByRules'
<1>0. TypeOK /\ JobsKept
  BY StepKeepsJobs DEF IInv
<1>1. ASSUME UNCHANGED reviews  PROVE ReviewedByRules'
  BY <1>0, <1>1 DEF ReviewedByRules, JobsKept
<1>2. ASSUME NEW j \in Jobs, NEW expected, NEW key \in Keys, Review(j, expected, key)
      PROVE  ReviewedByRules'
  <2>1. jobs[j].status = "review_ready" /\ \A k \in Jobs : k # j => reviews'[k] = reviews[k]
    BY <1>0, <1>2 DEF Review, MayReview, TypeOK, EvidenceTypeOK
  <2>2. jobs[j].profile \in KnownProfiles
    BY <2>1, GateHasRules
  <2>. QED
    BY <1>0, <2>1, <2>2 DEF ReviewedByRules, JobsKept
<1>3. CASE UNCHANGED vars
  BY <1>1, <1>3 DEF vars, evidence
<1>4. ASSUME NEW j \in Jobs, NEW key \in Keys, CreateJob(j, key)  PROVE ReviewedByRules'
  BY <1>1, <1>4 DEF CreateJob, evidence
<1>5. ASSUME NEW j \in Jobs, NEW expected \in 1..MaxVersion, NEW key \in Keys,
             Command(j, expected, key)
      PROVE  ReviewedByRules'
  <2>1. Review(j, expected, key) \/ reviews' = reviews
    BY <1>5 DEF Command, SubmitRevision, RunQuality, DispositionFinding, BatchDisposition,
                Dispose, Freeze, VerifyAndRecord
  <2>. QED
    BY <1>1, <1>2, <2>1
<1>6. ASSUME NEW j \in Jobs, NEW expected \in 1..MaxVersion, Inquiry(j, expected)
      PROVE  ReviewedByRules'
  BY <1>1, <1>6 DEF Inquiry, PreflightRevision, FreezePreview, evidence
<1>7. ASSUME NEW op \in Ops, NEW key \in Keys, Replay(op, key)  PROVE ReviewedByRules'
  BY <1>1, <1>7 DEF Replay, vars, evidence
<1>. QED
  BY <1>3, <1>4, <1>5, <1>6, <1>7 DEF Next

LEMMA WithoutRulesStep ==
  IInv /\ CheckedByRules /\ ReviewedByRules => NothingWithoutRules
<1>. SUFFICES ASSUME IInv, CheckedByRules, ReviewedByRules,
                     NEW j \in Jobs, jobs[j].status # "absent",
                     jobs[j].profile \notin KnownProfiles
              PROVE  /\ jobs[j].status \in {"draft", "remediating"}
                     /\ reviews[j] = <<>> /\ artifacts[j] = None
                     /\ \A r \in RevisionsOf(j) : batches[r] = 0 /\ NoFindings(r)
  BY DEF NothingWithoutRules
<1>1. jobs[j].status \in {"draft", "remediating"}
  <2>1. jobs[j].status \in Statuses
    BY DEF IInv, TypeOK, LedgerTypeOK, JobRows
  <2>. QED
    BY <2>1, GateHasRules DEF Statuses
<1>2. reviews[j] = <<>> /\ artifacts[j] = None
  BY <1>1 DEF ReviewedByRules, IInv, ReleaseWasReviewed, ReleaseStands
<1>3. ASSUME NEW r \in RevisionsOf(j)  PROVE batches[r] = 0 /\ NoFindings(r)
  <2>1. r \in Revisions /\ revisions[r].job = j /\ batches[r] \in Nat
    BY DEF RevisionsOf, IInv, TypeOK, EvidenceTypeOK
  <2>2. ~(batches[r] > 0)
    BY <2>1 DEF CheckedByRules, ProfileOf
  <2>. QED
    BY <2>1, <2>2 DEF IInv, FindingsFromRuns
<1>. QED
  BY <1>1, <1>2, <1>3

\* A job that was created with a profile nobody has rules for never gets past
\* drafting, by whatever commands of whichever clients.
THEOREM UnruledStaysInDrafting == Spec => []NothingWithoutRules
<1>1. Init => ReviewedByRules
  BY DEF Init, ReviewedByRules
<1>2. IInv /\ CheckedByRules /\ ReviewedByRules /\ [Next]_vars => ReviewedByRules'
  BY StepReviewed
<1>. QED
  BY <1>1, <1>2, Invariance, FindingsAreOfTheRules, WithoutRulesStep, PTL DEF Spec

----------------------------------------------------------------------------
(***************************************************************************)
(* Verification without a record.                                          *)
(***************************************************************************)

\* A chain that verifies does so up to any event.
LEMMA PrefixVerifies ==
  ASSUME NEW events \in Seq(AuditEvents), VerifyAudit(events), NEW m \in 0..Len(events)
  PROVE  VerifyAudit(SubSeq(events, 1, m))
<1>1. PICK head : head = SubSeq(events, 1, m)
  OBVIOUS
<1>2. Len(head) = m /\ \A n \in 1..m : head[n] = events[n]
  BY <1>1
<1>3. \A n \in 1..m : n \in 1..Len(events) /\ (n # 1 => n - 1 \in 1..m)
  OBVIOUS
<1>4. VerifyAudit(head)
  BY <1>2, <1>3 DEF VerifyAudit
<1>. QED
  BY <1>1, <1>4

LEMMA ListedVerifies ==
  ASSUME TypeOK, NEW j \in Jobs, VerifyAudit(audit[j]), NEW limit \in Nat
  PROVE  VerifyAudit(ListAudit(j, limit))
<1>1. audit[j] \in Seq(AuditEvents)
  BY DEF TypeOK, LedgerTypeOK
<1>2. (IF limit < Len(audit[j]) THEN limit ELSE Len(audit[j])) \in 0..Len(audit[j])
  BY <1>1
<1>. QED
  BY <1>1, <1>2, PrefixVerifies DEF ListAudit

LEMMA VerdictStep == IInv /\ ReleasesVerify => VerdictWithoutLimit
<1>. SUFFICES ASSUME IInv, ReleasesVerify, NEW j \in Jobs
              PROVE  /\ VerifyAudit(ListAudit(j, IntegrityLimit)) = VerifyAudit(audit[j])
                     /\ artifacts[j] # None =>
                          \A limit \in {VerifyLimit, RecordLimit} :
                            VerifyOnly(j, limit).valid
                              = VerifyRelease(artifacts[j], audit[j])
  BY DEF VerdictWithoutLimit
<1>1. VerifyAudit(audit[j])
  BY DEF ReleasesVerify
<1>2. \A limit \in Nat : VerifyAudit(ListAudit(j, limit))
  BY <1>1, ListedVerifies DEF IInv
<1>3. VerifyAudit(ListAudit(j, IntegrityLimit)) = VerifyAudit(audit[j])
  BY <1>1, <1>2, QueriesAssumption DEF VerifyAudit
<1>4. \A limit \in {VerifyLimit, RecordLimit} :
        VerifyRelease(artifacts[j], ListAudit(j, limit)) = VerifyRelease(artifacts[j], audit[j])
  BY <1>1, <1>2, QueriesAssumption DEF VerifyRelease
<1>. QED
  BY <1>3, <1>4 DEF VerifyOnly

\* Wherever a reader of the chain stops, its verdict is the one the whole chain
\* gets, on a chain and on the release that is chained to it.
THEOREM VerdictsAgree == Spec => []VerdictWithoutLimit
  BY Invariance, ReleasesAlwaysVerify, VerdictStep, PTL
----------------------------------------------------------------------------
(***************************************************************************)
(* What was released.                                                      *)
(***************************************************************************)

\* Two captions of a text are shown together only if the rules report an overlap.
LEMMA OverlapReported ==
  ASSUME NEW c \in Contents, NEW rules,
         NEW m \in DOMAIN c, NEW n \in DOMAIN c, m # n, ShownTogether(c[m], c[n])
  PROVE  \E issue \in Rules!EvaluateRules(rules, c) : issue.rule = "OVERLAP"
<1>0. Len(c) \in Nat /\ DOMAIN c = 1..Len(c)
  BY ContentShape
<1>1. PICK start, end : /\ start = [k \in 1..Len(c) |-> c[k].time.start]
                        /\ end = [k \in 1..Len(c) |-> c[k].time.end]
  OBVIOUS
<1>2. start \in [1..Len(c) -> Int] /\ end \in [1..Len(c) -> Int]
  BY <1>1, ContentShape
<1>3. \A k \in 2..Len(c) : start[k - 1] <= start[k]
  <2>1. \A k \in 2..Len(c) : k \in 1..Len(c) /\ k - 1 \in 1..Len(c)
    BY <1>0
  <2>. QED
    BY <1>1, <2>1, ContentShape
<1>4. \A k \in 1..Len(c) : start[k] < end[k]
  BY <1>1, ContentShape
<1>5. start[m] < end[n] /\ start[n] < end[m]
  BY <1>0, <1>1 DEF ShownTogether
<1>6. \E k \in 2..Len(c) : start[k] < end[k - 1]
  BY <1>0, <1>2, <1>3, <1>4, <1>5, NeighboursMeet
<1>7. PICK k \in 2..Len(c) : start[k] < end[k - 1]
  BY <1>6
<1>8. Rules!Overlaps(c[k - 1], c[k])
  <2>1. k \in 1..Len(c) /\ k - 1 \in 1..Len(c)
    BY <1>0
  <2>. QED
    BY <1>1, <1>7, <2>1 DEF Rules!Overlaps
<1>9. Rules!Finding("OVERLAP", <<c[k - 1].id, c[k].id>>)
        \in Rules!PairFindings(rules, c[k - 1], c[k])
  BY <1>8 DEF Rules!PairFindings
<1>10. Rules!Finding("OVERLAP", <<c[k - 1].id, c[k].id>>) \in Rules!EvaluateRules(rules, c)
  BY <1>9 DEF Rules!EvaluateRules
<1>11. Rules!Finding("OVERLAP", <<c[k - 1].id, c[k].id>>).rule = "OVERLAP"
  BY DEF Rules!Finding
<1>. QED
  BY <1>10, <1>11

\* What was found in a checked revision is what the rules of some profile report.
LEMMA FoundByRules ==
  ASSUME TypeOK, CheckedByRules, NEW r \in Revisions, batches[r] > 0
  PROVE  /\ revisions[r] \in RevisionRows /\ ContentOf(r) \in Contents
         /\ ProfileOf(r) \in KnownProfiles
         /\ FoundIn(r) = Rules!EvaluateRules(Rules!RuleSetForProfile(ProfileOf(r)), ContentOf(r))
<1>1. revisions[r].job \in Jobs /\ ProfileOf(r) \in KnownProfiles
      /\ FoundIn(r) = Evaluate[ProfileOf(r), ContentOf(r)]
  BY DEF CheckedByRules
<1>2. revisions[r] \in RevisionRows
  <2>1. revisions[r] \in {AbsentRevision} \cup RevisionRows
    BY DEF TypeOK, EvidenceTypeOK
  <2>2. AbsentRevision.job = None
    BY DEF AbsentRevision
  <2>3. revisions[r] # AbsentRevision
    BY <1>1, <2>2, WorkflowAssumption
  <2>. QED
    BY <2>1, <2>3
<1>3. ContentOf(r) \in Contents
  BY <1>2 DEF RevisionRows, ContentOf
<1>. QED
  BY <1>1, <1>2, <1>3, QueriesAssumption

LEMMA UnseenStep == IInv /\ CheckedByRules => NothingShownUnseen
<1>. SUFFICES ASSUME IInv, CheckedByRules, NEW j \in Jobs, artifacts[j] # None,
                     NEW m \in DOMAIN ContentOf(artifacts[j].revision),
                     NEW n \in DOMAIN ContentOf(artifacts[j].revision), m # n,
                     ShownTogether(ContentOf(artifacts[j].revision)[m],
                                   ContentOf(artifacts[j].revision)[n])
              PROVE  \E issue \in FoundIn(artifacts[j].revision) :
                       issue.rule = "OVERLAP"
                         /\ findings[artifacts[j].revision][issue] = "false_positive"
  BY DEF NothingShownUnseen
<1>1. PICK r : r = artifacts[j].revision
  OBVIOUS
<1>2. jobs[j].status = "frozen" /\ r = Current(j)
  BY <1>1 DEF IInv, ReleaseWasReviewed, ReleaseStands
<1>3. r # None /\ batches[r] > 0 /\ FindingsPermitReview(findings[r])
  BY <1>2 DEF IInv, ReviewGate, PastGate
<1>4. r \in Revisions
  BY <1>2, <1>3, CurrentIsRow DEF IInv
<1>5. /\ ContentOf(r) \in Contents
      /\ FoundIn(r) = Rules!EvaluateRules(Rules!RuleSetForProfile(ProfileOf(r)), ContentOf(r))
  BY <1>3, <1>4, FoundByRules DEF IInv
<1>6. PICK issue \in FoundIn(r) : issue.rule = "OVERLAP"
  BY <1>1, <1>5, OverlapReported
<1>7. issue \in Issues /\ findings[r][issue] # "absent"
  BY <1>6 DEF FoundIn
<1>8. issue \in Blocking
  BY <1>6, <1>7, QueriesAssumption DEF Rules!Severity, Rules!BlockingRules
<1>9. findings[r][issue] = "false_positive"
  BY <1>3, <1>7, <1>8 DEF FindingsPermitReview
<1>. QED
  BY <1>1, <1>6, <1>9

\* No release, of a text of any length, shows two captions together unless a
\* finding that says so was dismissed.
THEOREM NothingIsShownUnseen == Spec => []NothingShownUnseen
  BY Invariance, FindingsAreOfTheRules, UnseenStep, PTL

----------------------------------------------------------------------------
(***************************************************************************)
(* Sampling.                                                               *)
(***************************************************************************)
LEMMA DrawnRow ==
  ASSUME TypeOK, NEW r \in Drawn
  PROVE  revisions[r] \in RevisionRows /\ ContentOf(r) \in Contents
<1>1. r \in Revisions /\ revisions[r].job # None
  BY DEF Drawn
<1>2. revisions[r] \in {AbsentRevision} \cup RevisionRows
  BY <1>1 DEF TypeOK, EvidenceTypeOK
<1>3. AbsentRevision.job = None
  BY DEF AbsentRevision
<1>4. revisions[r] \in RevisionRows
  BY <1>1, <1>2, <1>3
<1>. QED
  BY <1>4 DEF RevisionRows, ContentOf

\* A finding names segments of the text.
LEMMA FindingsNameSegments ==
  ASSUME NEW c \in Contents, NEW rules, NEW issue \in Rules!EvaluateRules(rules, c)
  PROVE  /\ issue.ids \in Seq(SegmentIDs(c))
         /\ issue.rule \in SegmentRules =>
              \E n \in 1..Len(c) : /\ issue \in Rules!SegmentFindings(rules, c[n])
                                   /\ issue.ids = <<c[n].id>>
<1>0. Len(c) \in Nat /\ Len(c) >= 1 /\ DOMAIN c = 1..Len(c)
  BY ContentShape
<1>1. \A n \in 1..Len(c) : c[n].id \in SegmentIDs(c)
  BY IdsOfContent
<1>2. ASSUME NEW n \in 1..Len(c), issue \in Rules!SegmentFindings(rules, c[n])
      PROVE  issue.ids = <<c[n].id>>
  <2>1. PICK rule : issue = Rules!Finding(rule, <<c[n].id>>)
    BY <1>2 DEF Rules!SegmentFindings
  <2>. QED
    BY <2>1 DEF Rules!Finding
<1>3. ASSUME NEW n \in 2..Len(c), issue \in Rules!PairFindings(rules, c[n - 1], c[n])
      PROVE  issue.ids \in Seq(SegmentIDs(c)) /\ issue.rule \notin SegmentRules
  <2>1. n \in 1..Len(c) /\ n - 1 \in 1..Len(c)
    BY <1>0
  <2>2. issue.ids = <<c[n - 1].id, c[n].id>> /\ issue.rule \in {"OVERLAP", "EXCESSIVE_GAP"}
    BY <1>3 DEF Rules!PairFindings, Rules!Finding
  <2>. QED
    BY <1>1, <2>1, <2>2 DEF SegmentRules
<1>4. ASSUME issue \in Rules!SoundFindings(c)
      PROVE  issue.ids \in Seq(SegmentIDs(c)) /\ issue.rule \notin SegmentRules
  <2>1. issue.rule = "SOUND_CUE" /\ issue.ids \in {<<>>, <<c[1].id>>}
    BY <1>4 DEF Rules!SoundFindings, Rules!Finding
  <2>2. c[1].id \in SegmentIDs(c)
    BY <1>0, <1>1
  <2>3. <<>> \in Seq(SegmentIDs(c)) /\ <<c[1].id>> \in Seq(SegmentIDs(c))
    BY <2>2
  <2>. QED
    BY <2>1, <2>3 DEF SegmentRules
<1>5. \/ \E n \in 1..Len(c) : issue \in Rules!SegmentFindings(rules, c[n])
      \/ \E n \in 2..Len(c) : issue \in Rules!PairFindings(rules, c[n - 1], c[n])
      \/ issue \in Rules!SoundFindings(c)
  BY <1>0 DEF Rules!EvaluateRules
<1>6. CASE \E n \in 1..Len(c) : issue \in Rules!SegmentFindings(rules, c[n])
  <2>1. PICK n \in 1..Len(c) : issue \in Rules!SegmentFindings(rules, c[n])
    BY <1>6
  <2>2. issue.ids = <<c[n].id>> /\ c[n].id \in SegmentIDs(c)
    BY <1>1, <1>2, <2>1
  <2>. QED
    BY <2>1, <2>2
<1>. QED
  BY <1>3, <1>4, <1>5, <1>6

\* Filling up from the start of a text comes to the least number of a review.
LEMMA FilledUp ==
  ASSUME NEW c \in Contents, NEW chosen \in SUBSET SegmentIDs(c), NEW minimum \in 0..Len(c)
  PROVE  LET Enough(m) == Cardinality(chosen \cup FirstSegments(c, m)) >= minimum
             filled == CHOOSE m \in 0..Len(c) : Enough(m) /\ \A k \in 0..(m - 1) : ~Enough(k)
         IN filled \in 0..Len(c) /\ Enough(filled)
<1>0. Len(c) \in Nat
  BY ContentShape
<1>. DEFINE Enough(m) == Cardinality(chosen \cup FirstSegments(c, m)) >= minimum
<1>1. Enough(Len(c))
  <2>1. FirstSegments(c, Len(c)) = SegmentIDs(c)
    BY IdsOfContent DEF FirstSegments
  <2>2. chosen \cup FirstSegments(c, Len(c)) = SegmentIDs(c)
    BY <2>1
  <2>3. Cardinality(SegmentIDs(c)) = Len(c) /\ Len(c) >= minimum
    BY <1>0, IdsOfContent
  <2>. QED
    BY <2>2, <2>3
<1>. HIDE DEF Enough
<1>2. PICK T : T = {m \in 0..Len(c) : Enough(m)}
  OBVIOUS
<1>3. T \in SUBSET Nat /\ T # {}
  BY <1>0, <1>1, <1>2
<1>4. PICK least \in T : \A k \in T : least <= k
  BY <1>3, LeastNatural
<1>5. least \in 0..Len(c) /\ Enough(least) /\ \A k \in 0..(least - 1) : ~Enough(k)
  <2>1. least \in 0..Len(c) /\ Enough(least)
    BY <1>2, <1>4
  <2>2. ASSUME NEW k \in 0..(least - 1)  PROVE ~Enough(k)
    <3>1. k \in 0..Len(c) /\ ~(least <= k)
      BY <1>0, <2>1, <2>2
    <3>. QED
      BY <1>2, <1>4, <3>1
  <2>. QED
    BY <2>1, <2>2
<1>6. PICK filled : filled = CHOOSE m \in 0..Len(c) : Enough(m) /\ \A k \in 0..(m - 1) : ~Enough(k)
  OBVIOUS
<1>7. filled \in 0..Len(c) /\ Enough(filled)
  BY <1>5, <1>6
<1>. QED
  BY <1>6, <1>7 DEF Enough

LEMMA SampleStep == IInv /\ CheckedByRules => SampleIsAccepted
<1>. SUFFICES ASSUME IInv, CheckedByRules, NEW r \in Drawn
              PROVE  ValidateSample(ContentOf(r), Sampling(r).ids, "approve")
  BY DEF SampleIsAccepted
<1>1. PICK c : c = ContentOf(r)
  OBVIOUS
<1>2. c \in Contents /\ r \in Revisions
  BY <1>1, DrawnRow DEF IInv, Drawn
<1>3. Len(c) \in Nat /\ Len(c) >= 1
  BY <1>2, ContentShape
<1>4. \A n \in 1..Len(c) : c[n].id \in SegmentIDs(c)
  BY <1>2, IdsOfContent
<1>5. Suspect(r) \subseteq SegmentIDs(c)
  <2>1. SUFFICES ASSUME NEW issue \in FoundIn(r), issue.ids # <<>>
                 PROVE  issue.ids[1] \in SegmentIDs(c)
    BY DEF Suspect
  <2>2. batches[r] > 0
    BY <1>2 DEF IInv, FindingsFromRuns, NoFindings, FoundIn
  <2>3. issue \in Rules!EvaluateRules(Rules!RuleSetForProfile(ProfileOf(r)), c)
    BY <1>1, <1>2, <2>2, FoundByRules DEF IInv
  <2>4. issue.ids \in Seq(SegmentIDs(c))
    BY <1>2, <2>3, FindingsNameSegments
  <2>. QED
    BY <2>1, <2>4
<1>6. Marked(c) \subseteq SegmentIDs(c) /\ {c[1].id, c[Len(c)].id} \subseteq Marked(c)
  <2>1. 1 \in 1..Len(c) /\ Len(c) \in 1..Len(c)
    BY <1>3
  <2>2. Len(c) > 2 => (Len(c) \div 2) + 1 \in 1..Len(c)
    BY <1>3
  <2>. QED
    BY <1>4, <2>1, <2>2 DEF Marked
<1>7. PICK chosen : chosen = Marked(c) \cup Suspect(r)
  OBVIOUS
<1>8. PICK minimum : minimum = IF Len(c) < 3 THEN Len(c) ELSE 3
  OBVIOUS
<1>9. minimum \in 0..Len(c) /\ chosen \in SUBSET SegmentIDs(c)
  BY <1>3, <1>5, <1>6, <1>7, <1>8
<1>. DEFINE Enough(m) == Cardinality(chosen \cup FirstSegments(c, m)) >= minimum
            filled == CHOOSE m \in 0..Len(c) : Enough(m) /\ \A k \in 0..(m - 1) : ~Enough(k)
<1>10. /\ filled \in 0..Len(c) /\ Enough(filled)
       /\ Sampling(r).ids = chosen \cup FirstSegments(c, filled)
  <2>1. filled \in 0..Len(c) /\ Enough(filled)
    BY <1>2, <1>9, FilledUp
  <2>2. Sampling(r).ids = chosen \cup FirstSegments(c, filled)
    BY <1>1, <1>7, <1>8 DEF Sampling
  <2>. QED
    BY <2>1, <2>2
<1>. HIDE DEF filled
<1>11. FirstSegments(c, filled) \subseteq SegmentIDs(c)
  <2>1. \A n \in 1..filled : n \in 1..Len(c)
    BY <1>3, <1>10
  <2>. QED
    BY <1>4, <2>1 DEF FirstSegments
<1>. QED
  BY <1>1, <1>3, <1>6, <1>7, <1>8, <1>9, <1>10, <1>11 DEF ValidateSample

\* The sample the desk suggests satisfies what a review asks of an approval, for
\* texts of one segment as for long ones, checked or not.
THEOREM SamplesAreAccepted == Spec => []SampleIsAccepted
  BY Invariance, FindingsAreOfTheRules, SampleStep, PTL

----------------------------------------------------------------------------
(***************************************************************************)
(* Diffs.                                                                  *)
(***************************************************************************)
\* The segments two texts have both, and that differ in a field.
Differing(before, after, field) ==
  {id \in SegmentIDs(before) \cap SegmentIDs(after) :
     SegmentOf(before, id)[field] # SegmentOf(after, id)[field]}

\* Two segments are the same when their times, speakers and texts are.
LEMMA FieldsTell ==
  ASSUME NEW a \in Contents, NEW b \in Contents,
         NEW id \in SegmentIDs(a) \cap SegmentIDs(b)
  PROVE  SegmentOf(a, id) = SegmentOf(b, id)
         <=> \A field \in {"text", "time", "speaker"} :
               SegmentOf(a, id)[field] = SegmentOf(b, id)[field]
<1>1. PICK m \in 1..Len(a) : id = a[m].id
  BY IdsOfContent
<1>2. PICK n \in 1..Len(b) : id = b[n].id
  BY IdsOfContent
<1>3. SegmentOf(a, id) = a[m] /\ SegmentOf(b, id) = b[n]
  BY <1>1, <1>2, IdsOfContent
<1>4. PICK s, t : s = a[m] /\ t = b[n]
  OBVIOUS
<1>5. Rules!IsSegment(s) /\ Rules!IsSegment(t)
  BY <1>4, ContentShape
<1>6. s.id = t.id
  BY <1>1, <1>2, <1>4
<1>7. s.text = t.text /\ s.time = t.time /\ s.speaker = t.speaker => s = t
  BY <1>5, <1>6 DEF Rules!IsSegment
<1>. QED
  BY <1>3, <1>4, <1>7

LEMMA ChangedSegments ==
  ASSUME NEW a \in Contents, NEW b \in Contents
  PROVE  /\ SegmentChanges(a, b, "added") = SegmentIDs(b) \ SegmentIDs(a)
         /\ SegmentChanges(a, b, "removed") = SegmentIDs(a) \ SegmentIDs(b)
         /\ SegmentChanges(a, b, "changed")
              = Differing(a, b, "text") \cup Differing(a, b, "time")
                  \cup Differing(a, b, "speaker")
<1>1. \A id \in SegmentIDs(a) \cup SegmentIDs(b) :
        /\ ChangeOf(a, b, id) = "added" <=> id \notin SegmentIDs(a)
        /\ ChangeOf(a, b, id) = "removed" <=> id \in SegmentIDs(a) /\ id \notin SegmentIDs(b)
        /\ ChangeOf(a, b, id) = "changed" <=>
             /\ id \in SegmentIDs(a) \cap SegmentIDs(b)
             /\ SegmentOf(a, id) # SegmentOf(b, id)
  <2>. TAKE id \in SegmentIDs(a) \cup SegmentIDs(b)
  <2>1. CASE id \notin SegmentIDs(a)
    <3>1. ChangeOf(a, b, id) = "added"
      BY <2>1 DEF ChangeOf
    <3>. QED
      BY <2>1, <3>1
  <2>2. CASE id \in SegmentIDs(a) /\ id \notin SegmentIDs(b)
    <3>1. ChangeOf(a, b, id) = "removed"
      BY <2>2 DEF ChangeOf
    <3>. QED
      BY <2>2, <3>1
  <2>3. CASE /\ id \in SegmentIDs(a) \cap SegmentIDs(b)
             /\ SegmentOf(a, id) # SegmentOf(b, id)
    <3>1. ChangeOf(a, b, id) = "changed"
      BY <2>3 DEF ChangeOf
    <3>. QED
      BY <2>3, <3>1
  <2>4. CASE /\ id \in SegmentIDs(a) \cap SegmentIDs(b)
             /\ SegmentOf(a, id) = SegmentOf(b, id)
    <3>1. ChangeOf(a, b, id) = "none"
      BY <2>4 DEF ChangeOf
    <3>. QED
      BY <2>4, <3>1
  <2>. QED
    BY <2>1, <2>2, <2>3, <2>4
<1>2. SegmentChanges(a, b, "added") = SegmentIDs(b) \ SegmentIDs(a)
  BY <1>1 DEF SegmentChanges
<1>3. SegmentChanges(a, b, "removed") = SegmentIDs(a) \ SegmentIDs(b)
  BY <1>1 DEF SegmentChanges
<1>4. SegmentChanges(a, b, "changed")
        = {id \in SegmentIDs(a) \cap SegmentIDs(b) : SegmentOf(a, id) # SegmentOf(b, id)}
  BY <1>1 DEF SegmentChanges
<1>5. \A id \in SegmentIDs(a) \cap SegmentIDs(b) :
        SegmentOf(a, id) # SegmentOf(b, id) <=>
          \/ SegmentOf(a, id)["text"] # SegmentOf(b, id)["text"]
          \/ SegmentOf(a, id)["time"] # SegmentOf(b, id)["time"]
          \/ SegmentOf(a, id)["speaker"] # SegmentOf(b, id)["speaker"]
  BY FieldsTell
<1>. QED
  BY <1>2, <1>3, <1>4, <1>5 DEF Differing

LEMMA UnionBound ==
  ASSUME NEW A, NEW B, NEW C, IsFiniteSet(A), IsFiniteSet(B), IsFiniteSet(C)
  PROVE  LET all == A \cup B \cup C
             sum == Cardinality(A) + Cardinality(B) + Cardinality(C)
         IN Cardinality(all) <= sum /\ sum <= 3 * Cardinality(all)
<1>1. Cardinality(A) \in Nat /\ Cardinality(B) \in Nat /\ Cardinality(C) \in Nat
  BY FS_CardinalityType
<1>2. /\ IsFiniteSet(A \cup B) /\ Cardinality(A \cup B) \in Nat
      /\ Cardinality(A \cup B) <= Cardinality(A) + Cardinality(B)
  <2>1. IsFiniteSet(A \cup B) /\ Cardinality(A \cup B)
          = Cardinality(A) + Cardinality(B) - Cardinality(A \cap B)
    BY FS_Union
  <2>2. Cardinality(A \cap B) \in Nat
    BY FS_Intersection, FS_CardinalityType
  <2>. QED
    BY <1>1, <2>1, <2>2, FS_CardinalityType
<1>3. PICK D : D = A \cup B
  OBVIOUS
<1>4. /\ IsFiniteSet(D \cup C) /\ Cardinality(D \cup C) \in Nat
      /\ Cardinality(D \cup C) <= Cardinality(D) + Cardinality(C)
  <2>0. IsFiniteSet(D) /\ Cardinality(D) \in Nat
    BY <1>2, <1>3
  <2>1. IsFiniteSet(D \cup C) /\ Cardinality(D \cup C)
          = Cardinality(D) + Cardinality(C) - Cardinality(D \cap C)
    BY <2>0, FS_Union
  <2>2. Cardinality(D \cap C) \in Nat
    BY <2>0, FS_Intersection, FS_CardinalityType
  <2>. QED
    BY <1>1, <2>0, <2>1, <2>2, FS_CardinalityType
<1>5. Cardinality(A) <= Cardinality(D \cup C) /\ Cardinality(B) <= Cardinality(D \cup C)
      /\ Cardinality(C) <= Cardinality(D \cup C)
  BY <1>3, <1>4, FS_Subset
<1>6. A \cup B \cup C = D \cup C
  BY <1>3
<1>7. Cardinality(D) <= Cardinality(A) + Cardinality(B) /\ Cardinality(D) \in Nat
  BY <1>2, <1>3
<1>8. PICK x, y, z, d, u : /\ x = Cardinality(A) /\ y = Cardinality(B) /\ z = Cardinality(C)
                          /\ d = Cardinality(D) /\ u = Cardinality(D \cup C)
  OBVIOUS
<1>9. x \in Nat /\ y \in Nat /\ z \in Nat /\ d \in Nat /\ u \in Nat
      /\ u <= d + z /\ d <= x + y /\ x <= u /\ y <= u /\ z <= u
  BY <1>1, <1>4, <1>5, <1>7, <1>8
<1>10. u <= x + y + z /\ x + y + z <= 3 * u
  BY <1>9
<1>. QED
  BY <1>6, <1>8, <1>10

\* Both ends of a diff are revisions of one job.
LEMMA DiffOfContents ==
  ASSUME TypeOK, NEW from \in Revisions, NEW to \in Revisions, MayDiff(from, to)
  PROVE  ContentOf(from) \in Contents /\ ContentOf(to) \in Contents
         /\ ProfileOf(from) = ProfileOf(to)
<1>1. from \in Drawn /\ to \in Drawn
  BY DEF MayDiff, Drawn
<1>. QED
  BY <1>1, DrawnRow DEF MayDiff, ProfileOf

LEMMA DiffStep == TypeOK => DiffMatchesSummary
<1>. SUFFICES ASSUME TypeOK, NEW from \in Revisions, NEW to \in Revisions,
                     MayDiff(from, to)
              PROVE  LET before  == ContentOf(from)
                         after   == ContentOf(to)
                         summary == Summarize(before, after)
                         Count(kind) == Cardinality(SegmentChanges(before, after, kind))
                         fields  == summary.textChanged + summary.timingChanged
                                      + summary.speakerChanged
                     IN /\ Count("added") = summary.added
                        /\ Count("removed") = summary.removed
                        /\ Count("changed") <= fields /\ fields <= 3 * Count("changed")
  BY DEF DiffMatchesSummary
<1>1. PICK a, b : a = ContentOf(from) /\ b = ContentOf(to)
  OBVIOUS
<1>2. a \in Contents /\ b \in Contents
  BY <1>1, DiffOfContents
<1>3. /\ Summarize(a, b).added = Cardinality(SegmentIDs(b) \ SegmentIDs(a))
      /\ Summarize(a, b).removed = Cardinality(SegmentIDs(a) \ SegmentIDs(b))
      /\ Summarize(a, b).textChanged = Cardinality(Differing(a, b, "text"))
      /\ Summarize(a, b).timingChanged = Cardinality(Differing(a, b, "time"))
      /\ Summarize(a, b).speakerChanged = Cardinality(Differing(a, b, "speaker"))
  BY DEF Summarize, Differing
<1>4. \A field : IsFiniteSet(Differing(a, b, field))
  <2>1. SUFFICES ASSUME NEW field PROVE IsFiniteSet(Differing(a, b, field))
    OBVIOUS
  <2>2. Differing(a, b, field) \in SUBSET SegmentIDs(a) /\ IsFiniteSet(SegmentIDs(a))
    BY <1>2, IdsOfContent DEF Differing
  <2>. QED
    BY <2>2, FS_Subset
<1>5. LET all == SegmentChanges(a, b, "changed")
          sum == Cardinality(Differing(a, b, "text")) + Cardinality(Differing(a, b, "time"))
                   + Cardinality(Differing(a, b, "speaker"))
      IN Cardinality(all) <= sum /\ sum <= 3 * Cardinality(all)
  BY <1>2, <1>4, ChangedSegments, UnionBound
<1>. QED
  BY <1>1, <1>2, <1>3, <1>5, ChangedSegments

\* The two ways the service tells what a revision changed agree on any two texts.
THEOREM DiffsMatchSummaries == Spec => []DiffMatchesSummary
  BY TypeCorrect, DiffStep, PTL

\* A segment that did not change has the same findings in both texts.
LEMMA FindingStays ==
  ASSUME NEW a \in Contents, NEW b \in Contents, NEW rules,
         NEW issue \in Rules!EvaluateRules(rules, a), issue.rule \in SegmentRules,
         NEW id, <<issue.rule, id>> \in {<<issue.rule, issue.ids[n]>> : n \in DOMAIN issue.ids},
         ChangeOf(a, b, id) = "none" \/ ChangeOf(b, a, id) = "none"
  PROVE  issue \in Rules!EvaluateRules(rules, b)
<1>1. PICK n \in 1..Len(a) :
        issue \in Rules!SegmentFindings(rules, a[n]) /\ issue.ids = <<a[n].id>>
  BY FindingsNameSegments
<1>2. id = a[n].id
  <2>1. PICK k \in DOMAIN issue.ids : id = issue.ids[k]
    OBVIOUS
  <2>. QED
    BY <1>1, <2>1
<1>3. id \in SegmentIDs(b) /\ SegmentOf(b, id) = SegmentOf(a, id)
  BY DEF ChangeOf
<1>4. PICK m \in 1..Len(b) : id = b[m].id
  BY <1>3, IdsOfContent
<1>5. b[m] = a[n]
  BY <1>2, <1>3, <1>4, IdsOfContent
<1>6. m \in DOMAIN b
  BY ContentShape
<1>. QED
  BY <1>1, <1>5, <1>6 DEF Rules!EvaluateRules

LEMMA FindingsStep == IInv /\ CheckedByRules => FindingsFollowChanges
<1>. SUFFICES ASSUME IInv, CheckedByRules, NEW from \in Revisions, NEW to \in Revisions,
                     MayDiff(from, to), batches[from] > 0, batches[to] > 0,
                     NEW key, key \in FindingChanges(from, to).resolved
                                        \cup FindingChanges(from, to).new,
                     key[1] \in SegmentRules,
                     ChangeOf(ContentOf(from), ContentOf(to), key[2]) = "none"
              PROVE  FALSE
  BY DEF FindingsFollowChanges
<1>1. PICK a, b, rules : /\ a = ContentOf(from) /\ b = ContentOf(to)
                         /\ rules = Rules!RuleSetForProfile(ProfileOf(from))
  OBVIOUS
<1>2. a \in Contents /\ b \in Contents /\ ProfileOf(from) = ProfileOf(to)
  BY <1>1, DiffOfContents DEF IInv
<1>3. FoundIn(from) = Rules!EvaluateRules(rules, a) /\ FoundIn(to) = Rules!EvaluateRules(rules, b)
  BY <1>1, <1>2, FoundByRules DEF IInv
<1>4. ASSUME NEW issue, NEW n \in DOMAIN issue.ids, key = <<issue.rule, issue.ids[n]>>
      PROVE  /\ issue.rule = key[1] /\ issue.rule \in SegmentRules
             /\ <<issue.rule, key[2]>> \in {<<issue.rule, issue.ids[k]>> : k \in DOMAIN issue.ids}
  BY <1>4
<1>5. CASE key \in FindingChanges(from, to).resolved
  <2>1. key \in FindingKeys(from) /\ key \notin FindingKeys(to)
    BY <1>5 DEF FindingChanges
  <2>2. PICK issue \in FoundIn(from) : \E n \in DOMAIN issue.ids : key = <<issue.rule, issue.ids[n]>>
    BY <2>1 DEF FindingKeys
  <2>3. issue \in FoundIn(to)
    BY <1>1, <1>2, <1>3, <1>4, <2>2, FindingStays
  <2>. QED
    BY <2>1, <2>2, <2>3 DEF FindingKeys
<1>6. CASE key \in FindingChanges(from, to).new
  <2>1. key \in FindingKeys(to) /\ key \notin FindingKeys(from)
    BY <1>6 DEF FindingChanges
  <2>2. PICK issue \in FoundIn(to) : \E n \in DOMAIN issue.ids : key = <<issue.rule, issue.ids[n]>>
    BY <2>1 DEF FindingKeys
  <2>3. issue \in FoundIn(from)
    BY <1>1, <1>2, <1>3, <1>4, <2>2, FindingStays
  <2>. QED
    BY <2>1, <2>2, <2>3 DEF FindingKeys
<1>. QED
  BY <1>5, <1>6

\* Where a finding on one segment came or went between two checked texts, the
\* segment was changed, for every profile and any two texts.
THEOREM FindingsFollow == Spec => []FindingsFollowChanges
  BY Invariance, FindingsAreOfTheRules, FindingsStep, PTL

----------------------------------------------------------------------------
(***************************************************************************)
(* The self check.                                                         *)
(*                                                                         *)
(* Checks share nothing but the store, so what ties them together is which *)
(* keys of the script have been used: ScriptInv says what that means for   *)
(* the rows, and Sound what a check may rely on when it has come so far.   *)
(***************************************************************************)
Used(op, key) == idempotency[op][key] # None

TheJob == idempotency["create_job"][1].job

Reported == Evaluate[Profile, Programme]

\* The keys of the script.
SentOnce == {"create_job", "submit_revision", "run_quality", "review", "freeze"}

InScript(op, key) ==
  \/ op \in SentOnce /\ key = 1
  \/ op = "disposition_finding" /\ key \in 1..Cardinality(Reported)

OnlyScript == \A op \in Ops, key \in Keys : Used(op, key) => InScript(op, key)

OneJob ==
  \A j \in Jobs : jobs[j].status # "absent" =>
    Used("create_job", 1) /\ j = TheJob /\ jobs[j].profile = Profile

OneText ==
  \A r \in Drawn :
    /\ Used("submit_revision", 1)
    /\ revisions[r].content = Programme
    /\ \A s \in Drawn : s = r

TextSent ==
  Used("submit_revision", 1) =>
    /\ Used("create_job", 1)
    /\ \E r \in Drawn : revisions[r].job = TheJob /\ revisions[r].sequence = 1

TextChecked ==
  Used("run_quality", 1) =>
    Used("submit_revision", 1) /\ \A r \in Drawn : batches[r] > 0

TextReleased ==
  Used("freeze", 1) => Used("create_job", 1) /\ jobs[TheJob].status = "frozen"

\* What the requests of all checks so far have come to.
ScriptInv ==
  OnlyScript /\ OneJob /\ OneText /\ TextSent /\ TextChecked /\ TextReleased

Commands == {"create", "revision", "quality", "finding", "review", "freeze"}

CheckRows ==
  [outcome : {"running", "passed", "failed"}, step : Questions \cup Commands,
   request : {"sent", "answered"}, version : Nat,
   job : Jobs \cup {None}, revision : Revisions \cup {None},
   items : Seq(Issues), item : Nat, valid : BOOLEAN, events : Nat, size : Nat]

\* How far a check has come says what was done, by it or by another.
Follows(q) ==
  /\ q.step \notin {"page", "create"} =>
       q.version >= 1 /\ Used("create_job", 1) /\ q.job = TheJob
  /\ q.step \notin {"page", "create", "revision"} =>
       Used("submit_revision", 1) /\ q.revision \in Drawn
  /\ q.step \in {"page", "create", "revision", "quality"} => q.item = 1
  /\ q.step = "finding" =>
       Len(q.items) = Cardinality(Reported) /\ q.item \in 1..Len(q.items)
  /\ q.step \in {"verify", "audit", "track"} => Used("freeze", 1)
  /\ q.step = "track" => q.events >= 5 /\ q.events <= Len(audit[q.job])
  /\ q.request = "answered" /\ q.step \in Commands => Used(Operation(q.step), KeyOf(q))
  /\ q.outcome = "passed" => q.step = "track"

Sound == {q \in CheckRows : Follows(q)}

ChecksFollow == checks \in [Checkers -> Sound \cup {None}]

\* The keys a check sends are keys, and those of its script.
LEMMA KeysOfScript ==
  ASSUME NEW q \in Sound, q.step \in Commands
  PROVE  /\ Operation(q.step) \in Ops /\ KeyOf(q) \in Keys
         /\ InScript(Operation(q.step), KeyOf(q))
<1>1. q.step # "finding" => KeyOf(q) = 1 /\ 1 \in Keys
  BY SelfCheckAssumption DEF KeyOf
<1>2. q.step = "finding" =>
        KeyOf(q) \in 1..Cardinality(Reported) /\ KeyOf(q) \in Keys
  BY SelfCheckAssumption DEF Sound, Follows, KeyOf, Reported
<1>3. /\ q.step = "create"   => Operation(q.step) = "create_job"
      /\ q.step = "revision" => Operation(q.step) = "submit_revision"
      /\ q.step = "quality"  => Operation(q.step) = "run_quality"
      /\ q.step = "finding"  => Operation(q.step) = "disposition_finding"
      /\ q.step = "review"   => Operation(q.step) = "review"
      /\ q.step = "freeze"   => Operation(q.step) = "freeze"
  BY DEF Operation
<1>. QED
  BY <1>1, <1>2, <1>3 DEF Commands, InScript, SentOnce, Ops

\* What was done stays done.
LEMMA UsedKept ==
  ASSUME TypeOK, ResultsKept
  PROVE  /\ \A op \in Ops, key \in Keys : Used(op, key) => Used(op, key)'
         /\ Used("create_job", 1) => TheJob' = TheJob /\ TheJob \in Jobs
<1>1. 1 \in Keys /\ "create_job" \in Ops
  BY SelfCheckAssumption DEF Ops
<1>2. Used("create_job", 1) => idempotency["create_job"][1] \in EffectRows
  BY <1>1 DEF Used, TypeOK, LedgerTypeOK
<1>. QED
  BY <1>1, <1>2 DEF Used, TheJob, ResultsKept, EffectRows

LEMMA DrawnKept ==
  ASSUME EvidenceGrows
  PROVE  \A r \in Drawn : r \in Drawn' /\ revisions'[r] = revisions[r]
  BY DEF EvidenceGrows, RevisionKept, Drawn

LEMMA SoundKept ==
  ASSUME TypeOK, EvidenceGrows, NEW q \in Sound
  PROVE  q \in Sound'
<1>1. q \in CheckRows /\ Follows(q)
  BY DEF Sound
<1>2. /\ \A op \in Ops, key \in Keys : Used(op, key) => Used(op, key)'
      /\ Used("create_job", 1) => TheJob' = TheJob /\ TheJob \in Jobs
  BY UsedKept DEF EvidenceGrows
<1>3. Drawn \subseteq Drawn'
  BY DrawnKept
<1>4. 1 \in Keys /\ {"create_job", "submit_revision", "freeze"} \subseteq Ops
  BY SelfCheckAssumption DEF Ops
<1>5. q.step \in Commands => Operation(q.step) \in Ops /\ KeyOf(q) \in Keys
  BY KeysOfScript
<1>6. q.step = "track" => q.events <= Len(audit'[q.job])
  <2>. SUFFICES ASSUME q.step = "track"  PROVE q.events <= Len(audit'[q.job])
    OBVIOUS
  <2>1. q.job \in Jobs /\ q.events \in Nat /\ q.events <= Len(audit[q.job])
    BY <1>1, <1>2 DEF Follows, CheckRows
  <2>2. Len(audit[q.job]) <= Len(audit'[q.job])
    BY <2>1 DEF EvidenceGrows, LogsExtended, Extends
  <2>3. Len(audit[q.job]) \in Nat
    BY <2>1 DEF TypeOK, LedgerTypeOK
  <2>. QED
    BY <2>1, <2>2, <2>3
<1>7. Follows(q)'
  BY <1>1, <1>2, <1>3, <1>4, <1>5, <1>6 DEF Follows
<1>. QED
  BY <1>1, <1>7 DEF Sound

\* The first answer to the quality check, which every repetition gets.
LEMMA FirstAnswer ==
  ASSUME CheckedByRules, ScriptInv, Used("run_quality", 1),
         NEW q, q.job = TheJob, q.revision \in Drawn
  PROVE  FirstFindings(q) = Reported
<1>1. PICK r \in Revisions : r = q.revision /\ batches[r] > 0 /\ ContentOf(r) = Programme
  BY DEF ScriptInv, TextChecked, OneText, Drawn, ContentOf
<1>2. revisions[r].job \in Jobs /\ jobs[revisions[r].job].status # "absent"
  BY <1>1 DEF CheckedByRules
<1>3. jobs[TheJob].profile = Profile
  BY <1>2 DEF ScriptInv, OneJob
<1>. QED
  BY <1>1, <1>3 DEF FirstFindings, Reported

LEMMA TrackOfRelease ==
  ASSUME TypeOK, NEW j \in Jobs, artifacts[j] # None
  PROVE  \E c \in Contents : artifacts[j].track = WebVTT[c]
<1>1. artifacts[j] \in ArtifactRows
  BY DEF TypeOK, EvidenceTypeOK
<1>2. artifacts[j].track \in {WebVTT[c] : c \in Contents}
  BY <1>1 DEF ArtifactRows
<1>. QED
  BY <1>2

LEMMA SetAsSequence ==
  ASSUME NEW S, IsFiniteSet(S)
  PROVE  SetToSeq(S) \in Seq(S) /\ Len(SetToSeq(S)) = Cardinality(S)
<1>1. PICK n \in Nat : ExistsBijection(1..n, S)
  BY FS_NatBijection
<1>2. Cardinality(S) = n
  BY <1>1, FS_CountingElements
<1>3. \E f \in [1..Cardinality(S) -> S] : IsInjective(f)
  BY <1>1, <1>2 DEF ExistsBijection, Bijection, Injection
<1>4. SetToSeq(S) \in [1..n -> S]
  BY <1>2, <1>3 DEF SetToSeq
<1>. QED
  BY <1>2, <1>4

\* An answer is of the kind the check reads it as.
LEMMA LearnedIsSound ==
  ASSUME TypeOK, ReleaseWasReviewed, ReleasesVerify, CheckedByRules, ScriptInv,
         NEW p \in Sound, p.request = "answered", p.outcome = "running"
  PROVE  /\ Learned(p) \in Sound
         /\ Learned(p).step = p.step /\ Learned(p).item = p.item
         /\ Learned(p).version = p.version
         /\ Learned(p).request = "answered" /\ Learned(p).outcome = "running"
         /\ p.step = "create" => Learned(p).job = TheJob
         /\ p.step = "revision" => Learned(p).revision \in Drawn
         /\ p.step = "quality" => Len(Learned(p).items) = Cardinality(Reported)
         /\ p.step = "audit" => Learned(p).events = Len(audit[p.job])
<1>0. p \in CheckRows /\ Follows(p)
  BY DEF Sound
<1>1. p.step \in Questions \cup Commands
  BY <1>0 DEF CheckRows
<1>2. Used("create_job", 1) => TheJob \in Jobs
  BY SelfCheckAssumption DEF Used, TheJob, TypeOK, LedgerTypeOK, EffectRows, Ops
<1>3. CASE p.step = "create"
  <2>1. Used("create_job", 1)
    BY <1>0, <1>3 DEF Follows, Commands, Operation, KeyOf
  <2>2. PICK job \in Jobs : job = TheJob
    BY <1>2, <2>1
  <2>3. Learned(p) = [p EXCEPT !.job = job]
    BY <1>3, <2>2 DEF Learned, TheJob
  <2>4. [p EXCEPT !.job = job] \in Sound
    BY <1>0, <1>3 DEF Sound, Follows, CheckRows, Operation, KeyOf
  <2>. QED
    BY <1>0, <1>3, <2>2, <2>3, <2>4 DEF CheckRows
<1>4. CASE p.step = "revision"
  <2>1. Used("submit_revision", 1) /\ p.job = TheJob /\ Used("create_job", 1)
    BY <1>0, <1>4 DEF Follows, Commands, Operation, KeyOf
  <2>2. PICK s \in Drawn : revisions[s].job = TheJob /\ revisions[s].sequence = 1
    BY <2>1 DEF ScriptInv, TextSent
  <2>3. PICK r : r = CHOOSE x \in RevisionsOf(p.job) : revisions[x].sequence = 1
    OBVIOUS
  <2>4. s \in RevisionsOf(p.job)
    BY <2>1, <2>2 DEF RevisionsOf, Drawn
  <2>5. r \in RevisionsOf(p.job)
    BY <2>2, <2>3, <2>4
  <2>6. r \in Drawn /\ r \in Revisions
    BY <1>2, <2>1, <2>5, WorkflowAssumption DEF RevisionsOf, Drawn
  <2>7. Learned(p) = [p EXCEPT !.revision = r]
    BY <1>4, <2>3 DEF Learned
  <2>8. [p EXCEPT !.revision = r] \in Sound
    BY <1>0, <1>4, <2>6 DEF Sound, Follows, CheckRows, Operation, KeyOf
  <2>. QED
    BY <1>0, <1>4, <2>6, <2>7, <2>8 DEF CheckRows
<1>5. CASE p.step = "quality"
  <2>1. Used("run_quality", 1) /\ p.job = TheJob /\ p.revision \in Drawn
    BY <1>0, <1>5 DEF Follows, Commands, Operation, KeyOf
  <2>2. FirstFindings(p) = Reported
    BY <2>1, FirstAnswer
  <2>3. PICK items : items = SetToSeq(Reported)
    OBVIOUS
  <2>4. Reported \subseteq Issues /\ IsFiniteSet(Reported)
    BY SelfCheckAssumption, DomainAssumption DEF Reported
  <2>5. items \in Seq(Issues) /\ Len(items) = Cardinality(Reported)
    <3>1. items \in Seq(Reported) /\ Len(items) = Cardinality(Reported)
      BY <2>3, <2>4, SetAsSequence
    <3>. QED
      BY <2>4, <3>1
  <2>6. Learned(p) = [p EXCEPT !.items = items]
    BY <1>5, <2>2, <2>3 DEF Learned
  <2>7. [p EXCEPT !.items = items] \in Sound
    BY <1>0, <1>5, <2>5 DEF Sound, Follows, CheckRows, Operation, KeyOf
  <2>. QED
    BY <1>0, <1>5, <2>5, <2>6, <2>7 DEF CheckRows
<1>6. CASE p.step = "verify"
  <2>1. p.job = TheJob /\ TheJob \in Jobs
    BY <1>0, <1>2, <1>6 DEF Follows
  <2>2. VerifyOnly(p.job, VerifyLimit).valid \in BOOLEAN
    BY DEF VerifyOnly, VerifyRelease
  <2>3. PICK valid \in BOOLEAN : valid = VerifyOnly(p.job, VerifyLimit).valid
    BY <2>2
  <2>4. Learned(p) = [p EXCEPT !.valid = valid]
    BY <1>6, <2>3 DEF Learned
  <2>5. [p EXCEPT !.valid = valid] \in CheckRows
    BY <1>0 DEF CheckRows
  <2>6. Follows([p EXCEPT !.valid = valid])
    BY <1>0, <1>6 DEF Follows, CheckRows, Operation, KeyOf, Commands
  <2>. QED
    BY <1>0, <1>6, <2>4, <2>5, <2>6 DEF CheckRows, Sound
<1>7. CASE p.step = "audit"
  <2>1. p.job = TheJob /\ TheJob \in Jobs
    BY <1>0, <1>2, <1>7 DEF Follows
  <2>2. PICK events \in Nat : events = Len(audit[p.job])
    BY <2>1 DEF TypeOK, LedgerTypeOK
  <2>3. Learned(p) = [p EXCEPT !.events = events]
    BY <1>7, <2>2 DEF Learned
  <2>4. [p EXCEPT !.events = events] \in Sound
    BY <1>0, <1>7 DEF Sound, Follows, CheckRows, Operation, KeyOf, Commands
  <2>. QED
    BY <1>0, <1>7, <2>2, <2>3, <2>4 DEF CheckRows
<1>8. CASE p.step = "track"
  <2>1. PICK size \in Nat : size = Rules!BytesAtLeast(artifacts[p.job].track)
    <3>1. p.job = TheJob /\ TheJob \in Jobs /\ Used("freeze", 1)
      BY <1>0, <1>2, <1>8 DEF Follows
    <3>2. artifacts[TheJob] # None
      BY <3>1 DEF ScriptInv, TextReleased, ReleaseWasReviewed, ReleaseStands
    <3>3. PICK c \in Contents : artifacts[TheJob].track = WebVTT[c]
      BY <3>1, <3>2, TrackOfRelease
    <3>. QED
      BY <3>1, <3>3, TracksAreLong
  <2>2. Learned(p) = [p EXCEPT !.size = size]
    BY <1>8, <2>1 DEF Learned
  <2>3. [p EXCEPT !.size = size] \in CheckRows
    BY <1>0 DEF CheckRows
  <2>4. Follows([p EXCEPT !.size = size])
    BY <1>0, <1>8 DEF Follows, CheckRows, Operation, KeyOf, Commands
  <2>. QED
    BY <1>0, <1>8, <2>2, <2>3, <2>4 DEF CheckRows, Sound
<1>9. CASE p.step \notin {"create", "revision", "quality", "verify", "audit", "track"}
  <2>1. Learned(p) = p
    BY <1>9 DEF Learned
  <2>. QED
    BY <1>9, <2>1
<1>. QED
  BY <1>3, <1>4, <1>5, <1>6, <1>7, <1>8, <1>9

\* The next request is one the answers so far allow.
LEMMA ProceedSound ==
  ASSUME TypeOK, ReleaseWasReviewed, ReleasesVerify, CheckedByRules, ScriptInv,
         ChecksFollow,
         NEW c \in Checkers, Proceed(c)
  PROVE  checks' \in [Checkers -> Sound \cup {None}]
<1>0. PICK p : p = checks[c]
  OBVIOUS
<1>1. PICK q : q = Learned(p)
  OBVIOUS
<1>2. p # None /\ p.outcome = "running" /\ p.request = "answered" /\ p \in Sound
  BY <1>0 DEF Proceed, ChecksFollow
<1>3. /\ q \in Sound /\ q.step = p.step /\ q.item = p.item /\ q.version = p.version
      /\ q.request = "answered" /\ q.outcome = "running"
      /\ p.step = "create" => q.job = TheJob
      /\ p.step = "revision" => q.revision \in Drawn
      /\ p.step = "quality" => Len(q.items) = Cardinality(Reported)
      /\ p.step = "audit" => q.events = Len(audit[p.job])
  BY <1>1, <1>2, LearnedIsSound
<1>4. q \in CheckRows /\ Follows(q)
  BY <1>3 DEF Sound
<1>5. [q EXCEPT !.outcome = "failed"] \in Sound
  BY <1>4 DEF Sound, Follows, CheckRows, Operation, KeyOf
<1>6. q.step = "track" => [q EXCEPT !.outcome = "passed"] \in Sound
  BY <1>4 DEF Sound, Follows, CheckRows, Operation, KeyOf
<1>7. ASSUME Accepts(q), q.step # "track"
      PROVE  [q EXCEPT !.step = AfterStep(q), !.version = Raised(q), !.request = "sent",
                       !.item = IF q.step = "finding" THEN @ + 1 ELSE @] \in Sound
  <2>1. PICK step, version, item :
          /\ step = AfterStep(q) /\ version = Raised(q)
          /\ item = IF q.step = "finding" THEN q.item + 1 ELSE q.item
    OBVIOUS
  <2>2. PICK t : t = [q EXCEPT !.step = step, !.version = version, !.request = "sent",
                               !.item = item]
    OBVIOUS
  <2>3. /\ t.step = step /\ t.version = version /\ t.request = "sent" /\ t.item = item
        /\ t.outcome = "running" /\ t.job = q.job /\ t.revision = q.revision
        /\ t.items = q.items /\ t.valid = q.valid /\ t.events = q.events
    BY <1>3, <1>4, <2>2 DEF CheckRows
  <2>4. version \in Nat /\ version >= q.version
        /\ (q.step \in Commands => version >= 1)
    BY <1>4, <2>1 DEF Raised, CheckRows, Commands, Questions
  <2>5. /\ q.step = "page"     => step = "create"
        /\ q.step = "create"   => step = "revision"
        /\ q.step = "revision" => step = "quality"
        /\ q.step = "quality"  => step = IF q.items = <<>> THEN "review" ELSE "finding"
        /\ q.step = "finding"  => step = IF q.item = Len(q.items) THEN "review" ELSE "finding"
        /\ q.step = "review"   => step = "freeze"
        /\ q.step = "freeze"   => step = "verify"
        /\ q.step = "verify"   => step = "audit"
        /\ q.step = "audit"    => step = "track"
    BY <2>1 DEF AfterStep
  <2>6. q.step \in {"page", "create", "revision", "quality", "finding", "review",
                    "freeze", "verify", "audit"}
    BY <1>4, <1>7 DEF CheckRows, Questions, Commands
  <2>7. step \in Questions \cup Commands /\ item \in Nat
    BY <1>4, <2>1, <2>5, <2>6 DEF Questions, Commands, CheckRows
  <2>8. t \in CheckRows
    BY <1>3, <1>4, <2>2, <2>4, <2>7 DEF CheckRows
  <2>9. step \notin {"page", "create"} =>
          t.version >= 1 /\ Used("create_job", 1) /\ t.job = TheJob
    <3>1. CASE q.step = "create"
      BY <1>3, <1>4, <2>3, <2>4, <3>1 DEF Follows, Commands, Operation, KeyOf
    <3>2. CASE q.step \notin {"page", "create"}
      BY <1>4, <2>3, <2>4, <3>2 DEF Follows, CheckRows
    <3>. QED
      BY <2>5, <3>1, <3>2
  <2>10. step \notin {"page", "create", "revision"} =>
           Used("submit_revision", 1) /\ t.revision \in Drawn
    <3>1. CASE q.step = "revision"
      BY <1>3, <1>4, <2>3, <3>1 DEF Follows, Commands, Operation, KeyOf
    <3>2. CASE q.step \notin {"page", "create", "revision"}
      BY <1>4, <2>3, <3>2 DEF Follows
    <3>. QED
      BY <2>5, <3>1, <3>2
  <2>11. step \in {"page", "create", "revision", "quality"} => t.item = 1
    BY <1>4, <2>1, <2>3, <2>5, <2>6 DEF Follows
  <2>12. step = "finding" =>
           Len(t.items) = Cardinality(Reported) /\ t.item \in 1..Len(t.items)
    <3>. SUFFICES ASSUME step = "finding"
                  PROVE  Len(t.items) = Cardinality(Reported) /\ t.item \in 1..Len(t.items)
      OBVIOUS
    <3>0. Len(q.items) \in Nat /\ q.items \in Seq(Issues)
      BY <1>4 DEF CheckRows
    <3>1. CASE q.step = "quality"
      <4>1. q.items # <<>> /\ q.item = 1 /\ item = 1
        BY <1>4, <2>1, <2>5, <3>1 DEF Follows
      <4>. QED
        BY <1>3, <2>3, <3>0, <3>1, <4>1
    <3>2. CASE q.step = "finding"
      <4>1. q.item # Len(q.items) /\ item = q.item + 1
            /\ q.item \in 1..Len(q.items) /\ Len(q.items) = Cardinality(Reported)
        BY <1>4, <2>1, <2>5, <3>2 DEF Follows
      <4>. QED
        BY <2>3, <3>0, <4>1
    <3>. QED
      BY <2>5, <2>6, <3>1, <3>2
  <2>13. step \in {"verify", "audit", "track"} => Used("freeze", 1)
    <3>1. CASE q.step = "freeze"
      BY <1>3, <1>4, <3>1 DEF Follows, Commands, Operation, KeyOf
    <3>2. CASE q.step \in {"verify", "audit"}
      BY <1>4, <3>2 DEF Follows
    <3>. QED
      BY <2>5, <2>6, <3>1, <3>2
  <2>14. step = "track" => t.events >= 5 /\ t.events <= Len(audit[t.job])
    <3>. SUFFICES ASSUME step = "track"
                  PROVE  t.events >= 5 /\ t.events <= Len(audit[t.job])
      OBVIOUS
    <3>1. q.step = "audit" /\ q.events >= 5
      BY <1>7, <2>5, <2>6 DEF Accepts
    <3>2. q.events = Len(audit[p.job]) /\ q.events \in Nat
      BY <1>3, <1>4, <3>1 DEF CheckRows
    <3>3. q.job = TheJob /\ p.job = TheJob
      BY <1>2, <1>3, <1>4, <3>1 DEF Sound, Follows
    <3>. QED
      BY <2>3, <3>1, <3>2, <3>3
  <2>15. Follows(t)
    BY <2>3, <2>9, <2>10, <2>11, <2>12, <2>13, <2>14 DEF Follows
  <2>16. [q EXCEPT !.step = AfterStep(q), !.version = Raised(q), !.request = "sent",
                       !.item = IF q.step = "finding" THEN @ + 1 ELSE @] = t
    BY <2>1, <2>2
  <2>. QED
    BY <2>8, <2>15, <2>16 DEF Sound
<1>8. \E next \in Sound : checks' = [checks EXCEPT ![c] = next]
  <2>1. CASE ~Accepts(q)
    BY <1>0, <1>1, <1>5, <2>1 DEF Proceed
  <2>2. CASE Accepts(q) /\ q.step = "track"
    BY <1>0, <1>1, <1>6, <2>2 DEF Proceed
  <2>3. CASE Accepts(q) /\ q.step # "track"
    BY <1>0, <1>1, <1>7, <2>3 DEF Proceed
  <2>. QED
    BY <2>1, <2>2, <2>3
<1>. QED
  BY <1>8 DEF ChecksFollow

(***************************************************************************)
(* A request of the script.                                                *)
(***************************************************************************)
\* The effect of a request is a command, and its key is used from then on.
LEMMA EffectMade ==
  ASSUME TypeOK, NEW q \in Sound, Effect(q)
  PROVE  /\ Next
         /\ q.step \in Commands
         /\ \E job \in Jobs :
              /\ idempotency' = RememberKey(Operation(q.step), KeyOf(q), job, jobs[job].version + 1)
              /\ \A k \in Jobs : k # job => jobs'[k] = jobs[k]
              /\ q.step # "create" => job = q.job /\ jobs[job].status # "absent"
<1>0. q \in CheckRows /\ Follows(q)
  BY DEF Sound
<1>1. /\ q.step = "create"   => Operation(q.step) = "create_job"
      /\ q.step = "revision" => Operation(q.step) = "submit_revision"
      /\ q.step = "quality"  => Operation(q.step) = "run_quality"
      /\ q.step = "finding"  => Operation(q.step) = "disposition_finding"
      /\ q.step = "review"   => Operation(q.step) = "review"
      /\ q.step = "freeze"   => Operation(q.step) = "freeze"
  BY DEF Operation
<1>2. /\ q.step # "finding" => KeyOf(q) = 1 /\ 1 \in Keys
      /\ q.step = "finding" => KeyOf(q) = q.item
      /\ q.step \in Commands => KeyOf(q) \in Keys
  BY KeysOfScript, SelfCheckAssumption DEF KeyOf
<1>3. q.step \notin {"page", "create"} => q.job \in Jobs /\ q.version \in Nat /\ q.version >= 1
  <2>1. Used("create_job", 1) => TheJob \in Jobs
    BY SelfCheckAssumption DEF Used, TheJob, TypeOK, LedgerTypeOK, EffectRows, Ops
  <2>. QED
    BY <1>0, <2>1 DEF Follows, CheckRows
<1>4. ASSUME NEW op, NEW job \in Jobs, NEW key, NEW row, Commit(op, job, key, row)
      PROVE  /\ idempotency' = RememberKey(op, key, job, jobs[job].version + 1)
             /\ \A k \in Jobs : k # job => jobs'[k] = jobs[k]
  BY <1>4 DEF Commit, TypeOK, LedgerTypeOK
<1>5. ASSUME NEW op, NEW job \in Jobs, NEW key, Admit(op, job, q.version, key),
             q.version \in Nat, q.version >= 1
      PROVE  q.version \in 1..MaxVersion /\ jobs[job].status # "absent"
  <2>1. q.version < MaxVersion
    BY <1>5 DEF Admit, ExpectVersion
  <2>. QED
    BY <1>5, <2>1, WorkflowAssumption DEF Admit
<1>6. CASE q.step = "create"
  <2>1. PICK job \in Jobs : CreateJob(job, 1)
    BY <1>6 DEF Effect
  <2>2. \E row : Commit("create_job", job, 1, row)
    BY <2>1 DEF CreateJob
  <2>. QED
    BY <1>1, <1>2, <1>4, <1>6, <2>1, <2>2 DEF Next, Commands
<1>7. CASE q.step = "revision"
  <2>1. SubmitRevision(q.job, q.version, 1)
    BY <1>7 DEF Effect
  <2>2. Admit("submit_revision", q.job, q.version, 1)
        /\ \E row : Commit("submit_revision", q.job, 1, row)
    BY <2>1 DEF SubmitRevision
  <2>3. q.version \in 1..MaxVersion /\ jobs[q.job].status # "absent"
    BY <1>3, <1>5, <1>7, <2>2
  <2>. QED
    BY <1>1, <1>2, <1>3, <1>4, <1>7, <2>1, <2>2, <2>3 DEF Next, Command, Commands
<1>8. CASE q.step = "quality"
  <2>1. RunQuality(q.job, q.version, 1)
    BY <1>8 DEF Effect
  <2>2. Admit("run_quality", q.job, q.version, 1)
        /\ \E row : Commit("run_quality", q.job, 1, row)
    BY <2>1 DEF RunQuality
  <2>3. q.version \in 1..MaxVersion /\ jobs[q.job].status # "absent"
    BY <1>3, <1>5, <1>8, <2>2
  <2>. QED
    BY <1>1, <1>2, <1>3, <1>4, <1>8, <2>1, <2>2, <2>3 DEF Next, Command, Commands
<1>9. CASE q.step = "finding"
  <2>1. DispositionFinding(q.job, q.version, q.item)
    BY <1>9 DEF Effect
  <2>2. Admit("disposition_finding", q.job, q.version, q.item)
        /\ \E row : Commit("disposition_finding", q.job, q.item, row)
    BY <2>1 DEF DispositionFinding, Dispose
  <2>3. q.version \in 1..MaxVersion /\ jobs[q.job].status # "absent"
    BY <1>3, <1>5, <1>9, <2>2
  <2>4. q.item \in Keys
    BY <1>2, <1>9 DEF Commands
  <2>. QED
    BY <1>1, <1>2, <1>3, <1>4, <1>9, <2>1, <2>2, <2>3, <2>4 DEF Next, Command, Commands
<1>10. CASE q.step = "review"
  <2>1. Review(q.job, q.version, 1)
    BY <1>10 DEF Effect
  <2>2. Admit("review", q.job, q.version, 1)
        /\ \E row : Commit("review", q.job, 1, row)
    BY <2>1 DEF Review
  <2>3. q.version \in 1..MaxVersion /\ jobs[q.job].status # "absent"
    BY <1>3, <1>5, <1>10, <2>2
  <2>. QED
    BY <1>1, <1>2, <1>3, <1>4, <1>10, <2>1, <2>2, <2>3 DEF Next, Command, Commands
<1>11. CASE q.step = "freeze"
  <2>1. Freeze(q.job, q.version, 1)
    BY <1>11 DEF Effect
  <2>2. Admit("freeze", q.job, q.version, 1)
        /\ \E row : Commit("freeze", q.job, 1, row)
    BY <2>1 DEF Freeze
  <2>3. q.version \in 1..MaxVersion /\ jobs[q.job].status # "absent"
    BY <1>3, <1>5, <1>11, <2>2
  <2>. QED
    BY <1>1, <1>2, <1>3, <1>4, <1>11, <2>1, <2>2, <2>3 DEF Next, Command, Commands
<1>. QED
  BY <1>6, <1>7, <1>8, <1>9, <1>10, <1>11 DEF Effect

\* Nothing but the key of the request becomes used.
LEMMA EffectUses ==
  ASSUME TypeOK, NEW q \in Sound, Effect(q)
  PROVE  /\ Used(Operation(q.step), KeyOf(q))'
         /\ \A op \in Ops, key \in Keys :
              Used(op, key)' =>
                Used(op, key) \/ (op = Operation(q.step) /\ key = KeyOf(q))
<1>1. PICK job \in Jobs :
        idempotency' = RememberKey(Operation(q.step), KeyOf(q), job, jobs[job].version + 1)
  BY EffectMade
<1>2. PICK effect : effect = [job |-> job, version |-> jobs[job].version + 1]
  OBVIOUS
<1>3. effect # None
  <2>1. effect \in EffectRows
    BY <1>2 DEF TypeOK, LedgerTypeOK, JobRows, EffectRows
  <2>. QED
    BY <2>1, NoneIsNoRow
<1>4. idempotency' = [idempotency EXCEPT ![Operation(q.step)][KeyOf(q)] = effect]
  BY <1>1, <1>2 DEF RememberKey
<1>5. Operation(q.step) \in Ops /\ KeyOf(q) \in Keys
  BY EffectMade, KeysOfScript
<1>6. idempotency \in [Ops -> [Keys -> {None} \cup EffectRows]]
  BY DEF TypeOK, LedgerTypeOK
<1>. QED
  BY <1>3, <1>4, <1>5, <1>6 DEF Used

\* What a request leaves of the script's rows when it submits nothing.
LEMMA ScriptFrame ==
  ASSUME TypeOK, ScriptInv, EvidenceGrows, JobsKept,
         NEW q \in Sound, q.step \notin {"create", "revision"}, Effect(q),
         UNCHANGED revisions
  PROVE  OnlyScript' /\ OneJob' /\ OneText' /\ TextSent'
<1>1. /\ \A op \in Ops, key \in Keys : Used(op, key) => Used(op, key)'
      /\ Used("create_job", 1) => TheJob' = TheJob /\ TheJob \in Jobs
  BY UsedKept DEF EvidenceGrows
<1>2. /\ 1 \in Keys /\ {"create_job", "submit_revision"} \subseteq Ops
      /\ Operation(q.step) \notin {"create_job", "submit_revision"}
  <2>1. q.step \in Commands
    BY EffectMade
  <2>. QED
    BY <2>1, SelfCheckAssumption DEF Ops, Operation, Commands
<1>3. PICK job \in Jobs : jobs[job].status # "absent"
                          /\ \A k \in Jobs : k # job => jobs'[k] = jobs[k]
  BY EffectMade
<1>4. Drawn' = Drawn
  BY DEF Drawn
<1>5. OnlyScript'
  <2>1. ASSUME NEW op \in Ops, NEW key \in Keys, Used(op, key)'  PROVE InScript(op, key)
    BY <2>1, EffectUses, EffectMade, KeysOfScript DEF ScriptInv, OnlyScript
  <2>. QED
    BY <2>1 DEF OnlyScript
<1>6. OneJob'
  <2>1. ASSUME NEW k \in Jobs, jobs'[k].status # "absent"
        PROVE  Used("create_job", 1)' /\ k = TheJob' /\ jobs'[k].profile = Profile
    <3>1. jobs[k].status # "absent"
      BY <1>3, <2>1
    <3>2. Used("create_job", 1) /\ k = TheJob /\ jobs[k].profile = Profile
      BY <3>1 DEF ScriptInv, OneJob
    <3>. QED
      BY <1>1, <1>2, <3>1, <3>2 DEF JobsKept
  <2>. QED
    BY <2>1 DEF OneJob
<1>7. OneText'
  BY <1>1, <1>2, <1>4 DEF ScriptInv, OneText
<1>8. TextSent'
  <2>. SUFFICES ASSUME Used("submit_revision", 1)'
                PROVE  /\ Used("create_job", 1)'
                       /\ \E r \in Drawn : revisions'[r].job = TheJob' /\ revisions'[r].sequence = 1
    BY <1>4 DEF TextSent
  <2>1. Used("submit_revision", 1)
    BY <1>2, EffectUses
  <2>. QED
    BY <1>1, <1>2, <2>1 DEF ScriptInv, TextSent
<1>. QED
  BY <1>5, <1>6, <1>7, <1>8

\* A frozen job stays frozen, and a key not used by this request was before.
LEMMA ReleasedFrame ==
  ASSUME IInv, ScriptInv, EvidenceGrows, NEW q \in Sound, q.step # "freeze", Effect(q)
  PROVE  TextReleased'
<1>1. /\ \A op \in Ops, key \in Keys : Used(op, key) => Used(op, key)'
      /\ Used("create_job", 1) => TheJob' = TheJob /\ TheJob \in Jobs
  BY UsedKept DEF EvidenceGrows, IInv
<1>2. 1 \in Keys /\ {"create_job", "freeze"} \subseteq Ops /\ Operation(q.step) # "freeze"
  <2>1. q.step \in Commands
    BY EffectMade DEF IInv
  <2>. QED
    BY <2>1, SelfCheckAssumption DEF Ops, Operation, Commands
<1>. SUFFICES ASSUME Used("freeze", 1)'
              PROVE  Used("create_job", 1)' /\ jobs'[TheJob'].status = "frozen"
  BY DEF TextReleased
<1>3. Used("freeze", 1)
  BY <1>2, EffectUses DEF IInv
<1>4. Used("create_job", 1) /\ jobs[TheJob].status = "frozen" /\ TheJob \in Jobs
  BY <1>1, <1>3 DEF ScriptInv, TextReleased
<1>5. KeepsFrozen(TheJob)
  BY <1>4, EffectMade, StepKeepsFrozen DEF IInv
<1>6. PICK j \in Jobs : j = TheJob
  BY <1>4
<1>7. jobs'[j] = [jobs[j] EXCEPT !.version = jobs'[j].version] /\ jobs[j] \in JobRows
  BY <1>4, <1>5, <1>6 DEF KeepsFrozen, IInv, TypeOK, LedgerTypeOK
<1>8. jobs'[j].status = jobs[j].status
  BY <1>7 DEF JobRows
<1>. QED
  BY <1>1, <1>2, <1>4, <1>6, <1>8

\* The rules are run on what was checked already only by their own request.
LEMMA CheckedFrameOfScript ==
  ASSUME TypeOK, ScriptInv, EvidenceGrows, NEW q \in Sound, q.step # "quality", Effect(q),
         UNCHANGED <<revisions, batches>>
  PROVE  TextChecked'
<1>1. \A op \in Ops, key \in Keys : Used(op, key) => Used(op, key)'
  BY UsedKept DEF EvidenceGrows
<1>2. 1 \in Keys /\ {"run_quality", "submit_revision"} \subseteq Ops
      /\ Operation(q.step) # "run_quality"
  <2>1. q.step \in Commands
    BY EffectMade
  <2>. QED
    BY <2>1, SelfCheckAssumption DEF Ops, Operation, Commands
<1>3. Used("run_quality", 1)' => Used("run_quality", 1)
  BY <1>2, EffectUses
<1>4. Drawn' = Drawn
  BY DEF Drawn
<1>. QED
  BY <1>1, <1>2, <1>3, <1>4 DEF ScriptInv, TextChecked

\* The first request of all: nothing was there before it.
LEMMA CreateScript ==
  ASSUME IInv, ScriptInv, EvidenceGrows, NEW q \in Sound, q.step = "create", Effect(q)
  PROVE  ScriptInv'
<1>0. TypeOK
  BY DEF IInv
<1>1. PICK j \in Jobs : CreateJob(j, 1) /\ jobs'[j].profile = Profile
  BY DEF Effect
<1>2. 1 \in Keys /\ {"create_job", "submit_revision", "run_quality", "freeze"} \subseteq Ops
      /\ Operation(q.step) = "create_job" /\ KeyOf(q) = 1
  BY SelfCheckAssumption DEF Ops, Operation, KeyOf
<1>3. ~Used("create_job", 1)
  BY <1>1 DEF CreateJob, KeyUnused, Used
<1>4. \A k \in Jobs : jobs[k].status = "absent"
  BY <1>3 DEF ScriptInv, OneJob
<1>5. /\ ~Used("submit_revision", 1) /\ ~Used("run_quality", 1) /\ ~Used("freeze", 1)
      /\ Drawn = {}
  BY <1>3 DEF ScriptInv, TextSent, TextChecked, TextReleased, OneText
<1>6. Used("create_job", 1)' /\ ~Used("submit_revision", 1)' /\ ~Used("run_quality", 1)'
      /\ ~Used("freeze", 1)'
  BY <1>0, <1>2, <1>5, EffectUses
<1>7. Drawn' = {}
  BY <1>1, <1>5 DEF CreateJob, evidence, Drawn
<1>8. TheJob' = j
  <2>1. idempotency' = [idempotency EXCEPT !["create_job"][1] =
                          [job |-> j, version |-> jobs[j].version + 1]]
    BY <1>1 DEF CreateJob, Commit, RememberKey
  <2>. QED
    BY <1>0, <1>2, <2>1 DEF TheJob, TypeOK, LedgerTypeOK
<1>9. \A k \in Jobs : k # j => jobs'[k] = jobs[k]
  BY <1>0, <1>1 DEF CreateJob, Commit, TypeOK, LedgerTypeOK
<1>10. OnlyScript'
  <2>1. ASSUME NEW op \in Ops, NEW key \in Keys, Used(op, key)'  PROVE InScript(op, key)
    BY <1>0, <2>1, EffectUses, EffectMade, KeysOfScript DEF ScriptInv, OnlyScript
  <2>. QED
    BY <2>1 DEF OnlyScript
<1>11. OneJob'
  BY <1>1, <1>4, <1>6, <1>8, <1>9 DEF OneJob
<1>. QED
  BY <1>6, <1>7, <1>10, <1>11 DEF ScriptInv, OneText, TextSent, TextChecked, TextReleased

\* The text is sent once, as the first revision of the one job.
LEMMA SubmitScript ==
  ASSUME IInv, ScriptInv, EvidenceGrows, JobsKept,
         NEW q \in Sound, q.step = "revision", Effect(q)
  PROVE  ScriptInv'
<1>0. TypeOK /\ Follows(q)
  BY DEF IInv, Sound
<1>1. /\ \A op \in Ops, key \in Keys : Used(op, key) => Used(op, key)'
      /\ Used("create_job", 1) => TheJob' = TheJob /\ TheJob \in Jobs
  BY <1>0, UsedKept DEF EvidenceGrows
<1>2. 1 \in Keys /\ {"create_job", "submit_revision", "run_quality", "freeze"} \subseteq Ops
      /\ Operation(q.step) = "submit_revision" /\ KeyOf(q) = 1
  BY SelfCheckAssumption DEF Ops, Operation, KeyOf
<1>3. Used("create_job", 1) /\ q.job = TheJob /\ q.job \in Jobs
  BY <1>0, <1>1 DEF Follows
<1>4. SubmitRevision(q.job, q.version, 1)
      /\ revisions'[jobs'[q.job].current].content = Programme
  BY DEF Effect
<1>5. ~Used("submit_revision", 1) /\ jobs[q.job].status # "absent"
  BY <1>4 DEF SubmitRevision, Admit, KeyUnused, Used
<1>6. Drawn = {} /\ ~Used("run_quality", 1)
  BY <1>5 DEF ScriptInv, OneText, TextChecked
<1>7. PICK r \in Revisions : \E row :
        /\ revisions' = [revisions EXCEPT ![r] = row]
        /\ row.job = q.job /\ row.sequence = NextSequence(q.job)
        /\ \E status : Commit("submit_revision", q.job, 1,
                              [jobs[q.job] EXCEPT !.current = r, !.status = status])
  BY <1>4 DEF SubmitRevision
<1>8. PICK row :
        /\ revisions' = [revisions EXCEPT ![r] = row]
        /\ row.job = q.job /\ row.sequence = NextSequence(q.job)
  BY <1>7
<1>9. NextSequence(q.job) = 1
  <2>1. RevisionsOf(q.job) = {}
    BY <1>3, <1>6, WorkflowAssumption DEF RevisionsOf, Drawn
  <2>. QED
    BY <2>1, FS_EmptySet DEF NextSequence
<1>10. revisions'[r] = row /\ \A s \in Revisions : s # r => revisions'[s] = revisions[s]
  BY <1>0, <1>8 DEF TypeOK, EvidenceTypeOK
<1>11. Drawn' = {r}
  BY <1>3, <1>6, <1>8, <1>10, WorkflowAssumption DEF Drawn
<1>12. jobs'[q.job].current = r /\ \A k \in Jobs : k # q.job => jobs'[k] = jobs[k]
  <2>1. PICK status : Commit("submit_revision", q.job, 1,
                             [jobs[q.job] EXCEPT !.current = r, !.status = status])
    BY <1>7
  <2>. QED
    BY <1>0, <1>3, <2>1 DEF Commit, TypeOK, LedgerTypeOK, JobRows
<1>13. OnlyScript'
  <2>1. ASSUME NEW op \in Ops, NEW key \in Keys, Used(op, key)'  PROVE InScript(op, key)
    BY <1>0, <2>1, EffectUses, EffectMade, KeysOfScript DEF ScriptInv, OnlyScript
  <2>. QED
    BY <2>1 DEF OnlyScript
<1>14. OneJob'
  <2>1. ASSUME NEW k \in Jobs, jobs'[k].status # "absent"
        PROVE  Used("create_job", 1)' /\ k = TheJob' /\ jobs'[k].profile = Profile
    <3>1. jobs[k].status # "absent"
      BY <1>5, <1>12, <2>1
    <3>2. Used("create_job", 1) /\ k = TheJob /\ jobs[k].profile = Profile
      BY <3>1 DEF ScriptInv, OneJob
    <3>. QED
      BY <1>1, <1>2, <3>1, <3>2 DEF JobsKept
  <2>. QED
    BY <2>1 DEF OneJob
<1>15. Used("submit_revision", 1)' /\ Used("create_job", 1)' /\ ~Used("run_quality", 1)'
  BY <1>0, <1>1, <1>2, <1>3, <1>6, EffectUses
<1>16. OneText'
  BY <1>4, <1>11, <1>12, <1>15 DEF OneText
<1>17. TextSent'
  BY <1>1, <1>3, <1>8, <1>9, <1>10, <1>11, <1>15 DEF TextSent
<1>18. TextChecked'
  BY <1>15 DEF TextChecked
<1>19. TextReleased'
  BY ReleasedFrame
<1>. QED
  BY <1>13, <1>14, <1>16, <1>17, <1>18, <1>19 DEF ScriptInv

LEMMA EffectScript ==
  ASSUME IInv, ScriptInv, EvidenceGrows, JobsKept, NEW q \in Sound, Effect(q)
  PROVE  ScriptInv'
<1>0. TypeOK /\ q \in CheckRows /\ Follows(q)
  BY DEF IInv, Sound
<1>1. CASE q.step = "create"
  BY <1>1, CreateScript
<1>2. CASE q.step = "revision"
  BY <1>2, SubmitScript
<1>3. CASE q.step = "quality"
  <2>1. RunQuality(q.job, q.version, 1) /\ q.revision = Current(q.job)
    BY <1>3 DEF Effect
  <2>2. revisions' = revisions
        /\ batches' = [batches EXCEPT ![q.revision] = batches[q.revision] + 1]
    BY <2>1 DEF RunQuality
  <2>3. OnlyScript' /\ OneJob' /\ OneText' /\ TextSent' /\ TextReleased'
    BY <1>0, <1>3, <2>2, ScriptFrame, ReleasedFrame
  <2>4. TextChecked'
    <3>1. Used("submit_revision", 1) /\ q.revision \in Drawn
      BY <1>0, <1>3 DEF Follows
    <3>2. \A r \in Drawn : r = q.revision
      BY <3>1 DEF ScriptInv, OneText
    <3>3. q.revision \in Revisions /\ batches[q.revision] \in Nat
      BY <1>0, <3>1 DEF Drawn, TypeOK, EvidenceTypeOK
    <3>4. batches'[q.revision] > 0
      BY <1>0, <2>2, <3>3 DEF TypeOK, EvidenceTypeOK
    <3>5. Drawn' = Drawn
      BY <2>2 DEF Drawn
    <3>6. Used("submit_revision", 1)'
      BY <1>0, <3>1, UsedKept, SelfCheckAssumption DEF EvidenceGrows, Ops
    <3>. QED
      BY <3>2, <3>4, <3>5, <3>6 DEF TextChecked
  <2>. QED
    BY <2>3, <2>4 DEF ScriptInv
<1>4. CASE q.step = "finding"
  <2>1. UNCHANGED <<revisions, batches>>
    BY <1>4 DEF Effect, DispositionFinding, Dispose
  <2>. QED
    BY <1>0, <1>4, <2>1, ScriptFrame, ReleasedFrame, CheckedFrameOfScript DEF ScriptInv
<1>5. CASE q.step = "review"
  <2>1. UNCHANGED <<revisions, batches>>
    BY <1>5 DEF Effect, Review
  <2>. QED
    BY <1>0, <1>5, <2>1, ScriptFrame, ReleasedFrame, CheckedFrameOfScript DEF ScriptInv
<1>6. CASE q.step = "freeze"
  <2>1. Freeze(q.job, q.version, 1)
    BY <1>6 DEF Effect
  <2>2. UNCHANGED <<revisions, batches>>
    BY <2>1 DEF Freeze
  <2>3. OnlyScript' /\ OneJob' /\ OneText' /\ TextSent' /\ TextChecked'
    BY <1>0, <1>6, <2>2, ScriptFrame, CheckedFrameOfScript
  <2>4. TextReleased'
    <3>1. Used("create_job", 1) /\ q.job = TheJob
      BY <1>0, <1>6 DEF Follows
    <3>2. Used("create_job", 1)' /\ TheJob' = TheJob /\ TheJob \in Jobs
      BY <1>0, <3>1, UsedKept, SelfCheckAssumption DEF EvidenceGrows, Ops
    <3>3. PICK j \in Jobs : j = TheJob
      BY <3>2
    <3>4. Commit("freeze", j, 1, [jobs[j] EXCEPT !.status = "frozen"])
      BY <2>1, <3>1, <3>3 DEF Freeze
    <3>5. jobs'[j].status = "frozen"
      BY <1>0, <3>4, CommitStatus DEF Statuses
    <3>. QED
      BY <3>2, <3>3, <3>5 DEF TextReleased
  <2>. QED
    BY <2>3, <2>4 DEF ScriptInv
<1>. QED
  BY <1>1, <1>2, <1>3, <1>4, <1>5, <1>6 DEF Effect

(***************************************************************************)
(* All checks.                                                             *)
(***************************************************************************)
CInv == /\ IInv /\ EffectInv /\ ReleasesVerify /\ CheckedByRules
        /\ ScriptInv /\ ChecksFollow

LEMMA CheckStepIsStep ==
  ASSUME TypeOK, ChecksFollow, [CheckNext]_checkVars
  PROVE  [Next]_vars
<1>1. CASE UNCHANGED checkVars
  BY <1>1 DEF checkVars
<1>2. ASSUME NEW c \in Checkers, Carry(c)  PROVE [Next]_vars
  <2>1. PICK q : q = checks[c]
    OBVIOUS
  <2>2. q \in Sound
    BY <1>2, <2>1 DEF Carry, ChecksFollow
  <2>3. CASE Effect(q)
    BY <2>2, <2>3, EffectMade
  <2>4. CASE Replay(Operation(q.step), KeyOf(q))
    BY <2>4 DEF Replay
  <2>5. CASE Query(q)
    BY <2>5 DEF Query
  <2>. QED
    BY <1>2, <2>1, <2>3, <2>4, <2>5 DEF Carry
<1>3. ASSUME NEW c \in Checkers, Begin(c) \/ Proceed(c) \/ BreakOff(c) \/ Exit(c)
      PROVE  [Next]_vars
  BY <1>3 DEF Begin, Proceed, BreakOff, Exit
<1>. QED
  BY <1>1, <1>2, <1>3 DEF CheckNext

\* Steps that are no request leave what the script wrote.
LEMMA ScriptUntouched ==
  ASSUME ScriptInv, UNCHANGED vars
  PROVE  ScriptInv'
<1>1. UNCHANGED <<jobs, revisions, batches, idempotency>>
  BY DEF vars, evidence, ledger
<1>. QED
  BY <1>1 DEF ScriptInv, OnlyScript, OneJob, OneText, TextSent, TextChecked, TextReleased,
              Used, TheJob, Drawn

LEMMA CheckStep ==
  ASSUME CInv, [CheckNext]_checkVars
  PROVE  CInv'
<1>0. TypeOK /\ ScriptInv /\ ChecksFollow
  BY DEF CInv, IInv
<1>1. [Next]_vars
  BY <1>0, CheckStepIsStep
<1>2. IInv' /\ EffectInv' /\ ReleasesVerify' /\ CheckedByRules'
  BY <1>1, InvStep, StepOneEffect, StepVerifies, StepChecked DEF CInv, IInv
<1>3. EvidenceGrows /\ JobsKept
  BY <1>0, <1>1, StepGrows, StepKeepsJobs
<1>4. Sound \subseteq Sound'
  BY <1>0, <1>3, SoundKept
<1>5. ScriptInv' /\ ChecksFollow'
  <2>1. CASE UNCHANGED checkVars
    BY <1>0, <1>4, <2>1, ScriptUntouched DEF checkVars, ChecksFollow
  <2>2. ASSUME NEW c \in Checkers, Carry(c)  PROVE ScriptInv' /\ ChecksFollow'
    <3>1. PICK q : q = checks[c]
      OBVIOUS
    <3>2. q \in Sound /\ q.request = "sent"
      BY <1>0, <2>2, <3>1 DEF Carry, ChecksFollow
    <3>3. ScriptInv'
      <4>1. CASE Effect(q)
        BY <1>0, <1>3, <3>2, <4>1, EffectScript DEF CInv
      <4>2. CASE UNCHANGED vars
        BY <1>0, <4>2, ScriptUntouched
      <4>. QED
        BY <2>2, <3>1, <4>1, <4>2 DEF Carry, Replay, Query
    <3>4. q.step \in Commands => Used(Operation(q.step), KeyOf(q))'
      <4>1. CASE Effect(q)
        BY <1>0, <3>2, <4>1, EffectUses
      <4>2. CASE Replay(Operation(q.step), KeyOf(q))
        BY <4>2 DEF Replay, Used, vars, ledger
      <4>3. CASE Query(q)
        BY <4>3 DEF Query, Questions, Commands
      <4>. QED
        BY <2>2, <3>1, <4>1, <4>2, <4>3 DEF Carry
    <3>5. q \in Sound'
      BY <1>4, <3>2
    <3>6. [q EXCEPT !.request = "answered"] \in Sound'
      BY <3>4, <3>5 DEF Sound, Follows, CheckRows, Operation, KeyOf
    <3>7. checks' = [checks EXCEPT ![c] = [q EXCEPT !.request = "answered"]]
      BY <2>2, <3>1 DEF Carry
    <3>. QED
      BY <1>0, <1>4, <3>3, <3>6, <3>7 DEF ChecksFollow
  <2>3. ASSUME NEW c \in Checkers, Begin(c)  PROVE ScriptInv' /\ ChecksFollow'
    <3>1. NewCheck \in Sound'
      BY DEF Sound, Follows, CheckRows, NewCheck, Questions, Commands
    <3>. QED
      BY <1>0, <1>4, <2>3, <3>1, ScriptUntouched DEF Begin, ChecksFollow
  <2>4. ASSUME NEW c \in Checkers, Proceed(c)  PROVE ScriptInv' /\ ChecksFollow'
    <3>1. checks' \in [Checkers -> Sound \cup {None}]
      BY <1>0, <2>4, ProceedSound DEF CInv, IInv
    <3>2. UNCHANGED vars
      BY <2>4 DEF Proceed
    <3>. QED
      BY <1>0, <1>4, <3>1, <3>2, ScriptUntouched DEF ChecksFollow
  <2>5. ASSUME NEW c \in Checkers, BreakOff(c)  PROVE ScriptInv' /\ ChecksFollow'
    <3>1. PICK q : q = checks[c]
      OBVIOUS
    <3>2. q \in Sound'
      BY <1>0, <1>4, <2>5, <3>1 DEF BreakOff, ChecksFollow
    <3>3. [q EXCEPT !.outcome = Failing] \in Sound'
      BY <3>2 DEF Sound, Follows, CheckRows, Operation, KeyOf, Failing
    <3>4. checks' = [checks EXCEPT ![c] = [q EXCEPT !.outcome = Failing]] /\ UNCHANGED vars
      BY <2>5, <3>1 DEF BreakOff
    <3>. QED
      BY <1>0, <1>4, <3>3, <3>4, ScriptUntouched DEF ChecksFollow
  <2>6. ASSUME NEW c \in Checkers, Exit(c)  PROVE ScriptInv' /\ ChecksFollow'
    BY <1>0, <1>4, <2>6, ScriptUntouched DEF Exit, ChecksFollow
  <2>. QED
    BY <2>1, <2>2, <2>3, <2>4, <2>5, <2>6 DEF CheckNext
<1>. QED
  BY <1>2, <1>5 DEF CInv

LEMMA CheckInitSound ==
  ASSUME CheckInit
  PROVE  CInv
<1>0. Init
  BY DEF CheckInit
<1>1. IInv
  BY <1>0, InvInit
<1>2. \A op \in Ops, key \in Keys : ~Used(op, key)
  BY <1>0 DEF Init, Used
<1>3. EffectInv
  BY <1>0, <1>2 DEF Init, EffectInv, EffectsPast, OneEffectPerKey, AbsentJob, Used
<1>4. ReleasesVerify
  BY <1>0 DEF Init, ReleasesVerify, VerifyAudit, VerdictsStand, ReleaseVerifies
<1>5. CheckedByRules
  <2>1. \A r \in Revisions : ~(batches[r] > 0)
    BY <1>0 DEF Init
  <2>. QED
    BY <2>1 DEF CheckedByRules
<1>6. ScriptInv
  <2>1. 1 \in Keys /\ {"create_job", "submit_revision", "run_quality", "freeze"} \subseteq Ops
    BY SelfCheckAssumption DEF Ops
  <2>2. Drawn = {} /\ \A j \in Jobs : jobs[j].status = "absent"
    BY <1>0 DEF Init, AbsentJob, AbsentRevision, Drawn
  <2>. QED
    BY <1>2, <2>1, <2>2 DEF ScriptInv, OnlyScript, OneJob, OneText, TextSent, TextChecked,
                            TextReleased
<1>7. ChecksFollow
  BY DEF CheckInit, ChecksFollow
<1>. QED
  BY <1>1, <1>3, <1>4, <1>5, <1>6, <1>7 DEF CInv

\* What checks rely on holds, however many run at once and break off.
LEMMA ChecksAreSound == CheckSpec => []CInv
<1>1. CheckInit => CInv
  BY CheckInitSound
<1>2. CInv /\ [CheckNext]_checkVars => CInv'
  BY CheckStep
<1>. QED
  BY <1>1, <1>2, PTL DEF CheckSpec

\* The self check is a client like any other: with any number of checks the
\* service does only what the workflow allows, so what is proved of the
\* workflow holds of a store that is checked.
THEOREM ChecksAreClients == CheckSpec => Spec
<1>1. CInv => TypeOK /\ ChecksFollow
  BY DEF CInv, IInv
<1>2. TypeOK /\ ChecksFollow /\ [CheckNext]_checkVars => [Next]_vars
  BY CheckStepIsStep
<1>3. CheckInit => Init
  BY DEF CheckInit
<1>. QED
  BY <1>1, <1>2, <1>3, ChecksAreSound, PTL DEF CheckSpec, Spec

(***************************************************************************)
(* One release of all checks.                                              *)
(***************************************************************************)
LEMMA AtMostOne ==
  ASSUME NEW S, \A x, y \in S : x = y
  PROVE  Cardinality(S) <= 1
<1>1. CASE S = {}
  BY <1>1, FS_EmptySet
<1>2. CASE S # {}
  <2>1. PICK x \in S : TRUE
    BY <1>2
  <2>2. S = {x}
    BY <2>1
  <2>3. Cardinality({x}) = 1
    BY FS_Singleton
  <2>. QED
    BY <2>2, <2>3
<1>. QED
  BY <1>1, <1>2

\* The commands of the script, in the order in which they take effect.
Slot(op, key) ==
  CASE op = "create_job"          -> 1
    [] op = "submit_revision"     -> 2
    [] op = "run_quality"         -> 3
    [] op = "disposition_finding" -> 3 + key
    [] op = "review"              -> 4 + Cardinality(Reported)
    [] op = "freeze"              -> 5 + Cardinality(Reported)

LEMMA SlotsOfScript ==
  ASSUME NEW op, NEW key, InScript(op, key)
  PROVE  /\ Cardinality(Reported) \in Nat
         /\ \/ op = "create_job" /\ key = 1 /\ Slot(op, key) = 1
            \/ op = "submit_revision" /\ key = 1 /\ Slot(op, key) = 2
            \/ op = "run_quality" /\ key = 1 /\ Slot(op, key) = 3
            \/ /\ op = "disposition_finding" /\ key \in 1..Cardinality(Reported)
               /\ Slot(op, key) = 3 + key
            \/ op = "review" /\ key = 1 /\ Slot(op, key) = 4 + Cardinality(Reported)
            \/ op = "freeze" /\ key = 1 /\ Slot(op, key) = 5 + Cardinality(Reported)
<1>1. Cardinality(Reported) \in Nat
  BY FS_CardinalityType, SelfCheckAssumption DEF Reported
<1>2. CASE op \in SentOnce /\ key = 1
  BY <1>1, <1>2 DEF SentOnce, Slot
<1>3. CASE op = "disposition_finding" /\ key \in 1..Cardinality(Reported)
  BY <1>1, <1>3 DEF Slot
<1>. QED
  BY <1>1, <1>2, <1>3 DEF InScript

LEMMA SlotsDiffer ==
  ASSUME NEW op, NEW key, InScript(op, key), NEW other, NEW k, InScript(other, k)
  PROVE  /\ Slot(op, key) \in 1..(5 + Cardinality(Reported))
         /\ Slot(op, key) = Slot(other, k) => op = other /\ key = k
<1>1. PICK s, t : s = Slot(op, key) /\ t = Slot(other, k)
  OBVIOUS
<1>2. PICK count \in Nat : count = Cardinality(Reported)
  BY SlotsOfScript
<1>. DEFINE At(o, n, slot) ==
              \/ o = "create_job" /\ n = 1 /\ slot = 1
              \/ o = "submit_revision" /\ n = 1 /\ slot = 2
              \/ o = "run_quality" /\ n = 1 /\ slot = 3
              \/ o = "disposition_finding" /\ n \in 1..count /\ slot = 3 + n
              \/ o = "review" /\ n = 1 /\ slot = 4 + count
              \/ o = "freeze" /\ n = 1 /\ slot = 5 + count
<1>3. At(op, key, s) /\ At(other, k, t)
  BY <1>1, <1>2, SlotsOfScript
<1>4. s \in 1..(5 + count)
  BY <1>3
<1>5. ASSUME s = t  PROVE op = other /\ key = k
  <2>1. CASE s <= 3
    BY <1>3, <1>5, <2>1
  <2>2. CASE 3 < s /\ s < 4 + count
    BY <1>3, <1>5, <2>2
  <2>3. CASE s >= 4 + count
    BY <1>3, <1>5, <2>3
  <2>. QED
    BY <1>4, <2>1, <2>2, <2>3
<1>. QED
  BY <1>1, <1>2, <1>4, <1>5

LEMMA OneReleaseStep == CInv => OneReleaseOfAllChecks
<1>. SUFFICES ASSUME CInv  PROVE OneReleaseOfAllChecks
  OBVIOUS
<1>0. TypeOK /\ OneEffectPerKey /\ ScriptInv
  BY DEF CInv, IInv, EffectInv
<1>1. Cardinality({j \in Jobs : jobs[j].status # "absent"}) <= 1
  <2>1. \A j, k \in {i \in Jobs : jobs[i].status # "absent"} : j = k
    BY <1>0 DEF ScriptInv, OneJob
  <2>. QED
    BY <2>1, AtMostOne
<1>2. Cardinality(Drawn) <= 1
  <2>1. \A r, s \in Drawn : r = s
    BY <1>0 DEF ScriptInv, OneText
  <2>. QED
    BY <2>1, AtMostOne
<1>3. ASSUME NEW j \in Jobs
      PROVE  /\ \A m, n \in DOMAIN audit[j] :
                  audit[j][m].body = audit[j][n].body
                    => m = n \/ audit[j][m].body.type = "disposition_finding"
             /\ Len(audit[j]) <= 5 + Cardinality(Reported)
  <2>1. /\ Len(audit[j]) \in Nat /\ DOMAIN audit[j] = 1..Len(audit[j])
        /\ jobs[j].version = Len(audit[j])
    BY <1>0 DEF TypeOK, LedgerTypeOK, JobRows, OneEffectPerKey
  <2>2. \A n \in 1..Len(audit[j]) : \E op \in Ops, key \in Keys :
          MadeBy(j, n, op, key) /\ op = audit[j][n].body.type
    BY <1>0, <2>1 DEF OneEffectPerKey
  <2>3. ASSUME NEW n \in 1..Len(audit[j]), NEW op \in Ops, NEW key \in Keys,
               MadeBy(j, n, op, key)
        PROVE  InScript(op, key)
    <3>1. PICK effect : effect = [job |-> j, version |-> n]
      OBVIOUS
    <3>2. effect \in EffectRows
      BY <2>1, <3>1 DEF EffectRows
    <3>3. Used(op, key)
      BY <2>3, <3>1, <3>2, NoneIsNoRow DEF MadeBy, Used
    <3>. QED
      BY <1>0, <3>3 DEF ScriptInv, OnlyScript
  <2>4. ASSUME NEW m \in 1..Len(audit[j]), NEW n \in 1..Len(audit[j]),
               NEW op, NEW key, MadeBy(j, m, op, key), MadeBy(j, n, op, key)
        PROVE  m = n
    <3>1. [job |-> j, version |-> m] = [job |-> j, version |-> n]
      BY <2>4 DEF MadeBy
    <3>2. [job |-> j, version |-> m].version = [job |-> j, version |-> n].version
      BY <3>1
    <3>. QED
      BY <3>2
  <2>5. ASSUME NEW m \in 1..Len(audit[j]), NEW n \in 1..Len(audit[j]),
               audit[j][m].body = audit[j][n].body,
               audit[j][m].body.type # "disposition_finding"
        PROVE  m = n
    <3>1. PICK op \in Ops, key \in Keys : MadeBy(j, m, op, key) /\ op = audit[j][m].body.type
      BY <2>2
    <3>2. PICK k \in Keys : MadeBy(j, n, op, k)
      BY <2>2, <2>5, <3>1
    <3>3. key = 1 /\ k = 1
      BY <2>3, <2>5, <3>1, <3>2 DEF InScript
    <3>. QED
      BY <2>4, <3>1, <3>2, <3>3
  <2>6. Len(audit[j]) <= 5 + Cardinality(Reported)
    <3>. DEFINE Maker(n, s) == \E op \in Ops, key \in Keys :
                                 MadeBy(j, n, op, key) /\ s = Slot(op, key)
    <3>0. Cardinality(Reported) \in Nat
      BY FS_CardinalityType, SelfCheckAssumption DEF Reported
    <3>1. PICK slots : slots = 1..(5 + Cardinality(Reported))
      OBVIOUS
    <3>2. IsFiniteSet(slots) /\ Cardinality(slots) = 5 + Cardinality(Reported)
      BY <3>0, <3>1, FS_Interval
    <3>3. \A n \in 1..Len(audit[j]) : \E s \in slots : Maker(n, s)
      BY <2>2, <2>3, <3>1, SlotsDiffer
    <3>4. ASSUME NEW m \in 1..Len(audit[j]), NEW n \in 1..Len(audit[j]),
                 NEW s, Maker(m, s), Maker(n, s)
          PROVE  m = n
      <4>1. PICK op \in Ops, key \in Keys : MadeBy(j, m, op, key) /\ s = Slot(op, key)
        BY <3>4
      <4>2. PICK other \in Ops, k \in Keys : MadeBy(j, n, other, k) /\ s = Slot(other, k)
        BY <3>4
      <4>3. InScript(op, key) /\ InScript(other, k)
        BY <2>3, <4>1, <4>2
      <4>4. Slot(op, key) = Slot(other, k)
        BY <4>1, <4>2
      <4>5. op = other /\ key = k
        BY <4>3, <4>4, SlotsDiffer
      <4>. QED
        BY <2>4, <4>1, <4>2, <4>5
    <3>. HIDE DEF Maker
    <3>5. PICK f : f = [n \in 1..Len(audit[j]) |-> CHOOSE s \in slots : Maker(n, s)]
      OBVIOUS
    <3>6. \A n \in 1..Len(audit[j]) : f[n] \in slots /\ Maker(n, f[n])
      BY <3>3, <3>5
    <3>7. f \in Injection(1..Len(audit[j]), slots)
      <4>1. f \in [1..Len(audit[j]) -> slots]
        BY <3>5, <3>6
      <4>2. ASSUME NEW m \in 1..Len(audit[j]), NEW n \in 1..Len(audit[j]), f[m] = f[n]
            PROVE  m = n
        <5>1. PICK s : s = f[m] /\ s = f[n]
          BY <4>2
        <5>2. Maker(m, s) /\ Maker(n, s)
          BY <3>6, <5>1
        <5>. QED
          BY <3>4, <5>2
      <4>. QED
        BY <4>1, <4>2 DEF Injection, IsInjective
    <3>8. Cardinality(1..Len(audit[j])) <= Cardinality(slots)
      BY <3>2, <3>7, FS_Injection
    <3>9. Cardinality(1..Len(audit[j])) = Len(audit[j])
      BY <2>1, FS_Interval
    <3>. QED
      BY <3>2, <3>8, <3>9
  <2>. QED
    BY <2>1, <2>5, <2>6
<1>. QED
  BY <1>1, <1>2, <1>3 DEF OneReleaseOfAllChecks, Reported

\* However many checks run, break off and are started again, they make one job,
\* one revision and one release, and each command of the script once.
THEOREM OneReleaseIsMade == CheckSpec => []OneReleaseOfAllChecks
  BY ChecksAreSound, OneReleaseStep, PTL

LEMMA SuccessStep == CInv => SuccessMeansReleased
<1>. SUFFICES ASSUME CInv, NEW c \in Checkers,
                     checks[c] # None, checks[c].outcome = "passed"
              PROVE  LET j == checks[c].job IN
                     /\ j \in Jobs
                     /\ jobs[j].status = "frozen"
                     /\ ReleaseStands(j)
                     /\ artifacts[j].track = WebVTT[Programme]
                     /\ VerifyRelease(artifacts[j], audit[j])
                     /\ Len(audit[j]) >= 5
  BY DEF SuccessMeansReleased
<1>1. PICK q : q = checks[c]
  OBVIOUS
<1>2. q \in CheckRows /\ Follows(q) /\ q.step = "track"
  BY <1>1 DEF CInv, ChecksFollow, Sound, Follows
<1>3. PICK j : j = q.job
  OBVIOUS
<1>4. Used("create_job", 1) /\ j = TheJob /\ Used("freeze", 1)
      /\ q.events >= 5 /\ q.events <= Len(audit[j])
  BY <1>2, <1>3 DEF Follows
<1>5. j \in Jobs
  BY <1>4, SelfCheckAssumption
     DEF CInv, IInv, Used, TheJob, TypeOK, LedgerTypeOK, EffectRows, Ops
<1>6. jobs[j].status = "frozen"
  BY <1>4 DEF CInv, ScriptInv, TextReleased
<1>7. ReleaseStands(j)
  BY <1>5 DEF CInv, IInv, ReleaseWasReviewed
<1>8. Current(j) # None
  BY <1>5, <1>6 DEF CInv, IInv, ReviewGate, PastGate
<1>9. Current(j) \in Drawn
  BY <1>5, <1>8, CurrentIsRow, WorkflowAssumption DEF CInv, IInv, Drawn
<1>10. ContentOf(Current(j)) = Programme
  BY <1>9 DEF CInv, ScriptInv, OneText, ContentOf
<1>11. artifacts[j] # None /\ artifacts[j].track = WebVTT[Programme]
  BY <1>6, <1>7, <1>10 DEF ReleaseStands
<1>12. VerifyRelease(artifacts[j], audit[j])
  BY <1>5, <1>11 DEF CInv, ReleasesVerify, ReleaseVerifies
<1>13. Len(audit[j]) \in Nat /\ q.events \in Nat
  BY <1>2, <1>5 DEF CInv, IInv, TypeOK, LedgerTypeOK, CheckRows
<1>14. Len(audit[j]) >= 5
  BY <1>4, <1>13
<1>. QED
  BY <1>1, <1>3, <1>5, <1>6, <1>7, <1>11, <1>12, <1>14

\* A check that says it passed did: the text it sent is released, by the rules
\* every release has passed, and the release verifies.
THEOREM SuccessIsReal == CheckSpec => []SuccessMeansReleased
  BY ChecksAreSound, SuccessStep, PTL

----------------------------------------------------------------------------
(***************************************************************************)
(* No request is refused.                                                  *)
(*                                                                         *)
(* The script is one sequence of commands, and every check is somewhere in *)
(* it: the commands that took effect are a prefix of the script, the rows  *)
(* are what that prefix leaves, and no check is ahead of it.  A check that *)
(* is behind sends what was done, and gets the answer kept for it; one     *)
(* that is not sends the next command, to rows that are as it expects.     *)
(***************************************************************************)
Items == SetToSeq(Reported)

\* How many commands of the script have taken effect.
Reached == IF Used("create_job", 1) THEN jobs[TheJob].version ELSE 0

InOrder ==
  \A op \in Ops, key \in Keys :
    InScript(op, key) => (Used(op, key) <=> Slot(op, key) <= Reached)

Disposed(i) ==
  \E k \in 1..Cardinality(Reported) :
    Items[k] = i /\ Used("disposition_finding", k)

\* The rows of the findings on the text once the rules were run on it.
Marks ==
  [i \in Issues |-> IF i \notin Reported THEN "absent"
                    ELSE IF Disposed(i) THEN "false_positive" ELSE "open"]

MarksFollow(r) ==
  IF Used("run_quality", 1) THEN findings[r] = Marks ELSE NoFindings(r)

StatusFollows(r) ==
  LET status == jobs[TheJob].status IN
  /\ Used("submit_revision", 1) /\ ~Used("run_quality", 1) => status = "draft"
  /\ Used("run_quality", 1) /\ ~Used("review", 1) =>
       status = StatusAfterFindings(findings[r])
  /\ Used("review", 1) /\ ~Used("freeze", 1) => status = "approved"

RowsFollow ==
  /\ Used("create_job", 1) /\ ~Used("submit_revision", 1) =>
       jobs[TheJob].status = "draft" /\ Current(TheJob) = None
  /\ \A r \in Drawn :
       /\ Current(TheJob) = r /\ revisions[r].author = Editor
       /\ MarksFollow(r) /\ StatusFollows(r)

\* A check counts versions along, and is not ahead of what was done.
InStep(q) ==
  /\ q.step = "page" => q.version = 0
  /\ q.step \in Commands =>
       /\ q.version = Slot(Operation(q.step), KeyOf(q)) - 1
       /\ q.version <= Reached
  /\ q.step = "finding" => q.items = Items

ChecksInStep == \A c \in Checkers : checks[c] # None => InStep(checks[c])

LEMMA ItemsShape ==
  /\ Items \in Seq(Issues) /\ Len(Items) = Cardinality(Reported)
  /\ \A m, n \in 1..Cardinality(Reported) : Items[m] = Items[n] => m = n
  /\ \A i : i \in Reported <=> \E k \in 1..Cardinality(Reported) : Items[k] = i
<1>1. PICK items : items = Items
  OBVIOUS
<1>2. IsFiniteSet(Reported) /\ Reported \subseteq Issues /\ Cardinality(Reported) \in Nat
  BY FS_CardinalityType, SelfCheckAssumption, DomainAssumption DEF Reported
<1>3. \E f \in [1..Cardinality(Reported) -> Reported] : IsInjective(f)
  <2>1. PICK n \in Nat : ExistsBijection(1..n, Reported)
    BY <1>2, FS_NatBijection
  <2>. QED
    BY <1>2, <2>1, FS_CountingElements DEF ExistsBijection, Bijection, Injection
<1>4. items \in [1..Cardinality(Reported) -> Reported] /\ IsInjective(items)
  BY <1>1, <1>3 DEF Items, SetToSeq
<1>5. items \in Injection(1..Cardinality(Reported), Reported)
  BY <1>4 DEF Injection
<1>6. Cardinality(1..Cardinality(Reported)) = Cardinality(Reported)
  BY <1>2, FS_Interval
<1>7. items \in Surjection(1..Cardinality(Reported), Reported)
  BY <1>2, <1>5, <1>6, FS_Injection
<1>8. items \in Seq(Reported) /\ Len(items) = Cardinality(Reported)
  BY <1>2, <1>4
<1>9. \A m, n \in 1..Cardinality(Reported) : items[m] = items[n] => m = n
  BY <1>4 DEF IsInjective
<1>10. \A i : i \in Reported <=> \E k \in 1..Cardinality(Reported) : items[k] = i
  BY <1>4, <1>7 DEF Surjection
<1>. QED
  BY <1>1, <1>2, <1>8, <1>9, <1>10

LEMMA StepOperation ==
  ASSUME NEW q \in Sound
  PROVE  /\ q.step = "create"   => Operation(q.step) = "create_job" /\ KeyOf(q) = 1
         /\ q.step = "revision" => Operation(q.step) = "submit_revision" /\ KeyOf(q) = 1
         /\ q.step = "quality"  => Operation(q.step) = "run_quality" /\ KeyOf(q) = 1
         /\ q.step = "finding"  => /\ Operation(q.step) = "disposition_finding"
                                   /\ KeyOf(q) = q.item
                                   /\ q.item \in 1..Cardinality(Reported)
         /\ q.step = "review"   => Operation(q.step) = "review" /\ KeyOf(q) = 1
         /\ q.step = "freeze"   => Operation(q.step) = "freeze" /\ KeyOf(q) = 1
         /\ q.step \notin {"page", "create"} => Used("create_job", 1) /\ q.job = TheJob
         /\ q.step \notin {"page", "create", "revision"} => q.revision \in Drawn
  BY DEF Operation, KeyOf, Sound, Follows

LEMMA TheJobIsJob ==
  ASSUME TypeOK, Used("create_job", 1)
  PROVE  TheJob \in Jobs /\ jobs[TheJob].version \in Nat /\ Reached = jobs[TheJob].version
<1>1. TheJob \in Jobs
  BY SelfCheckAssumption DEF Used, TheJob, TypeOK, LedgerTypeOK, EffectRows, Ops
<1>. QED
  BY <1>1 DEF TypeOK, LedgerTypeOK, JobRows, Reached

\* A command of the script raises the version of its job.
LEMMA EffectRaises ==
  ASSUME TypeOK, NEW q \in Sound, Effect(q)
  PROVE  \E job \in Jobs :
           /\ idempotency' = RememberKey(Operation(q.step), KeyOf(q), job, jobs[job].version + 1)
           /\ jobs'[job].version = jobs[job].version + 1
           /\ q.step = "create" => jobs[job].status = "absent"
           /\ q.step # "create" =>
                /\ job = TheJob
                /\ ~Used(Operation(q.step), KeyOf(q))
                /\ jobs[job].version = q.version
<1>1. q.step \in Commands /\ KeyOf(q) \in Keys
  BY EffectMade, KeysOfScript
<1>2. ASSUME NEW op, NEW key, NEW job \in Jobs, NEW row, Commit(op, job, key, row)
      PROVE  idempotency' = RememberKey(op, key, job, jobs[job].version + 1)
  BY <1>2 DEF Commit
<1>3. ASSUME NEW op, NEW key, NEW job \in Jobs, NEW row \in JobRows,
             Commit(op, job, key, row)
      PROVE  jobs'[job].version = jobs[job].version + 1
  BY <1>3 DEF Commit, TypeOK, LedgerTypeOK, JobRows
<1>4. CASE q.step = "create"
  <2>1. PICK job \in Jobs : CreateJob(job, 1) /\ jobs[job].status = "absent"
    BY <1>4 DEF Effect, CreateJob
  <2>2. PICK profile \in Profiles :
          Commit("create_job", job, 1,
                 [AbsentJob EXCEPT !.status = "draft", !.profile = profile])
    BY <2>1 DEF CreateJob
  <2>3. [AbsentJob EXCEPT !.status = "draft", !.profile = profile] \in JobRows
    BY DEF AbsentJob, JobRows, Statuses
  <2>4. jobs'[job].version = jobs[job].version + 1
    BY <1>3, <2>2, <2>3 DEF Ops
  <2>. QED
    BY <1>2, <1>4, <2>1, <2>2, <2>4, StepOperation
<1>5. ASSUME q.step # "create",
             Command(q.job, q.version, KeyOf(q)),
             Admit(Operation(q.step), q.job, q.version, KeyOf(q))
      PROVE  /\ jobs'[TheJob].version = jobs[TheJob].version + 1
             /\ idempotency' = RememberKey(Operation(q.step), KeyOf(q), TheJob,
                                           jobs[TheJob].version + 1)
             /\ TheJob \in Jobs
             /\ ~Used(Operation(q.step), KeyOf(q))
             /\ jobs[TheJob].version = q.version
  <2>1. q.step # "page" /\ q.job = TheJob /\ Used("create_job", 1)
    BY <1>1, <1>5, StepOperation DEF Commands
  <2>2. PICK job \in Jobs : job = q.job
    BY <2>1, TheJobIsJob
  <2>3. \E op \in Ops, row \in JobRows : Commit(op, job, KeyOf(q), row)
    BY <1>1, <1>5, <2>2, CommandCommits
  <2>4. jobs'[job].version = jobs[job].version + 1
    BY <1>3, <2>3
  <2>5. PICK other \in Jobs :
          /\ idempotency' = RememberKey(Operation(q.step), KeyOf(q), other, jobs[other].version + 1)
          /\ q.step # "create" => other = q.job
    BY EffectMade
  <2>6. ~Used(Operation(q.step), KeyOf(q)) /\ jobs[job].version = q.version
    BY <1>5, <2>2 DEF Admit, KeyUnused, ExpectVersion, Used
  <2>. QED
    BY <1>5, <2>1, <2>2, <2>4, <2>5, <2>6
<1>6. CASE q.step = "revision"
  <2>1. Command(q.job, q.version, KeyOf(q)) /\ Admit(Operation(q.step), q.job, q.version, KeyOf(q))
    BY <1>6, StepOperation DEF Effect, Command, SubmitRevision
  <2>. QED
    BY <1>5, <1>6, <2>1
<1>7. CASE q.step = "quality"
  <2>1. Command(q.job, q.version, KeyOf(q)) /\ Admit(Operation(q.step), q.job, q.version, KeyOf(q))
    BY <1>7, StepOperation DEF Effect, Command, RunQuality
  <2>. QED
    BY <1>5, <1>7, <2>1
<1>8. CASE q.step = "finding"
  <2>1. Command(q.job, q.version, KeyOf(q)) /\ Admit(Operation(q.step), q.job, q.version, KeyOf(q))
    BY <1>8, StepOperation DEF Effect, Command, DispositionFinding
  <2>. QED
    BY <1>5, <1>8, <2>1
<1>9. CASE q.step = "review"
  <2>1. Command(q.job, q.version, KeyOf(q)) /\ Admit(Operation(q.step), q.job, q.version, KeyOf(q))
    BY <1>9, StepOperation DEF Effect, Command, Review
  <2>. QED
    BY <1>5, <1>9, <2>1
<1>10. CASE q.step = "freeze"
  <2>1. Command(q.job, q.version, KeyOf(q)) /\ Admit(Operation(q.step), q.job, q.version, KeyOf(q))
    BY <1>10, StepOperation DEF Effect, Command, Freeze
  <2>. QED
    BY <1>5, <1>10, <2>1
<1>. QED
  BY <1>1, <1>4, <1>6, <1>7, <1>8, <1>9, <1>10 DEF Commands

\* The next command of the script is the one that takes effect.
LEMMA EffectInOrder ==
  ASSUME CInv, InOrder, NEW q \in Sound, InStep(q), Effect(q)
  PROVE  /\ Reached \in Nat /\ Reached' = Reached + 1
         /\ Reached' = Slot(Operation(q.step), KeyOf(q))
         /\ Used("create_job", 1)' /\ TheJob' \in Jobs
         /\ q.step # "create" => TheJob' = TheJob
         /\ InOrder'
<1>0. TypeOK /\ OneEffectPerKey /\ ScriptInv
  BY DEF CInv, IInv, EffectInv
<1>. DEFINE op == Operation(q.step)
            key == KeyOf(q)
<1>1. op \in Ops /\ key \in Keys /\ InScript(op, key) /\ q.step \in Commands
  BY <1>0, EffectMade, KeysOfScript
<1>2. PICK slot \in Nat : slot = Slot(op, key) /\ slot >= 1
  BY <1>1, SlotsDiffer, SlotsOfScript
<1>3. PICK job \in Jobs :
        /\ idempotency' = RememberKey(op, key, job, jobs[job].version + 1)
        /\ jobs'[job].version = jobs[job].version + 1
        /\ q.step = "create" => jobs[job].status = "absent"
        /\ q.step # "create" =>
             job = TheJob /\ ~Used(op, key) /\ jobs[job].version = q.version
  BY <1>0, EffectRaises
<1>4. 1 \in Keys /\ "create_job" \in Ops
  BY SelfCheckAssumption DEF Ops
<1>5. idempotency'[op][key].job = job
  BY <1>0, <1>1, <1>3 DEF RememberKey, TypeOK, LedgerTypeOK
<1>6. jobs[job].version \in Nat
  BY <1>0 DEF TypeOK, LedgerTypeOK, JobRows
<1>7. Reached \in Nat /\ Reached' = Reached + 1 /\ Reached' = slot
      /\ Used("create_job", 1)' /\ TheJob' = job /\ ~Used(op, key)
      /\ (q.step # "create" => TheJob' = TheJob)
  <2>1. CASE q.step = "create"
    <3>1. op = "create_job" /\ key = 1 /\ slot = 1
      BY <1>2, <2>1, StepOperation DEF Slot
    <3>2. ~Used("create_job", 1)
      <4>1. CreateJob(job, 1) \/ \E j \in Jobs : CreateJob(j, 1)
        BY <2>1 DEF Effect
      <4>. QED
        BY <4>1 DEF CreateJob, KeyUnused, Used
    <3>3. Reached = 0
      BY <3>2 DEF Reached
    <3>4. \A o \in Ops, k \in Keys : ~Used(o, k)
      <4>1. ASSUME NEW o \in Ops, NEW k \in Keys, Used(o, k)  PROVE FALSE
        <5>1. InScript(o, k)
          BY <1>0, <4>1 DEF ScriptInv, OnlyScript
        <5>2. Slot(o, k) <= 0
          BY <3>3, <4>1, <5>1 DEF InOrder
        <5>3. Slot(o, k) \in 1..(5 + Cardinality(Reported))
          BY <5>1, SlotsDiffer
        <5>. QED
          BY <5>1, <5>2, <5>3, SlotsOfScript
      <4>. QED
        BY <4>1
    <3>5. jobs[job].version = 0
      <4>1. ASSUME jobs[job].version # 0  PROVE FALSE
        <5>1. 1 \in 1..jobs[job].version
          BY <1>6, <4>1
        <5>2. PICK o \in Ops, k \in Keys : MadeBy(job, 1, o, k)
          BY <1>0, <5>1 DEF OneEffectPerKey
        <5>3. Used(o, k)
          BY <5>2, NoneIsNoRow DEF MadeBy, Used, EffectRows
        <5>. QED
          BY <3>4, <5>3
      <4>. QED
        BY <4>1
    <3>6. Used("create_job", 1)'
      BY <1>0, <3>1, EffectUses
    <3>7. TheJob' = job
      BY <1>5, <3>1 DEF TheJob
    <3>8. Reached' = 1
      BY <1>3, <3>5, <3>6, <3>7 DEF Reached
    <3>. QED
      BY <2>1, <3>1, <3>2, <3>3, <3>6, <3>7, <3>8
  <2>2. CASE q.step # "create"
    <3>1. Used("create_job", 1) /\ job = TheJob /\ jobs[job].version = q.version
          /\ ~Used(op, key)
      BY <1>1, <1>3, <2>2, StepOperation DEF Commands
    <3>2. q.version = slot - 1
      BY <1>1, <1>2 DEF InStep
    <3>3. Reached = jobs[job].version
      BY <3>1 DEF Reached
    <3>4. op # "create_job"
      BY <1>1, <2>2, StepOperation DEF Commands
    <3>5. idempotency'["create_job"] = idempotency["create_job"]
      BY <1>0, <1>3, <1>4, <3>4 DEF RememberKey, TypeOK, LedgerTypeOK
    <3>6. Used("create_job", 1)' /\ TheJob' = TheJob
      BY <3>1, <3>5 DEF Used, TheJob
    <3>7. Reached' = jobs[job].version + 1
      BY <1>3, <3>1, <3>6 DEF Reached
    <3>. QED
      BY <1>2, <1>6, <3>1, <3>2, <3>3, <3>6, <3>7
  <2>. QED
    BY <2>1, <2>2
<1>8. InOrder'
  <2>. SUFFICES ASSUME NEW o \in Ops, NEW k \in Keys, InScript(o, k)
                PROVE  Used(o, k)' <=> Slot(o, k) <= Reached'
    BY DEF InOrder
  <2>1. Used(o, k)' <=> Used(o, k) \/ (o = op /\ k = key)
    <3>1. Used(o, k) => Used(o, k)'
      BY <1>0, <1>1, <1>3, NoneIsNoRow DEF RememberKey, Used, TypeOK, LedgerTypeOK, EffectRows, JobRows
    <3>. QED
      BY <1>0, <3>1, EffectUses
  <2>2. PICK s \in Nat : s = Slot(o, k)
    BY SlotsDiffer, SlotsOfScript
  <2>3. s = slot <=> o = op /\ k = key
    BY <1>1, <1>2, <2>2, SlotsDiffer
  <2>4. Used(o, k) <=> s <= Reached
    BY <2>2 DEF InOrder
  <2>5. PICK m \in Nat : m = Reached /\ Reached' = m + 1 /\ slot = m + 1
    BY <1>7
  <2>6. s <= m + 1 <=> s <= m \/ s = slot
    BY <2>5
  <2>. QED
    BY <2>1, <2>2, <2>3, <2>4, <2>5, <2>6
<1>. QED
  BY <1>2, <1>7, <1>8

\* Which keys are used is a matter of how far the script was carried out.
LEMMA UsedSoFar ==
  ASSUME InOrder, InOrder', NEW count, count = Cardinality(Reported)
  PROVE  /\ count \in Nat
         /\ Used("create_job", 1) <=> 1 <= Reached
         /\ Used("submit_revision", 1) <=> 2 <= Reached
         /\ Used("run_quality", 1) <=> 3 <= Reached
         /\ \A k \in 1..count : Used("disposition_finding", k) <=> 3 + k <= Reached
         /\ Used("review", 1) <=> 4 + count <= Reached
         /\ Used("freeze", 1) <=> 5 + count <= Reached
         /\ Used("create_job", 1)' <=> 1 <= Reached'
         /\ Used("submit_revision", 1)' <=> 2 <= Reached'
         /\ Used("run_quality", 1)' <=> 3 <= Reached'
         /\ \A k \in 1..count : Used("disposition_finding", k)' <=> 3 + k <= Reached'
         /\ Used("review", 1)' <=> 4 + count <= Reached'
         /\ Used("freeze", 1)' <=> 5 + count <= Reached'
<1>0. 1 \in Keys /\ 1..count \subseteq Keys
  BY SelfCheckAssumption DEF Reported
<1>1. \A op \in SentOnce : op \in Ops /\ InScript(op, 1)
  BY DEF SentOnce, Ops, InScript
<1>2. "disposition_finding" \in Ops /\ \A k \in 1..count : InScript("disposition_finding", k)
  BY DEF Ops, InScript
<1>3. \A op \in SentOnce :
        /\ Used(op, 1) <=> Slot(op, 1) <= Reached
        /\ Used(op, 1)' <=> Slot(op, 1) <= Reached'
  BY <1>0, <1>1 DEF InOrder
<1>4. \A k \in 1..count :
        /\ Used("disposition_finding", k) <=> Slot("disposition_finding", k) <= Reached
        /\ Used("disposition_finding", k)' <=> Slot("disposition_finding", k) <= Reached'
  BY <1>0, <1>2 DEF InOrder
<1>5. \A k : Slot("disposition_finding", k) = 3 + k
  BY DEF Slot
<1>6. /\ Slot("create_job", 1) = 1 /\ Slot("submit_revision", 1) = 2
      /\ Slot("run_quality", 1) = 3 /\ Slot("review", 1) = 4 + count
      /\ Slot("freeze", 1) = 5 + count
  BY DEF Slot
<1>7. count \in Nat
  BY FS_CardinalityType, SelfCheckAssumption DEF Reported
<1>8. {"create_job", "submit_revision", "run_quality", "review", "freeze"} = SentOnce
  BY DEF SentOnce
<1>. QED
  BY <1>3, <1>4, <1>5, <1>6, <1>7, <1>8

LEMMA DisposedElsewhere ==
  ASSUME TypeOK, NEW q \in Sound, Effect(q), q.step # "finding"
  PROVE  Marks' = Marks
<1>1. PICK job \in Jobs :
        idempotency' = RememberKey(Operation(q.step), KeyOf(q), job, jobs[job].version + 1)
  BY EffectMade
<1>2. Operation(q.step) # "disposition_finding" /\ Operation(q.step) \in Ops
  BY EffectMade, KeysOfScript, StepOperation DEF Commands
<1>3. idempotency'["disposition_finding"] = idempotency["disposition_finding"]
  BY <1>1, <1>2 DEF RememberKey, TypeOK, LedgerTypeOK, Ops
<1>4. \A i : Disposed(i)' <=> Disposed(i)
  BY <1>3 DEF Disposed, Used
<1>. QED
  BY <1>4 DEF Marks

LEMMA CreateLeavesRows ==
  ASSUME CInv, ScriptInv', InOrder, InOrder', NEW q \in Sound, InStep(q), Effect(q),
         q.step = "create"
  PROVE  RowsFollow'
<1>0. TypeOK
  BY DEF CInv, IInv
<1>1. PICK j \in Jobs : CreateJob(j, 1)
  BY DEF Effect
<1>2. PICK profile \in Profiles :
        Commit("create_job", j, 1, [AbsentJob EXCEPT !.status = "draft", !.profile = profile])
  BY <1>1 DEF CreateJob
<1>3. PICK row \in JobRows :
        /\ Commit("create_job", j, 1, row) /\ row.status = "draft" /\ row.current = None
  <2>1. /\ [AbsentJob EXCEPT !.status = "draft", !.profile = profile] \in JobRows
        /\ [AbsentJob EXCEPT !.status = "draft", !.profile = profile].status = "draft"
        /\ [AbsentJob EXCEPT !.status = "draft", !.profile = profile].current = None
    BY DEF AbsentJob, JobRows, Statuses
  <2>. QED
    BY <1>2, <2>1
<1>4. jobs'[j].status = "draft" /\ jobs'[j].current = None
  <2>1. jobs' = [jobs EXCEPT ![j] = [row EXCEPT !.version = jobs[j].version + 1]]
    BY <1>3 DEF Commit
  <2>. QED
    BY <1>0, <1>3, <2>1, CommitRow
<1>5. TheJob' = j
  <2>1. idempotency' = [idempotency EXCEPT !["create_job"][1] =
                          [job |-> j, version |-> jobs[j].version + 1]]
    BY <1>3 DEF Commit, RememberKey
  <2>2. 1 \in Keys /\ "create_job" \in Ops
    BY SelfCheckAssumption DEF Ops
  <2>. QED
    BY <1>0, <2>1, <2>2 DEF TheJob, TypeOK, LedgerTypeOK
<1>6. ~Used("submit_revision", 1)'
  <2>1. Reached' = 1
    BY EffectInOrder, StepOperation DEF Slot
  <2>. QED
    BY <2>1, UsedSoFar
<1>7. Drawn' = {}
  BY <1>6 DEF ScriptInv, OneText
<1>. QED
  BY <1>4, <1>5, <1>6, <1>7 DEF RowsFollow, Current

LEMMA SubmitLeavesRows ==
  ASSUME CInv, ScriptInv', InOrder, InOrder', NEW q \in Sound, InStep(q), Effect(q),
         q.step = "revision"
  PROVE  RowsFollow'
<1>0. TypeOK /\ ScriptInv /\ CheckedByRules /\ FindingsFromRuns
  BY DEF CInv, IInv
<1>1. /\ SubmitRevision(q.job, q.version, 1)
      /\ revisions'[jobs'[q.job].current].author = Editor
  BY DEF Effect
<1>2. q.job = TheJob /\ TheJob' = TheJob /\ TheJob \in Jobs
  BY <1>0, StepOperation, EffectInOrder
<1>3. Reached' = 2 /\ Reached = 1
  <2>1. Reached' = 2 /\ Reached \in Nat /\ Reached' = Reached + 1
    BY EffectInOrder, StepOperation DEF Slot
  <2>. QED
    BY <2>1
<1>4. PICK count : count = Cardinality(Reported)
  OBVIOUS
<1>5. /\ Used("submit_revision", 1)' /\ ~Used("submit_revision", 1)
      /\ ~Used("run_quality", 1)' /\ ~Used("review", 1)'
  BY <1>3, <1>4, UsedSoFar
<1>6. Drawn = {}
  BY <1>0, <1>5 DEF ScriptInv, OneText
<1>7. PICK r \in Revisions : \E parent, author, content :
        /\ revisions' = [revisions EXCEPT ![r] =
             [job |-> q.job, parent |-> parent, sequence |-> NextSequence(q.job),
              author |-> author, content |-> content]]
        /\ Commit("submit_revision", q.job, 1,
                  [jobs[q.job] EXCEPT !.current = r,
                     !.status = IF NextSequence(q.job) > 1 THEN "remediating" ELSE "draft"])
        /\ findings' = findings
  BY <1>1 DEF SubmitRevision
<1>8. NextSequence(q.job) = 1
  <2>1. RevisionsOf(q.job) = {}
    BY <1>2, <1>6, WorkflowAssumption DEF RevisionsOf, Drawn
  <2>. QED
    BY <2>1, FS_EmptySet DEF NextSequence
<1>9. jobs'[q.job].current = r /\ jobs'[q.job].status = "draft"
  <2>1. Commit("submit_revision", q.job, 1, [jobs[q.job] EXCEPT !.current = r, !.status = "draft"])
    BY <1>7, <1>8
  <2>. QED
    BY <1>0, <1>2, <2>1 DEF Commit, TypeOK, LedgerTypeOK, JobRows
<1>10. r \in Drawn'
  <2>1. revisions'[r].job = q.job
    BY <1>0, <1>7 DEF TypeOK, EvidenceTypeOK
  <2>. QED
    BY <1>2, <2>1, WorkflowAssumption DEF Drawn
<1>11. \A s \in Drawn' : s = r
  BY <1>10 DEF ScriptInv, OneText
<1>12. NoFindings(r)'
  <2>1. ~(batches[r] > 0)
    <3>1. revisions[r].job = None
      BY <1>6 DEF Drawn
    <3>. QED
      BY <1>0, <3>1, WorkflowAssumption DEF CheckedByRules
  <2>2. NoFindings(r)
    BY <1>0, <2>1 DEF FindingsFromRuns
  <2>. QED
    BY <1>7, <2>2 DEF NoFindings
<1>13. ASSUME NEW s \in Drawn'
       PROVE  (/\ Current(TheJob) = s /\ revisions[s].author = Editor
               /\ MarksFollow(s) /\ StatusFollows(s))'
  <2>1. s = r
    BY <1>11, <1>13
  <2>2. StatusFollows(r)'
    BY <1>2, <1>5, <1>9 DEF StatusFollows
  <2>. QED
    BY <1>1, <1>2, <1>5, <1>9, <1>12, <2>1, <2>2 DEF MarksFollow, Current
<1>. QED
  BY <1>5, <1>13 DEF RowsFollow

\* What stands of the rows when a request submits nothing.
LEMMA RequestKeepsText ==
  ASSUME CInv, RowsFollow, InOrder, InOrder', NEW q \in Sound, InStep(q), Effect(q),
         q.step \in {"quality", "finding", "review", "freeze"},
         revisions' = revisions, jobs'[TheJob].current = Current(TheJob)
  PROVE  /\ TypeOK /\ Drawn' = Drawn
         /\ q.job = TheJob /\ TheJob' = TheJob /\ TheJob \in Jobs
         /\ q.revision \in Drawn /\ q.revision \in Revisions
         /\ \A r \in Drawn : r = q.revision
         /\ Current(TheJob) = q.revision /\ revisions[q.revision].author = Editor
         /\ Used("submit_revision", 1)'
<1>1. TypeOK /\ ScriptInv
  BY DEF CInv, IInv
<1>2. q.job = TheJob /\ q.revision \in Drawn /\ TheJob' = TheJob /\ TheJob \in Jobs
      /\ Used("create_job", 1)
  BY <1>1, StepOperation, EffectInOrder
<1>3. Drawn' = Drawn /\ q.revision \in Revisions
  BY <1>2 DEF Drawn
<1>4. \A r \in Drawn : r = q.revision
  BY <1>1, <1>2 DEF ScriptInv, OneText
<1>5. Current(TheJob) = q.revision /\ revisions[q.revision].author = Editor
  BY <1>2 DEF RowsFollow
<1>6. Used("submit_revision", 1)'
  <2>1. Used("submit_revision", 1)
    BY <1>1, <1>2 DEF ScriptInv, OneText
  <2>2. "submit_revision" \in Ops /\ 1 \in Keys
    BY SelfCheckAssumption DEF Ops
  <2>3. Reached \in Nat /\ Reached' = Reached + 1
    BY EffectInOrder
  <2>4. PICK count : count = Cardinality(Reported)
    OBVIOUS
  <2>. QED
    BY <2>1, <2>3, <2>4, UsedSoFar
<1>. QED
  BY <1>1, <1>2, <1>3, <1>4, <1>5, <1>6

LEMMA QualityLeavesRows ==
  ASSUME CInv, RowsFollow, InOrder, InOrder', NEW q \in Sound, InStep(q), Effect(q),
         q.step = "quality"
  PROVE  RowsFollow'
<1>0. TypeOK /\ ScriptInv
  BY DEF CInv, IInv
<1>1. RunQuality(q.job, q.version, 1) /\ q.revision = Current(q.job)
  BY DEF Effect
<1>2. q.job = TheJob /\ TheJob \in Jobs /\ Used("create_job", 1) /\ q.revision \in Drawn
  BY <1>0, StepOperation, TheJobIsJob
<1>3. PICK rows : rows = FindingRows(jobs[q.job].profile, ContentOf(q.revision))
  OBVIOUS
<1>4. /\ revisions' = revisions
      /\ findings' = [findings EXCEPT ![q.revision] = rows]
      /\ Commit("run_quality", q.job, 1,
                [jobs[q.job] EXCEPT !.status = StatusAfterFindings(rows)])
      /\ jobs[q.job].status # "absent"
  BY <1>1, <1>3 DEF RunQuality, Admit
<1>5. StatusAfterFindings(rows) \in Statuses
  BY DEF StatusAfterFindings, Statuses
<1>6. jobs'[TheJob].status = StatusAfterFindings(rows) /\ jobs'[TheJob].current = Current(TheJob)
  BY <1>0, <1>2, <1>4, <1>5, CommitStatus DEF Current
<1>7. /\ Drawn' = Drawn /\ TheJob' = TheJob /\ q.revision \in Revisions
      /\ \A r \in Drawn : r = q.revision
      /\ jobs'[TheJob].current = q.revision /\ revisions'[q.revision].author = Editor
      /\ Used("submit_revision", 1)'
  BY <1>4, <1>6, RequestKeepsText
<1>8. PICK count : count = Cardinality(Reported)
  OBVIOUS
<1>9. Reached' = 3
  BY EffectInOrder, StepOperation DEF Slot
<1>10. /\ Used("run_quality", 1)' /\ ~Used("review", 1)'
       /\ \A k \in 1..count : ~Used("disposition_finding", k)'
  BY <1>8, <1>9, UsedSoFar
<1>11. findings'[q.revision] = rows
  BY <1>0, <1>4, <1>7 DEF TypeOK, EvidenceTypeOK
<1>12. rows = Marks'
  <2>1. jobs[q.job].profile = Profile /\ ContentOf(q.revision) = Programme
    BY <1>0, <1>2, <1>4 DEF ScriptInv, OneJob, OneText, ContentOf
  <2>2. \A i : ~Disposed(i)'
    BY <1>8, <1>10 DEF Disposed
  <2>. QED
    BY <1>3, <2>1, <2>2 DEF FindingRows, Marks, Reported
<1>13. MarksFollow(q.revision)' /\ StatusFollows(q.revision)'
  BY <1>6, <1>7, <1>10, <1>11, <1>12 DEF MarksFollow, StatusFollows
<1>. QED
  BY <1>2, <1>7, <1>13 DEF RowsFollow, Current

LEMMA FindingLeavesRows ==
  ASSUME CInv, RowsFollow, InOrder, InOrder', NEW q \in Sound, InStep(q), Effect(q),
         q.step = "finding"
  PROVE  RowsFollow'
<1>0. TypeOK /\ ScriptInv
  BY DEF CInv, IInv
<1>1. /\ DispositionFinding(q.job, q.version, q.item)
      /\ findings'[q.revision] =
           [findings[q.revision] EXCEPT ![Items[q.item]] = "false_positive"]
  BY DEF Effect, InStep
<1>2. q.job = TheJob /\ TheJob \in Jobs /\ Used("create_job", 1) /\ q.revision \in Drawn
      /\ q.item \in 1..Cardinality(Reported)
  BY <1>0, StepOperation, TheJobIsJob
<1>3. PICK rows :
        /\ revisions' = revisions
        /\ findings' = [findings EXCEPT ![Current(q.job)] = rows]
        /\ Commit("disposition_finding", q.job, q.item,
                  [jobs[q.job] EXCEPT !.status = StatusAfterFindings(rows)])
  BY <1>1 DEF DispositionFinding, Dispose
<1>4. StatusAfterFindings(rows) \in Statuses
  BY DEF StatusAfterFindings, Statuses
<1>5. jobs'[TheJob].status = StatusAfterFindings(rows) /\ jobs'[TheJob].current = Current(TheJob)
  BY <1>0, <1>2, <1>3, <1>4, CommitStatus DEF Current
<1>6. /\ Drawn' = Drawn /\ TheJob' = TheJob /\ q.revision \in Revisions
      /\ Current(TheJob) = q.revision
      /\ \A r \in Drawn : r = q.revision
      /\ jobs'[TheJob].current = q.revision /\ revisions'[q.revision].author = Editor
      /\ Used("submit_revision", 1)'
  BY <1>3, <1>5, RequestKeepsText
<1>7. findings'[q.revision] = rows
  BY <1>0, <1>2, <1>3, <1>6 DEF TypeOK, EvidenceTypeOK
<1>8. PICK count : count = Cardinality(Reported)
  OBVIOUS
<1>9. PICK item : item = q.item
  OBVIOUS
<1>10. item \in 1..count /\ count \in Nat
  BY <1>2, <1>8, <1>9, UsedSoFar
<1>11. Reached' = 3 + item /\ Reached \in Nat /\ Reached' = Reached + 1
  BY <1>9, EffectInOrder, StepOperation DEF Slot
<1>12. Reached = 2 + item
  BY <1>10, <1>11
<1>13. /\ Used("run_quality", 1)' /\ Used("run_quality", 1) /\ ~Used("review", 1)'
       /\ \A k \in 1..count : Used("disposition_finding", k)' <=> k <= item
       /\ \A k \in 1..count : Used("disposition_finding", k) <=> k <= item - 1
  <2>1. /\ Used("run_quality", 1)' <=> 3 <= Reached'
        /\ Used("run_quality", 1) <=> 3 <= Reached
        /\ Used("review", 1)' <=> 4 + count <= Reached'
        /\ \A k \in 1..count : Used("disposition_finding", k)' <=> 3 + k <= Reached'
        /\ \A k \in 1..count : Used("disposition_finding", k) <=> 3 + k <= Reached
    BY <1>8, UsedSoFar
  <2>2. 3 <= Reached' /\ 3 <= Reached /\ ~(4 + count <= Reached')
    BY <1>10, <1>11, <1>12
  <2>3. \A k \in 1..count : /\ 3 + k <= Reached' <=> k <= item
                            /\ 3 + k <= Reached <=> k <= item - 1
    BY <1>10, <1>11, <1>12
  <2>. QED
    BY <2>1, <2>2, <2>3
<1>14. findings[q.revision] = Marks
  BY <1>2, <1>13 DEF RowsFollow, MarksFollow
<1>15. rows = Marks'
  <2>1. ASSUME NEW i
        PROVE  Disposed(i)' <=> Disposed(i) \/ i = Items[item]
    <3>1. \A k \in 1..count :
            Used("disposition_finding", k)' <=> Used("disposition_finding", k) \/ k = item
      BY <1>10, <1>13
    <3>. QED
      BY <1>8, <1>10, <3>1 DEF Disposed
  <2>2. Items[item] \in Reported
    BY <1>8, <1>10, ItemsShape
  <2>3. rows = [Marks EXCEPT ![Items[item]] = "false_positive"]
    BY <1>1, <1>7, <1>9, <1>14
  <2>. QED
    BY <2>1, <2>2, <2>3 DEF Marks
<1>16. MarksFollow(q.revision)' /\ StatusFollows(q.revision)'
  BY <1>5, <1>6, <1>7, <1>13, <1>15 DEF MarksFollow, StatusFollows
<1>. QED
  BY <1>2, <1>6, <1>16 DEF RowsFollow, Current

LEMMA ReviewLeavesRows ==
  ASSUME CInv, RowsFollow, InOrder, InOrder', NEW q \in Sound, InStep(q), Effect(q),
         q.step = "review"
  PROVE  RowsFollow'
<1>0. TypeOK /\ ScriptInv
  BY DEF CInv, IInv
<1>1. /\ Review(q.job, q.version, 1)
      /\ Last(reviews'[q.job]) =
           [revision |-> q.revision, reviewer |-> Reviewer,
            sample |-> SegmentIDs(Programme), decision |-> "approve"]
  BY DEF Effect
<1>2. q.job = TheJob /\ TheJob \in Jobs /\ Used("create_job", 1) /\ q.revision \in Drawn
  BY <1>0, StepOperation, TheJobIsJob
<1>3. PICK decision \in Decisions : \E row :
        /\ revisions' = revisions /\ findings' = findings
        /\ reviews' = [reviews EXCEPT ![q.job] = Append(@, row)] /\ row.decision = decision
        /\ Commit("review", q.job, 1,
                  [jobs[q.job] EXCEPT !.status = StatusAfterReview(decision)])
  <2>1. PICK reviewer, decision, sample, row :
          /\ decision \in Decisions
          /\ row = [revision |-> Current(q.job), reviewer |-> reviewer,
                     sample |-> sample, decision |-> decision]
          /\ revisions' = revisions /\ findings' = findings
          /\ reviews' = [reviews EXCEPT ![q.job] = Append(@, row)]
          /\ Commit("review", q.job, 1,
                    [jobs[q.job] EXCEPT !.status = StatusAfterReview(decision)])
    BY <1>1 DEF Review
  <2>2. row.decision = decision
    BY <2>1
  <2>. QED
    BY <2>1, <2>2
<1>4. decision = "approve"
  <2>. PICK row :
         reviews' = [reviews EXCEPT ![q.job] = Append(@, row)] /\ row.decision = decision
    BY <1>3
  <2>1. reviews[q.job] \in Seq(ReviewRows)
    BY <1>0, <1>2 DEF TypeOK, EvidenceTypeOK
  <2>2. reviews'[q.job] = Append(reviews[q.job], row)
    BY <1>0, <1>2 DEF TypeOK, EvidenceTypeOK
  <2>3. Last(reviews'[q.job]) = row
    BY <2>1, <2>2 DEF Last
  <2>4. row.decision = "approve"
    BY <1>1, <2>3
  <2>. QED
    BY <2>4
<1>5. jobs'[TheJob].status = "approved" /\ jobs'[TheJob].current = Current(TheJob)
  <2>1. Commit("review", q.job, 1, [jobs[q.job] EXCEPT !.status = "approved"])
    BY <1>3, <1>4 DEF StatusAfterReview
  <2>. QED
    BY <1>0, <1>2, <2>1, CommitStatus DEF Current, Statuses
<1>6. /\ Drawn' = Drawn /\ TheJob' = TheJob
      /\ \A r \in Drawn : r = q.revision
      /\ jobs'[TheJob].current = q.revision /\ revisions'[q.revision].author = Editor
      /\ Used("submit_revision", 1)'
  BY <1>3, <1>5, RequestKeepsText
<1>7. PICK count : count = Cardinality(Reported)
  OBVIOUS
<1>8. Reached' = 4 + count /\ Reached \in Nat /\ Reached' = Reached + 1 /\ count \in Nat
  BY <1>7, EffectInOrder, StepOperation, UsedSoFar DEF Slot
<1>9. Reached = 3 + count
  BY <1>8
<1>10. Used("run_quality", 1)' /\ Used("run_quality", 1) /\ Used("review", 1)'
  BY <1>7, <1>8, <1>9, UsedSoFar
<1>11. Marks' = Marks
  BY <1>0, DisposedElsewhere
<1>12. MarksFollow(q.revision)' /\ StatusFollows(q.revision)'
  BY <1>2, <1>3, <1>5, <1>6, <1>10, <1>11 DEF MarksFollow, StatusFollows, RowsFollow
<1>. QED
  BY <1>2, <1>6, <1>12 DEF RowsFollow, Current

LEMMA FreezeLeavesRows ==
  ASSUME CInv, RowsFollow, InOrder, InOrder', NEW q \in Sound, InStep(q), Effect(q),
         q.step = "freeze"
  PROVE  RowsFollow'
<1>0. TypeOK /\ ScriptInv
  BY DEF CInv, IInv
<1>1. Freeze(q.job, q.version, 1)
  BY DEF Effect
<1>2. q.job = TheJob /\ TheJob \in Jobs /\ Used("create_job", 1) /\ q.revision \in Drawn
  BY <1>0, StepOperation, TheJobIsJob
<1>3. /\ revisions' = revisions /\ findings' = findings
      /\ Commit("freeze", q.job, 1, [jobs[q.job] EXCEPT !.status = "frozen"])
  BY <1>1 DEF Freeze
<1>4. jobs'[TheJob].current = Current(TheJob)
  BY <1>0, <1>2, <1>3, CommitStatus DEF Current, Statuses
<1>5. /\ Drawn' = Drawn /\ TheJob' = TheJob
      /\ \A r \in Drawn : r = q.revision
      /\ jobs'[TheJob].current = q.revision /\ revisions'[q.revision].author = Editor
      /\ Used("submit_revision", 1)'
  BY <1>3, <1>4, RequestKeepsText
<1>6. PICK count : count = Cardinality(Reported)
  OBVIOUS
<1>7. Reached' = 5 + count /\ Reached \in Nat /\ Reached' = Reached + 1 /\ count \in Nat
  BY <1>6, EffectInOrder, StepOperation, UsedSoFar DEF Slot
<1>8. Reached = 4 + count
  BY <1>7
<1>9. Used("run_quality", 1)' /\ Used("run_quality", 1) /\ Used("review", 1)'
      /\ Used("freeze", 1)'
  BY <1>6, <1>7, <1>8, UsedSoFar
<1>10. Marks' = Marks
  BY <1>0, DisposedElsewhere
<1>11. MarksFollow(q.revision)' /\ StatusFollows(q.revision)'
  BY <1>2, <1>3, <1>9, <1>10 DEF MarksFollow, StatusFollows, RowsFollow
<1>. QED
  BY <1>2, <1>5, <1>11 DEF RowsFollow, Current

\* Whatever takes effect leaves the rows the next command of the script needs.
LEMMA EffectLeavesRows ==
  ASSUME CInv, ScriptInv', RowsFollow, InOrder, InOrder', NEW q \in Sound, InStep(q), Effect(q)
  PROVE  RowsFollow'
<1>1. q.step \in Commands
  BY EffectMade DEF CInv, IInv
<1>. QED
  BY <1>1, CreateLeavesRows, SubmitLeavesRows, QualityLeavesRows, FindingLeavesRows,
     ReviewLeavesRows, FreezeLeavesRows DEF Commands

(***************************************************************************)
(* The checks.                                                             *)
(***************************************************************************)
LEMMA ScriptUnchanged ==
  ASSUME InOrder, RowsFollow, UNCHANGED vars
  PROVE  InOrder' /\ RowsFollow' /\ Reached' = Reached
<1>1. UNCHANGED <<jobs, revisions, findings, idempotency>>
  BY DEF vars, evidence, ledger
<1>2. /\ TheJob' = TheJob /\ Reached' = Reached /\ Drawn' = Drawn /\ Marks' = Marks
      /\ \A op, key : Used(op, key)' <=> Used(op, key)
  BY <1>1 DEF TheJob, Reached, Drawn, Used, Marks, Disposed
<1>. QED
  BY <1>1, <1>2 DEF InOrder, RowsFollow, MarksFollow, NoFindings, StatusFollows, Current

\* An answer takes a check one command further, and no further than the store.
LEMMA ProceedInStep ==
  ASSUME CInv, InOrder, ChecksInStep, NEW c \in Checkers, Proceed(c)
  PROVE  \E t : checks' = [checks EXCEPT ![c] = t] /\ InStep(t)
<1>0. /\ TypeOK /\ ReleaseWasReviewed /\ ReleasesVerify /\ CheckedByRules
      /\ ScriptInv /\ ChecksFollow
  BY DEF CInv, IInv
<1>1. PICK p : p = checks[c]
  OBVIOUS
<1>2. PICK q : q = Learned(p)
  OBVIOUS
<1>3. p # None /\ p.outcome = "running" /\ p.request = "answered" /\ p \in Sound /\ InStep(p)
  BY <1>0, <1>1 DEF Proceed, ChecksFollow, ChecksInStep
<1>4. /\ q \in Sound /\ q.step = p.step /\ q.item = p.item /\ q.version = p.version
      /\ q.request = "answered" /\ q.outcome = "running"
  BY <1>0, <1>2, <1>3, LearnedIsSound
<1>5. q \in CheckRows /\ Follows(q)
  BY <1>4 DEF Sound
<1>6. q.step = "finding" => q.items = Items
  BY <1>2, <1>3, <1>4 DEF Learned, InStep
<1>7. q.step = "quality" => q.items = Items
  <2>. SUFFICES ASSUME q.step = "quality"  PROVE q.items = Items
    OBVIOUS
  <2>1. Used("run_quality", 1) /\ p.job = TheJob /\ p.revision \in Drawn
    BY <1>3, <1>4 DEF Sound, Follows, Commands, Operation, KeyOf
  <2>2. FirstFindings(p) = Reported
    BY <1>0, <2>1, FirstAnswer
  <2>3. q = [p EXCEPT !.items = SetToSeq(FirstFindings(p))]
    BY <1>2, <1>4 DEF Learned
  <2>. QED
    BY <1>3, <2>2, <2>3 DEF Sound, CheckRows, Items
<1>8. InStep(q)
  BY <1>3, <1>4, <1>6 DEF InStep, KeyOf
<1>9. PICK count : count = Cardinality(Reported)
  OBVIOUS
<1>10. count \in Nat /\ Len(Items) = count /\ Items \in Seq(Issues)
  BY <1>9, ItemsShape, FS_CardinalityType, SelfCheckAssumption DEF Reported
<1>11. q.step \in Commands =>
         Reached \in Nat /\ q.version + 1 = Slot(Operation(q.step), KeyOf(q))
         /\ q.version + 1 <= Reached
  <2>. SUFFICES ASSUME q.step \in Commands
                PROVE  Reached \in Nat /\ q.version + 1 = Slot(Operation(q.step), KeyOf(q))
                       /\ q.version + 1 <= Reached
    OBVIOUS
  <2>1. Operation(q.step) \in Ops /\ KeyOf(q) \in Keys /\ InScript(Operation(q.step), KeyOf(q))
    BY <1>4, KeysOfScript
  <2>2. PICK slot \in Nat : slot = Slot(Operation(q.step), KeyOf(q))
    BY <2>1, SlotsDiffer, SlotsOfScript
  <2>3. Used(Operation(q.step), KeyOf(q))
    BY <1>4, <1>5 DEF Follows
  <2>4. slot <= Reached
    BY <2>1, <2>2, <2>3 DEF InOrder
  <2>5. q.version = slot - 1 /\ q.version \in Nat
    BY <1>5, <1>8, <2>2 DEF InStep, CheckRows
  <2>6. Used("create_job", 1)
    BY <1>4, <1>5, <2>3, StepOperation DEF Commands
  <2>7. Reached \in Nat
    BY <1>0, <2>6, TheJobIsJob
  <2>. QED
    BY <2>2, <2>4, <2>5, <2>7
<1>12. Reached \in Nat
  BY <1>0, TheJobIsJob DEF Reached
<1>13. ASSUME q.step # "track",
              NEW t, t = [q EXCEPT !.step = AfterStep(q), !.version = Raised(q), !.request = "sent",
                          !.item = IF q.step = "finding" THEN @ + 1 ELSE @]
       PROVE  InStep(t)
  <2>1. /\ t.step = AfterStep(q) /\ t.version = Raised(q) /\ t.items = q.items
        /\ t.item = IF q.step = "finding" THEN q.item + 1 ELSE q.item
    BY <1>5, <1>13 DEF CheckRows
  <2>2. q.item \in Nat /\ q.version \in Nat
    BY <1>5 DEF CheckRows
  <2>3. CASE q.step = "page"
    <3>1. t.step = "create" /\ t.version = 0
      BY <1>8, <2>1, <2>2, <2>3 DEF AfterStep, Raised, Questions, InStep
    <3>. QED
      BY <1>12, <3>1 DEF InStep, Operation, Slot
  <2>4. CASE q.step = "create"
    <3>1. t.step = "revision" /\ t.version = q.version + 1
      BY <2>1, <2>4 DEF AfterStep, Raised, Questions
    <3>2. t.version = 1 /\ t.version <= Reached
      BY <1>11, <2>4, <3>1 DEF Commands, Operation, Slot
    <3>. QED
      BY <3>1, <3>2 DEF InStep, Operation, Slot
  <2>5. CASE q.step = "revision"
    <3>1. t.step = "quality" /\ t.version = q.version + 1
      BY <2>1, <2>5 DEF AfterStep, Raised, Questions
    <3>2. t.version = 2 /\ t.version <= Reached
      BY <1>11, <2>5, <3>1 DEF Commands, Operation, Slot
    <3>. QED
      BY <3>1, <3>2 DEF InStep, Operation, Slot
  <2>6. CASE q.step = "quality"
    <3>1. t.version = q.version + 1 /\ t.items = Items /\ t.item = 1
          /\ t.step = IF q.items = <<>> THEN "review" ELSE "finding"
      BY <1>5, <1>7, <2>1, <2>6 DEF AfterStep, Raised, Questions, Follows
    <3>2. t.version = 3 /\ t.version <= Reached
      BY <1>11, <2>6, <3>1 DEF Commands, Operation, Slot
    <3>3. CASE q.items = <<>>
      <4>1. count = 0 /\ t.step = "review"
        BY <1>7, <1>10, <2>6, <3>1, <3>3
      <4>. QED
        BY <1>9, <3>2, <4>1 DEF InStep, Operation, Slot
    <3>4. CASE q.items # <<>>
      <4>1. t.step = "finding"
        BY <3>1, <3>4
      <4>. QED
        BY <3>1, <3>2, <4>1 DEF InStep, Operation, Slot, KeyOf
    <3>. QED
      BY <3>3, <3>4
  <2>7. CASE q.step = "finding"
    <3>1. t.version = q.version + 1 /\ t.items = Items /\ t.item = q.item + 1
          /\ t.step = IF q.item = count THEN "review" ELSE "finding"
      BY <1>6, <1>10, <2>1, <2>7 DEF AfterStep, Raised, Questions
    <3>2. t.version = 3 + q.item /\ t.version <= Reached
      BY <1>11, <2>7, <3>1 DEF Commands, Operation, Slot, KeyOf
    <3>3. CASE q.item = count
      <4>1. t.step = "review"
        BY <3>1, <3>3
      <4>2. t.version = (4 + count) - 1
        BY <1>10, <3>2, <3>3
      <4>. QED
        BY <1>9, <3>2, <4>1, <4>2 DEF InStep, Operation, Slot
    <3>4. CASE q.item # count
      <4>1. t.step = "finding"
        BY <3>1, <3>4
      <4>2. t.version = (3 + t.item) - 1
        BY <2>2, <3>1, <3>2
      <4>. QED
        BY <3>1, <3>2, <4>1, <4>2 DEF InStep, Operation, Slot, KeyOf
    <3>. QED
      BY <3>3, <3>4
  <2>8. CASE q.step = "review"
    <3>1. t.step = "freeze" /\ t.version = q.version + 1
      BY <2>1, <2>8 DEF AfterStep, Raised, Questions
    <3>2. t.version = 4 + count /\ t.version <= Reached
      BY <1>9, <1>11, <2>8, <3>1 DEF Commands, Operation, Slot
    <3>3. t.version = (5 + count) - 1
      BY <1>10, <3>2
    <3>. QED
      BY <1>9, <3>1, <3>2, <3>3 DEF InStep, Operation, Slot
  <2>9. CASE q.step \in {"freeze", "verify", "audit"}
    <3>1. t.step \in {"verify", "audit", "track"}
      BY <2>1, <2>9 DEF AfterStep
    <3>. QED
      BY <3>1 DEF InStep, Commands
  <2>. QED
    BY <1>5, <1>13, <2>3, <2>4, <2>5, <2>6, <2>7, <2>8, <2>9
       DEF CheckRows, Questions, Commands
<1>14. ASSUME NEW outcome  PROVE InStep([q EXCEPT !.outcome = outcome])
  BY <1>5, <1>8 DEF InStep, CheckRows, KeyOf
<1>15. CASE ~Accepts(q)
  BY <1>1, <1>2, <1>14, <1>15 DEF Proceed
<1>16. CASE Accepts(q) /\ q.step = "track"
  BY <1>1, <1>2, <1>14, <1>16 DEF Proceed
<1>17. CASE Accepts(q) /\ q.step # "track"
  <2>1. PICK t : t = [q EXCEPT !.step = AfterStep(q), !.version = Raised(q), !.request = "sent",
                      !.item = IF q.step = "finding" THEN @ + 1 ELSE @]
    OBVIOUS
  <2>2. checks' = [checks EXCEPT ![c] = t]
    BY <1>1, <1>2, <1>17, <2>1 DEF Proceed
  <2>. QED
    BY <1>13, <1>17, <2>1, <2>2
<1>. QED
  BY <1>15, <1>16, <1>17

RInv == CInv /\ InOrder /\ RowsFollow /\ ChecksInStep

LEMMA RefusalInit ==
  ASSUME CheckInit
  PROVE  RInv
<1>0. Init /\ CInv
  BY CheckInitSound DEF CheckInit
<1>1. \A op \in Ops, key \in Keys : ~Used(op, key)
  BY <1>0 DEF Init, Used
<1>2. 1 \in Keys /\ {"create_job", "submit_revision"} \subseteq Ops
  BY SelfCheckAssumption DEF Ops
<1>3. Reached = 0 /\ Drawn = {}
  BY <1>0, <1>1, <1>2 DEF Reached, Init, Drawn, AbsentRevision
<1>4. InOrder
  <2>1. ASSUME NEW op \in Ops, NEW key \in Keys, InScript(op, key)
        PROVE  ~(Slot(op, key) <= Reached)
    <3>1. PICK count \in Nat : count = Cardinality(Reported)
      BY <2>1, SlotsOfScript
    <3>2. Slot(op, key) \in 1..(5 + count)
      BY <2>1, <3>1, SlotsDiffer
    <3>. QED
      BY <1>3, <3>1, <3>2
  <2>. QED
    BY <1>1, <2>1 DEF InOrder
<1>5. RowsFollow
  BY <1>1, <1>2, <1>3 DEF RowsFollow
<1>6. ChecksInStep
  BY DEF CheckInit, ChecksInStep
<1>. QED
  BY <1>0, <1>4, <1>5, <1>6 DEF RInv

LEMMA RefusalStep ==
  ASSUME RInv, [CheckNext]_checkVars
  PROVE  RInv'
<1>0. CInv /\ InOrder /\ RowsFollow /\ ChecksInStep /\ CInv' /\ TypeOK /\ TypeOK'
      /\ ChecksFollow /\ ScriptInv'
  BY CheckStep DEF RInv, CInv, IInv
<1>. SUFFICES InOrder' /\ RowsFollow' /\ ChecksInStep'
  BY <1>0 DEF RInv
<1>1. Reached \in Nat
  BY <1>0, TheJobIsJob DEF Reached
<1>2. ASSUME UNCHANGED vars,
             checks' = checks
               \/ \E c, t : c \in Checkers /\ checks' = [checks EXCEPT ![c] = t]
                             /\ (t # None => InStep(t))
      PROVE  InOrder' /\ RowsFollow' /\ ChecksInStep'
  <2>1. InOrder' /\ RowsFollow' /\ Reached' = Reached
    BY <1>0, <1>2, ScriptUnchanged
  <2>2. ASSUME NEW c \in Checkers, checks'[c] # None  PROVE InStep(checks'[c])
    <3>1. checks \in [Checkers -> Sound \cup {None}]
      BY <1>0 DEF ChecksFollow
    <3>2. CASE checks' = checks
      BY <1>0, <2>2, <3>2 DEF ChecksInStep
    <3>3. CASE checks' # checks
      <4>1. PICK d, t : d \in Checkers /\ checks' = [checks EXCEPT ![d] = t]
                         /\ (t # None => InStep(t))
        BY <1>2, <3>3
      <4>2. CASE c = d
        BY <2>2, <3>1, <4>1, <4>2
      <4>3. CASE c # d
        BY <1>0, <2>2, <3>1, <4>1, <4>3 DEF ChecksInStep
      <4>. QED
        BY <4>2, <4>3
    <3>. QED
      BY <3>2, <3>3
  <2>. QED
    BY <2>1, <2>2 DEF ChecksInStep, InStep
<1>3. CASE UNCHANGED checkVars
  BY <1>2, <1>3 DEF checkVars
<1>4. ASSUME NEW c \in Checkers, Begin(c)
      PROVE  InOrder' /\ RowsFollow' /\ ChecksInStep'
  <2>1. InStep(NewCheck)
    BY DEF InStep, NewCheck, Commands
  <2>. QED
    BY <1>2, <1>4, <2>1 DEF Begin
<1>5. ASSUME NEW c \in Checkers, Carry(c)
      PROVE  InOrder' /\ RowsFollow' /\ ChecksInStep'
  <2>1. PICK q : q = checks[c]
    OBVIOUS
  <2>2. q \in Sound /\ InStep(q) /\ q # None
    BY <1>0, <1>5, <2>1 DEF Carry, ChecksFollow, ChecksInStep
  <2>3. checks' = [checks EXCEPT ![c] = [q EXCEPT !.request = "answered"]]
    BY <1>5, <2>1 DEF Carry
  <2>4. InStep([q EXCEPT !.request = "answered"])
    BY <2>2 DEF InStep, KeyOf, Sound, CheckRows
  <2>5. CASE Effect(q)
    <3>1. Reached' = Reached + 1 /\ InOrder'
      BY <1>0, <2>2, <2>5, EffectInOrder
    <3>2. RowsFollow'
      BY <1>0, <2>2, <2>5, <3>1, EffectLeavesRows
    <3>3. ASSUME NEW d \in Checkers, checks'[d] # None  PROVE InStep(checks[d])'
      <4>1. PICK t : t = checks'[d]
        OBVIOUS
      <4>2. t \in CheckRows /\ InStep(t)
        <5>1. CASE d = c
          <6>1. t = [q EXCEPT !.request = "answered"]
            BY <1>0, <2>3, <4>1, <5>1 DEF ChecksFollow
          <6>. QED
            BY <2>2, <2>4, <6>1 DEF Sound, CheckRows
        <5>2. CASE d # c
          <6>1. t = checks[d]
            BY <1>0, <2>3, <4>1, <5>2 DEF ChecksFollow
          <6>. QED
            BY <1>0, <3>3, <4>1, <6>1 DEF ChecksFollow, ChecksInStep, Sound
        <5>. QED
          BY <5>1, <5>2
      <4>3. t.version \in Nat
        BY <4>2 DEF CheckRows
      <4>4. PICK reached \in Nat : reached = Reached /\ Reached' = reached + 1
        BY <1>1, <3>1
      <4>5. t.step \in Commands => t.version <= Reached'
        BY <4>2, <4>3, <4>4 DEF InStep
      <4>. QED
        BY <4>1, <4>2, <4>5 DEF InStep
    <3>. QED
      BY <3>1, <3>2, <3>3 DEF ChecksInStep
  <2>6. CASE UNCHANGED vars
    BY <1>2, <2>3, <2>4, <2>6
  <2>. QED
    BY <1>5, <2>1, <2>5, <2>6 DEF Carry, Replay, Query
<1>6. ASSUME NEW c \in Checkers, Proceed(c)
      PROVE  InOrder' /\ RowsFollow' /\ ChecksInStep'
  <2>1. \E t : checks' = [checks EXCEPT ![c] = t] /\ InStep(t)
    BY <1>0, <1>6, ProceedInStep
  <2>2. UNCHANGED vars
    BY <1>6 DEF Proceed
  <2>. QED
    BY <1>2, <2>1, <2>2
<1>7. ASSUME NEW c \in Checkers, BreakOff(c)
      PROVE  InOrder' /\ RowsFollow' /\ ChecksInStep'
  <2>1. PICK q : q = checks[c]
    OBVIOUS
  <2>2. q \in CheckRows /\ InStep(q)
    BY <1>0, <1>7, <2>1 DEF BreakOff, ChecksFollow, ChecksInStep, Sound
  <2>3. InStep([q EXCEPT !.outcome = Failing])
    BY <2>2 DEF InStep, KeyOf, CheckRows
  <2>4. checks' = [checks EXCEPT ![c] = [q EXCEPT !.outcome = Failing]] /\ UNCHANGED vars
    BY <1>7, <2>1 DEF BreakOff
  <2>. QED
    BY <1>2, <2>3, <2>4
<1>8. ASSUME NEW c \in Checkers, Exit(c)
      PROVE  InOrder' /\ RowsFollow' /\ ChecksInStep'
  BY <1>2, <1>8 DEF Exit
<1>. QED
  BY <1>3, <1>4, <1>5, <1>6, <1>7, <1>8 DEF CheckNext

\* Checks stay in step with what they and others did.
LEMMA ScriptIsFollowed == CheckSpec => []RInv
<1>1. CheckInit => RInv
  BY RefusalInit
<1>2. RInv /\ [CheckNext]_checkVars => RInv'
  BY RefusalStep
<1>. QED
  BY <1>1, <1>2, PTL DEF CheckSpec

(***************************************************************************)
(* What a check that is in step is answered.                               *)
(***************************************************************************)
LEMMA UsedNow ==
  ASSUME InOrder, NEW op \in Ops, NEW key \in Keys, InScript(op, key)
  PROVE  Used(op, key) <=> Slot(op, key) <= Reached
  BY DEF InOrder

\* The job of the script is there once it was created.
LEMMA TheJobIsThere ==
  ASSUME RInv, Used("create_job", 1)
  PROVE  jobs[TheJob].status # "absent" /\ jobs[TheJob].profile = Profile
<1>0. TypeOK /\ ScriptInv /\ RowsFollow
  BY DEF RInv, CInv, IInv
<1>1. jobs[TheJob].status # "absent"
  <2>1. CASE ~Used("submit_revision", 1)
    BY <1>0, <2>1 DEF RowsFollow
  <2>2. CASE Used("submit_revision", 1)
    <3>1. PICK r \in Drawn : revisions[r].job = TheJob
      BY <1>0, <2>2 DEF ScriptInv, TextSent
    <3>2. StatusFollows(r)
      BY <1>0 DEF RowsFollow
    <3>3. Used("freeze", 1) => jobs[TheJob].status = "frozen"
      BY <1>0 DEF ScriptInv, TextReleased
    <3>. QED
      BY <2>2, <3>2, <3>3 DEF StatusFollows, StatusAfterFindings
  <2>. QED
    BY <2>1, <2>2
<1>. QED
  BY <1>0, <1>1, TheJobIsJob DEF ScriptInv, OneJob

\* A check that is not behind sends its command at the version of the job.
LEMMA NotBehind ==
  ASSUME RInv, NEW q \in Sound, InStep(q), q.step \in Commands,
         ~Used(Operation(q.step), KeyOf(q))
  PROVE  /\ Reached = q.version /\ Reached \in Nat /\ Cardinality(Reported) \in Nat
         /\ Slot(Operation(q.step), KeyOf(q)) = q.version + 1
         /\ q.step # "create" =>
              /\ Admit(Operation(q.step), q.job, q.version, KeyOf(q))
              /\ q.job = TheJob /\ TheJob \in Jobs
         /\ q.step \notin {"create", "revision"} =>
              /\ Admitted(q)
              /\ q.revision \in Drawn /\ q.revision \in Revisions
              /\ Current(TheJob) = q.revision
<1>0. TypeOK /\ InOrder /\ RowsFollow
  BY DEF RInv, CInv, IInv
<1>1. Operation(q.step) \in Ops /\ KeyOf(q) \in Keys /\ InScript(Operation(q.step), KeyOf(q))
  BY KeysOfScript
<1>2. PICK count \in Nat : count = Cardinality(Reported)
  BY <1>1, SlotsOfScript
<1>3. PICK slot \in Nat : slot = Slot(Operation(q.step), KeyOf(q)) /\ slot <= 5 + count
  BY <1>1, <1>2, SlotsDiffer
<1>4. ~(slot <= Reached)
  BY <1>0, <1>1, <1>3, UsedNow
<1>5. Reached \in Nat
  BY <1>0, TheJobIsJob DEF Reached
<1>6. q.version = slot - 1 /\ q.version <= Reached /\ q.version \in Nat
  BY <1>3 DEF InStep, Sound, CheckRows
<1>7. Reached = q.version
  BY <1>3, <1>4, <1>5, <1>6
<1>8. q.version < MaxVersion
  <2>1. PICK version, max : version = q.version /\ max = MaxVersion /\ max \in Nat
    BY WorkflowAssumption
  <2>2. max >= 5 + count
    BY <1>2, <2>1, RoomAssumption DEF Reported
  <2>3. version \in Nat /\ version <= 4 + count
    BY <1>2, <1>3, <1>6, <2>1
  <2>. QED
    BY <1>2, <2>1, <2>2, <2>3
<1>9. ASSUME q.step # "create"
      PROVE  /\ Admit(Operation(q.step), q.job, q.version, KeyOf(q))
             /\ q.job = TheJob /\ TheJob \in Jobs
  <2>1. Used("create_job", 1) /\ q.job = TheJob
    BY <1>9, StepOperation DEF Commands
  <2>2. TheJob \in Jobs /\ Reached = jobs[TheJob].version
    BY <1>0, <2>1, TheJobIsJob
  <2>3. jobs[TheJob].status # "absent"
    BY <2>1, TheJobIsThere
  <2>. QED
    BY <1>7, <1>8, <2>1, <2>2, <2>3 DEF Admit, KeyUnused, ExpectVersion, Used
<1>10. ASSUME q.step \notin {"create", "revision"}
       PROVE  /\ Admitted(q) /\ q.revision \in Drawn /\ q.revision \in Revisions
              /\ Current(TheJob) = q.revision
  <2>1. q.revision \in Drawn
    BY <1>10, StepOperation DEF Commands
  <2>2. Current(TheJob) = q.revision
    BY <1>0, <2>1 DEF RowsFollow
  <2>3. q.revision \in Revisions
    BY <2>1 DEF Drawn
  <2>. QED
    BY <1>9, <1>10, <2>1, <2>2, <2>3, WorkflowAssumption DEF Admitted
<1>. QED
  BY <1>2, <1>3, <1>5, <1>6, <1>7, <1>9, <1>10

LEMMA CreatePermitted ==
  ASSUME RInv, NEW q \in Sound, InStep(q), q.step = "create",
         ~Used("create_job", 1)
  PROVE  Permitted(q)
<1>1. \A j \in Jobs : jobs[j].status = "absent"
  BY DEF RInv, CInv, ScriptInv, OneJob
<1>. QED
  BY <1>1, RoomAssumption, SelfCheckAssumption, DomainAssumption
     DEF Permitted, KeyUnused, Used

LEMMA RevisionPermitted ==
  ASSUME RInv, NEW q \in Sound, InStep(q), q.step = "revision",
         ~Used("submit_revision", 1)
  PROVE  Permitted(q)
<1>0. ScriptInv /\ RowsFollow
  BY DEF RInv, CInv
<1>1. Operation(q.step) = "submit_revision" /\ KeyOf(q) = 1 /\ Used("create_job", 1)
  BY StepOperation
<1>2. Admit("submit_revision", q.job, q.version, 1) /\ q.job = TheJob /\ TheJob \in Jobs
  BY <1>1, NotBehind DEF Commands
<1>3. Admitted(q)
  BY <1>1, <1>2 DEF Admitted
<1>4. Drawn = {}
  BY <1>0 DEF ScriptInv, OneText
<1>5. jobs[TheJob].status = "draft" /\ Current(TheJob) = None
  BY <1>0, <1>1 DEF RowsFollow
<1>6. NextSequence(q.job) = 1
  <2>1. RevisionsOf(q.job) = {}
    BY <1>2, <1>4, WorkflowAssumption DEF RevisionsOf, Drawn
  <2>. QED
    BY <2>1, FS_EmptySet DEF NextSequence
<1>7. ValidateNewRevision(q.job, None)
  BY <1>2, <1>5, <1>6 DEF ValidateNewRevision, EnsureMutable
<1>8. \E r \in Revisions : revisions[r].job = None
  BY <1>4, RoomAssumption DEF Drawn
<1>. QED
  BY <1>3, <1>7, <1>8 DEF Permitted

LEMMA QualityPermitted ==
  ASSUME RInv, NEW q \in Sound, InStep(q), q.step = "quality",
         ~Used("run_quality", 1)
  PROVE  Permitted(q)
<1>0. ScriptInv /\ RowsFollow
  BY DEF RInv, CInv
<1>1. Operation(q.step) = "run_quality" /\ KeyOf(q) = 1 /\ Used("create_job", 1)
  BY StepOperation
<1>2. Admitted(q) /\ q.job = TheJob /\ q.revision \in Drawn
  BY <1>1, NotBehind DEF Commands
<1>3. Used("submit_revision", 1)
  BY <1>0, <1>2 DEF ScriptInv, OneText
<1>4. StatusFollows(q.revision) /\ NoFindings(q.revision)
  BY <1>0, <1>2 DEF RowsFollow, MarksFollow
<1>5. EnsureMutable(q.job)
  BY <1>2, <1>3, <1>4 DEF StatusFollows, EnsureMutable
<1>6. jobs[q.job].profile \in KnownProfiles
  BY <1>1, <1>2, TheJobIsThere, SelfCheckAssumption
<1>. QED
  BY <1>2, <1>4, <1>5, <1>6 DEF Permitted

\* The rules were run and the review is to come.
LEMMA BeforeReview ==
  ASSUME RInv, NEW r \in Drawn, NEW count, count = Cardinality(Reported),
         3 <= Reached, Reached < 4 + count
  PROVE  /\ jobs[TheJob].status = StatusAfterFindings(Marks)
         /\ findings[r] = Marks
         /\ \A k \in 1..count : Used("disposition_finding", k) <=> 3 + k <= Reached
<1>0. InOrder /\ RowsFollow /\ count \in Nat
  BY FS_CardinalityType, SelfCheckAssumption DEF RInv, Reported
<1>1. {"run_quality", "review", "disposition_finding"} \subseteq Ops /\ 1 \in Keys
      /\ 1..count \subseteq Keys
  BY SelfCheckAssumption DEF Ops, Reported
<1>2. InScript("run_quality", 1) /\ InScript("review", 1)
      /\ \A k \in 1..count : InScript("disposition_finding", k)
  BY DEF InScript, SentOnce
<1>3. Used("run_quality", 1) <=> 3 <= Reached
  BY <1>0, <1>1, <1>2, UsedNow DEF Slot
<1>4. Used("review", 1) <=> 4 + count <= Reached
  BY <1>0, <1>1, <1>2, UsedNow DEF Slot
<1>5. \A k \in 1..count : Used("disposition_finding", k) <=> 3 + k <= Reached
  BY <1>0, <1>1, <1>2, UsedNow DEF Slot
<1>6. Reached \in Nat
  BY TheJobIsJob DEF Reached, RInv, CInv, IInv
<1>7. ~(4 + count <= Reached)
  BY <1>0, <1>6
<1>8. MarksFollow(r) /\ StatusFollows(r)
  BY <1>0 DEF RowsFollow
<1>. QED
  BY <1>3, <1>4, <1>5, <1>7, <1>8 DEF MarksFollow, StatusFollows

LEMMA FindingPermitted ==
  ASSUME RInv, NEW q \in Sound, InStep(q), q.step = "finding",
         ~Used("disposition_finding", q.item)
  PROVE  Permitted(q)
<1>1. /\ Operation(q.step) = "disposition_finding" /\ KeyOf(q) = q.item
      /\ q.item \in 1..Cardinality(Reported)
  BY StepOperation
<1>2. /\ Admitted(q) /\ q.job = TheJob /\ q.revision \in Drawn
      /\ Reached = q.version /\ Reached \in Nat
      /\ Slot(Operation(q.step), KeyOf(q)) = q.version + 1
  BY <1>1, NotBehind DEF Commands
<1>3. PICK count \in Nat : count = Cardinality(Reported)
  BY FS_CardinalityType, SelfCheckAssumption DEF Reported
<1>4. PICK item \in 1..count : item = q.item
  BY <1>1, <1>3
<1>5. Reached = 2 + item
  <2>1. 3 + item = Reached + 1
    BY <1>1, <1>2, <1>4 DEF Slot
  <2>. QED
    BY <1>2, <1>4, <2>1
<1>6. 3 <= Reached /\ Reached < 4 + count
  BY <1>3, <1>4, <1>5
<1>7. /\ jobs[TheJob].status = StatusAfterFindings(Marks)
      /\ findings[q.revision] = Marks
  BY <1>2, <1>3, <1>6, BeforeReview
<1>8. q.items = Items
  BY DEF InStep
<1>9. PICK i : i = Items[item]
  OBVIOUS
<1>10. i \in Reported /\ \A k \in 1..count : Items[k] = i => k = item
  BY <1>3, <1>4, <1>9, ItemsShape
<1>11. Reported \subseteq Issues
  BY SelfCheckAssumption, DomainAssumption DEF Reported
<1>12. ~Disposed(i)
  BY <1>3, <1>4, <1>10 DEF Disposed
<1>13. Marks[i] = "open"
  BY <1>10, <1>11, <1>12 DEF Marks
<1>14. findings[q.revision][q.items[q.item]] = "open"
  BY <1>4, <1>7, <1>8, <1>9, <1>13
<1>15. EnsureMutable(q.job)
  BY <1>2, <1>7 DEF EnsureMutable, StatusAfterFindings
<1>. QED
  BY <1>2, <1>14, <1>15 DEF Permitted, ValidateDisposition, Resolutions

LEMMA ReviewPermitted ==
  ASSUME RInv, NEW q \in Sound, InStep(q), q.step = "review",
         ~Used("review", 1)
  PROVE  Permitted(q)
<1>0. ScriptInv /\ RowsFollow /\ TypeOK
  BY DEF RInv, CInv, IInv
<1>1. Operation(q.step) = "review" /\ KeyOf(q) = 1
  BY StepOperation
<1>2. /\ Admitted(q) /\ q.job = TheJob /\ q.revision \in Drawn
      /\ Current(TheJob) = q.revision
      /\ Reached = q.version /\ Reached \in Nat
      /\ Slot(Operation(q.step), KeyOf(q)) = q.version + 1
  BY <1>1, NotBehind DEF Commands
<1>3. PICK count \in Nat : count = Cardinality(Reported)
  BY FS_CardinalityType, SelfCheckAssumption DEF Reported
<1>4. Reached = 3 + count
  <2>1. 4 + count = Reached + 1
    BY <1>1, <1>2, <1>3 DEF Slot
  <2>. QED
    BY <1>2, <1>3, <2>1
<1>5. 3 <= Reached /\ Reached < 4 + count
  BY <1>3, <1>4
<1>6. /\ jobs[TheJob].status = StatusAfterFindings(Marks)
      /\ findings[q.revision] = Marks
      /\ \A k \in 1..count : Used("disposition_finding", k)
  <2>1. /\ jobs[TheJob].status = StatusAfterFindings(Marks)
        /\ findings[q.revision] = Marks
        /\ \A k \in 1..count : Used("disposition_finding", k) <=> 3 + k <= Reached
    BY <1>2, <1>3, <1>5, BeforeReview
  <2>2. \A k \in 1..count : 3 + k <= Reached
    BY <1>3, <1>4
  <2>. QED
    BY <2>1, <2>2
<1>7. FindingsPermitReview(Marks)
  <2>1. ASSUME NEW i \in Issues  PROVE Marks[i] \in {"absent", "false_positive"}
    <3>1. i \in Reported => Disposed(i)
      BY <1>3, <1>6, ItemsShape DEF Disposed
    <3>. QED
      BY <3>1 DEF Marks
  <2>. QED
    BY <2>1 DEF FindingsPermitReview
<1>8. MayReview(q.job, Reviewer)
  <2>1. revisions[q.revision].author = Editor
    BY <1>0, <1>2 DEF RowsFollow
  <2>. QED
    BY <1>2, <1>6, <1>7, <2>1, SelfCheckAssumption DEF MayReview, StatusAfterFindings
<1>9. ContentOf(q.revision) = Programme
  BY <1>0, <1>2 DEF ScriptInv, OneText, ContentOf
<1>10. ValidateSample(Programme, SegmentIDs(Programme), "approve")
  <2>1. /\ Len(Programme) \in Nat /\ Len(Programme) >= 1
        /\ Cardinality(SegmentIDs(Programme)) = Len(Programme)
        /\ SegmentIDs(Programme) = {Programme[n].id : n \in 1..Len(Programme)}
    BY SelfCheckAssumption, ContentShape, IdsOfContent
  <2>2. PICK n \in Nat : n = Len(Programme) /\ n >= 1
    BY <2>1
  <2>3. {Programme[1].id, Programme[n].id} \subseteq SegmentIDs(Programme)
    <3>1. 1 \in 1..n /\ n \in 1..n
      BY <2>2
    <3>. QED
      BY <2>1, <2>2, <3>1
  <2>4. SegmentIDs(Programme) # {}
    BY <2>3
  <2>5. Cardinality(SegmentIDs(Programme)) >= IF n < 3 THEN n ELSE 3
    <3>1. PICK ids : ids = Cardinality(SegmentIDs(Programme))
      OBVIOUS
    <3>2. ids = n
      BY <2>1, <2>2, <3>1
    <3>. QED
      BY <2>2, <3>1, <3>2
  <2>. QED
    BY <2>2, <2>3, <2>4, <2>5 DEF ValidateSample
<1>. QED
  BY <1>2, <1>8, <1>9, <1>10 DEF Permitted

LEMMA FreezePermitted ==
  ASSUME RInv, NEW q \in Sound, InStep(q), q.step = "freeze",
         ~Used("freeze", 1)
  PROVE  Permitted(q)
<1>0. RowsFollow /\ InOrder /\ ReleaseWasReviewed
  BY DEF RInv, CInv, IInv
<1>1. Operation(q.step) = "freeze" /\ KeyOf(q) = 1
  BY StepOperation
<1>2. /\ Admitted(q) /\ q.job = TheJob /\ TheJob \in Jobs /\ q.revision \in Drawn
      /\ Reached = q.version /\ Reached \in Nat
      /\ Slot(Operation(q.step), KeyOf(q)) = q.version + 1
  BY <1>1, NotBehind DEF Commands
<1>3. PICK count \in Nat : count = Cardinality(Reported)
  BY FS_CardinalityType, SelfCheckAssumption DEF Reported
<1>4. Reached = 4 + count
  <2>1. 5 + count = Reached + 1
    BY <1>1, <1>2, <1>3 DEF Slot
  <2>. QED
    BY <1>2, <1>3, <2>1
<1>5. Used("review", 1)
  <2>1. "review" \in Ops /\ 1 \in Keys /\ InScript("review", 1)
    BY SelfCheckAssumption DEF Ops, InScript, SentOnce
  <2>2. Slot("review", 1) <= Reached
    BY <1>3, <1>4 DEF Slot
  <2>. QED
    BY <1>0, <2>1, <2>2, UsedNow
<1>6. jobs[TheJob].status = "approved"
  BY <1>0, <1>2, <1>5 DEF RowsFollow, StatusFollows
<1>7. artifacts[TheJob] = None
  BY <1>0, <1>2, <1>6 DEF ReleaseWasReviewed, ReleaseStands
<1>. QED
  BY <1>2, <1>6, <1>7 DEF Permitted, ValidateFreeze

LEMMA NothingRefusedStep == RInv => NothingIsRefused
<1>. SUFFICES ASSUME RInv, NEW c \in Checkers, checks[c] # None,
                     checks[c].request = "sent"
              PROVE  Answerable(checks[c]) \/ Repeated(checks[c]) \/ Permitted(checks[c])
  BY DEF NothingIsRefused
<1>1. PICK q : q = checks[c]
  OBVIOUS
<1>2. q \in Sound /\ InStep(q) /\ q.step \in Questions \cup Commands
  BY <1>1 DEF RInv, CInv, ChecksFollow, ChecksInStep, Sound, CheckRows
<1>3. CASE q.step \in Questions
  <2>. SUFFICES ASSUME q.step \in {"verify", "track"}  PROVE artifacts[q.job] # None
    BY <1>1, <1>3 DEF Answerable
  <2>1. Used("create_job", 1) /\ q.job = TheJob /\ Used("freeze", 1)
    BY <1>2 DEF Sound, Follows
  <2>2. TheJob \in Jobs /\ jobs[TheJob].status = "frozen"
    BY <2>1, TheJobIsJob DEF RInv, CInv, IInv, ScriptInv, TextReleased
  <2>. QED
    BY <2>1, <2>2 DEF RInv, CInv, IInv, ReleaseWasReviewed, ReleaseStands
<1>4. CASE q.step \in Commands
  <2>1. q.step \notin Questions
    BY <1>4 DEF Commands, Questions
  <2>2. CASE Used(Operation(q.step), KeyOf(q))
    BY <1>1, <2>1, <2>2 DEF Repeated, KeyUnused, Used
  <2>3. CASE ~Used(Operation(q.step), KeyOf(q))
    <3>1. /\ q.step = "create"   => ~Used("create_job", 1)
          /\ q.step = "revision" => ~Used("submit_revision", 1)
          /\ q.step = "quality"  => ~Used("run_quality", 1)
          /\ q.step = "finding"  => ~Used("disposition_finding", q.item)
          /\ q.step = "review"   => ~Used("review", 1)
          /\ q.step = "freeze"   => ~Used("freeze", 1)
      BY <1>2, <2>3, StepOperation
    <3>2. Permitted(q)
      BY <1>2, <1>4, <3>1, CreatePermitted, RevisionPermitted, QualityPermitted,
         FindingPermitted, ReviewPermitted, FreezePermitted DEF Commands
    <3>. QED
      BY <1>1, <3>2
  <2>. QED
    BY <2>2, <2>3
<1>. QED
  BY <1>2, <1>3, <1>4

\* Whichever checks ran before, broke off or are still running, the server has
\* an answer of the kind the check wants for every request it sends: a check is
\* never refused for a version, a key, a status or a row another one left.
THEOREM NothingRefused == CheckSpec => []NothingIsRefused
  BY ScriptIsFollowed, NothingRefusedStep, PTL

(***************************************************************************)
(* No answer makes a check fail.                                           *)
(***************************************************************************)
\* A chain that holds the freeze holds every command before it.
LEMMA AnswersAreAccepted ==
  ASSUME RInv, NEW c \in Checkers, checks[c] # None
  PROVE  Accepts(Learned(checks[c]))
<1>1. PICK p : p = checks[c]
  OBVIOUS
<1>2. p \in Sound /\ p \in CheckRows /\ Follows(p)
  BY <1>1 DEF RInv, CInv, ChecksFollow, Sound
<1>3. CASE p.step \notin {"verify", "audit", "track"}
  <2>1. Learned(p).step = p.step
    BY <1>2, <1>3 DEF Learned, CheckRows
  <2>. QED
    BY <1>1, <1>3, <2>1 DEF Accepts
<1>4. CASE p.step \in {"verify", "audit", "track"}
  <2>1. p.job = TheJob /\ Used("create_job", 1) /\ Used("freeze", 1)
    BY <1>2, <1>4 DEF Follows
  <2>2. PICK j \in Jobs : j = TheJob /\ Reached = jobs[j].version /\ jobs[j].version \in Nat
    BY <2>1, TheJobIsJob DEF RInv, CInv, IInv
  <2>3. CASE p.step = "verify"
    <3>1. artifacts[j] # None
      BY <2>1, <2>2 DEF RInv, CInv, IInv, ScriptInv, TextReleased,
                        ReleaseWasReviewed, ReleaseStands
    <3>2. VerifyRelease(artifacts[j], audit[j])
      BY <3>1 DEF RInv, CInv, ReleasesVerify, ReleaseVerifies
    <3>3. VerdictWithoutLimit
      BY VerdictStep DEF RInv, CInv
    <3>4. VerifyOnly(j, VerifyLimit).valid = TRUE
      BY <3>1, <3>2, <3>3 DEF VerdictWithoutLimit, VerifyOnly, VerifyRelease
    <3>5. Learned(p).valid = TRUE /\ Learned(p).step = "verify"
      BY <1>2, <2>1, <2>2, <2>3, <3>4 DEF Learned, CheckRows
    <3>. QED
      BY <1>1, <3>5 DEF Accepts
  <2>4. CASE p.step = "audit"
    <3>1. "freeze" \in Ops /\ 1 \in Keys /\ InScript("freeze", 1)
      BY SelfCheckAssumption DEF Ops, InScript, SentOnce
    <3>2. PICK count \in Nat : count = Cardinality(Reported)
      BY <3>1, SlotsOfScript
    <3>3. 5 + count <= jobs[j].version
      BY <2>1, <2>2, <3>1, <3>2, UsedNow DEF RInv, Slot
    <3>4. Len(audit[j]) = jobs[j].version
      BY DEF RInv, CInv, EffectInv, OneEffectPerKey
    <3>5. PICK events \in Nat : events = Len(audit[j]) /\ events >= 5
      BY <2>2, <3>2, <3>3, <3>4
    <3>6. Learned(p).events = events /\ Learned(p).step = "audit"
      BY <1>2, <2>1, <2>2, <2>4, <3>5 DEF Learned, CheckRows
    <3>. QED
      BY <1>1, <3>5, <3>6 DEF Accepts
  <2>5. CASE p.step = "track"
    <3>1. artifacts[j] # None
      BY <2>1, <2>2 DEF RInv, CInv, IInv, ScriptInv, TextReleased,
                        ReleaseWasReviewed, ReleaseStands
    <3>2. PICK t \in Contents : artifacts[j].track = WebVTT[t]
      BY <3>1, TrackOfRelease DEF RInv, CInv, IInv
    <3>3. PICK size \in Nat : size = Rules!BytesAtLeast(WebVTT[t]) /\ size >= 20
      BY TracksAreLong
    <3>4. Learned(p).size = size /\ Learned(p).step = "track"
      BY <1>2, <2>1, <2>2, <2>5, <3>2, <3>3 DEF Learned, CheckRows
    <3>. QED
      BY <1>1, <3>3, <3>4 DEF Accepts
  <2>. QED
    BY <1>4, <2>3, <2>4, <2>5
<1>. QED
  BY <1>3, <1>4

(***************************************************************************)
(* A check goes through its script.                                        *)
(***************************************************************************)
\* After a request comes the next one of the script.
LEMMA NextPlace ==
  ASSUME NEW q \in CheckRows, NEW t, Cardinality(Reported) \in Nat,
         q.step # "track", Follows(q),
         q.step = "quality" => Len(q.items) = Cardinality(Reported),
         t.step = AfterStep(q),
         t.item = IF q.step = "finding" THEN q.item + 1 ELSE q.item
  PROVE  Place(t) = Place(q) + 1
<1>1. PICK count \in Nat : count = Cardinality(Reported)
                           /\ count = Cardinality(Evaluate[Profile, Programme])
  BY DEF Reported
<1>0. PICK here, there : here = Place(q) /\ there = Place(t)
  OBVIOUS
<1>. SUFFICES there = here + 1
  BY <1>0
<1>12. PICK item \in Nat : item = q.item
  BY DEF CheckRows
<1>2. q.step \in Questions \cup Commands /\ q.items \in Seq(Issues) /\ q.item \in Nat
  BY DEF CheckRows
<1>3. CASE q.step = "page"
  <2>1. here = 0 /\ there = 1
    BY <1>0, <1>1, <1>3 DEF AfterStep, Place
  <2>. QED
    BY <1>0, <2>1
<1>4. CASE q.step = "create"
  <2>1. here = 1 /\ there = 2
    BY <1>0, <1>1, <1>4 DEF AfterStep, Place
  <2>. QED
    BY <1>0, <2>1
<1>5. CASE q.step = "revision"
  <2>1. here = 2 /\ there = 3
    BY <1>0, <1>1, <1>5 DEF AfterStep, Place
  <2>. QED
    BY <1>0, <2>1
<1>6. CASE q.step = "quality"
  <2>1. q.item = 1 /\ Len(q.items) = count /\ here = 3 /\ t.item = 1
    BY <1>0, <1>1, <1>6 DEF Follows, Place
  <2>2. CASE q.items = <<>>
    <3>1. count = 0 /\ t.step = "review"
      BY <1>6, <2>1, <2>2 DEF AfterStep
    <3>2. there = 4 + count
      BY <1>0, <1>1, <3>1 DEF Place
    <3>. QED
      BY <1>0, <2>1, <3>1, <3>2
  <2>3. CASE q.items # <<>>
    <3>1. t.step = "finding"
      BY <1>6, <2>3 DEF AfterStep
    <3>2. there = 3 + 1
      BY <1>0, <1>1, <2>1, <3>1 DEF Place
    <3>. QED
      BY <1>0, <2>1, <3>2
  <2>. QED
    BY <2>2, <2>3
<1>7. CASE q.step = "finding"
  <2>1. Len(q.items) = count /\ here = 3 + item
    BY <1>0, <1>1, <1>12, <1>7 DEF Follows, Place
  <2>2. CASE q.item = Len(q.items)
    <3>1. t.step = "review"
      BY <1>7, <2>2 DEF AfterStep
    <3>2. there = 4 + count
      BY <1>0, <1>1, <3>1 DEF Place
    <3>. QED
      BY <2>1, <2>2, <1>12, <3>2
  <2>3. CASE q.item # Len(q.items)
    <3>1. t.step = "finding" /\ t.item = q.item + 1
      BY <1>7, <2>3 DEF AfterStep
    <3>2. there = 3 + (item + 1)
      BY <1>0, <1>1, <1>12, <3>1 DEF Place
    <3>. QED
      BY <1>12, <2>1, <3>2
  <2>. QED
    BY <2>2, <2>3
<1>8. CASE q.step = "review"
  <2>1. here = 4 + count /\ there = 5 + count
    BY <1>0, <1>1, <1>8 DEF AfterStep, Place
  <2>. QED
    BY <2>1
<1>9. CASE q.step = "freeze"
  <2>1. here = 5 + count /\ there = 6 + count
    BY <1>0, <1>1, <1>9 DEF AfterStep, Place
  <2>. QED
    BY <2>1
<1>10. CASE q.step = "verify"
  <2>1. here = 6 + count /\ there = 7 + count
    BY <1>0, <1>1, <1>10 DEF AfterStep, Place
  <2>. QED
    BY <2>1
<1>11. CASE q.step = "audit"
  <2>1. here = 7 + count /\ there = 8 + count
    BY <1>0, <1>1, <1>11 DEF AfterStep, Place
  <2>. QED
    BY <2>1
<1>. QED
  BY <1>2, <1>3, <1>4, <1>5, <1>6, <1>7, <1>8, <1>9, <1>10, <1>11 DEF Questions, Commands

LEMMA AdvanceStep ==
  ASSUME RInv, [CheckNext]_checkVars, NEW c \in Checkers,
         NEW q, NEW next, q = checks[c], next = checks'[c],
         q # None, next \notin {None, q}
  PROVE  \/ /\ q.request = "sent" /\ next.request = "answered"
            /\ Place(next) = Place(q)
         \/ /\ q.request = "answered" /\ next.request = "sent"
            /\ Place(next) = Place(q) + 1
         \/ q.step = "track" /\ next.outcome = "passed"
         \/ next.outcome = "failed" /\ faults' = faults + 1
<1>1. checks \in [Checkers -> Sound \cup {None}] /\ q \in Sound /\ q \in CheckRows
  BY DEF RInv, CInv, ChecksFollow, Sound
<1>2. PICK d \in Checkers : Begin(d) \/ Carry(d) \/ Proceed(d) \/ BreakOff(d) \/ Exit(d)
  BY DEF CheckNext, checkVars
<1>3. d = c
  BY <1>1, <1>2 DEF Begin, Carry, Proceed, BreakOff, Exit
<1>4. CASE Begin(c)
  BY <1>4 DEF Begin
<1>5. CASE Carry(c)
  <2>1. q.request = "sent" /\ next = [q EXCEPT !.request = "answered"]
    BY <1>1, <1>5 DEF Carry
  <2>2. next.request = "answered" /\ next.step = q.step /\ next.item = q.item
    BY <1>1, <2>1 DEF CheckRows
  <2>. QED
    BY <2>1, <2>2 DEF Place
<1>6. CASE Proceed(c)
  <2>1. PICK p : p = Learned(q)
    OBVIOUS
  <2>2. q.request = "answered" /\ q.outcome = "running"
    BY <1>6 DEF Proceed
  <2>3. /\ p \in Sound /\ p \in CheckRows /\ Follows(p)
        /\ p.step = q.step /\ p.item = q.item /\ Accepts(p)
        /\ p.step = "quality" => Len(p.items) = Cardinality(Reported)
    BY <1>1, <2>1, <2>2, LearnedIsSound, AnswersAreAccepted DEF RInv, CInv, IInv, Sound
  <2>4. CASE p.step = "track"
    <3>1. next = [p EXCEPT !.outcome = "passed"]
      BY <1>1, <1>6, <2>1, <2>3, <2>4 DEF Proceed
    <3>. QED
      BY <2>3, <2>4, <3>1 DEF CheckRows
  <2>5. CASE p.step # "track"
    <3>1. next = [p EXCEPT !.step = AfterStep(p), !.version = Raised(p), !.request = "sent",
                           !.item = IF p.step = "finding" THEN @ + 1 ELSE @]
      BY <1>1, <1>6, <2>1, <2>3, <2>5 DEF Proceed
    <3>2. /\ next.step = AfterStep(p) /\ next.request = "sent"
          /\ next.item = IF p.step = "finding" THEN p.item + 1 ELSE p.item
      BY <2>3, <3>1 DEF CheckRows
    <3>3. Cardinality(Reported) \in Nat
      BY FS_CardinalityType, SelfCheckAssumption DEF Reported
    <3>4. Place(next) = Place(p) + 1
      BY <2>3, <2>5, <3>2, <3>3, NextPlace
    <3>5. Place(p) = Place(q)
      BY <2>3 DEF Place
    <3>. QED
      BY <2>2, <3>2, <3>4, <3>5
  <2>. QED
    BY <2>4, <2>5
<1>7. CASE BreakOff(c)
  <2>1. next = [q EXCEPT !.outcome = "failed"]
    BY <1>1, <1>7 DEF BreakOff, Failing
  <2>2. next.outcome = "failed" /\ faults' = faults + 1
    BY <1>1, <1>7, <2>1 DEF CheckRows, BreakOff
  <2>. QED
    BY <2>2
<1>8. CASE Exit(c)
  BY <1>1, <1>8 DEF Exit
<1>. QED
  BY <1>2, <1>3, <1>4, <1>5, <1>6, <1>7, <1>8

\* A check goes from each request of its script to the next, and so ends, unless
\* it is broken off: a repeated quality check is answered with the findings of the
\* first, the verdict is good, the chain and the track are long enough.
THEOREM ChecksGoOn == CheckSpec => ChecksAdvance
<1>1. ASSUME RInv, [CheckNext]_checkVars
      PROVE  [\A c \in Checkers :
       LET q == checks[c]
           next == checks'[c]
       IN q # None /\ next \notin {None, q} =>
            \/ /\ q.request = "sent" /\ next.request = "answered"
               /\ Place(next) = Place(q)
            \/ /\ q.request = "answered" /\ next.request = "sent"
               /\ Place(next) = Place(q) + 1
            \/ q.step = "track" /\ next.outcome = "passed"
            \/ next.outcome = "failed" /\ faults' = faults + 1]_checkVars
  BY <1>1, AdvanceStep
<1>. QED
  BY <1>1, ScriptIsFollowed, PTL DEF CheckSpec, ChecksAdvance
====
