----------------------------- MODULE SelfCheck ------------------------------
(***************************************************************************)
(* The self check: a server that is started with -selfcheck sends itself   *)
(* one fixed text through every command up to a release, verifies that,    *)
(* stops, and exits with success only if all went well.                    *)
(*                                                                         *)
(* Its keys and versions are fixed too.  On a database of its own that is  *)
(* a single pass.  On a file that is named with -db, checks of several     *)
(* processes may run at once, and a check may follow one that broke off    *)
(* anywhere, so each request is the first of its key or a replay.          *)
(***************************************************************************)
EXTENDS CaptionQueries, SequencesExt

CONSTANTS
  Checkers,         \* processes
  Editor, Reviewer, \* who the check acts as
  Programme,        \* the text it sends
  Profile,          \* and the profile it names
  MaxFaults         \* bound: checks that break off

ASSUME SelfCheckAssumption ==
  /\ {Editor, Reviewer} \subseteq People /\ Editor # Reviewer
  /\ Programme \in Contents /\ Profile \in KnownProfiles
  /\ IsFiniteSet(Evaluate[Profile, Programme])
  /\ {1} \cup 1..Cardinality(Evaluate[Profile, Programme]) \subseteq Keys
  /\ MaxFaults \in Nat

\* The bounds leave room for a check: one job, one revision, a version for each
\* of its commands.
ASSUME RoomAssumption ==
  /\ Jobs # {} /\ Revisions # {}
  /\ MaxVersion >= 5 + Cardinality(Evaluate[Profile, Programme])

VARIABLES
  checks,  \* of each process: the check it runs, or None
  faults

checkVars == <<vars, checks, faults>>

Questions == {"page", "verify", "audit", "track"}

NewCheck == [outcome |-> "running", step |-> "page", request |-> "sent",
             version |-> 0, job |-> None, revision |-> None,
             items |-> <<>>, item |-> 1, valid |-> FALSE, events |-> 0,
             size |-> 0]

CheckInit ==
  /\ Init
  /\ checks = [c \in Checkers |-> None]
  /\ faults = 0
----------------------------------------------------------------------------
(***************************************************************************)
(* The script.                                                             *)
(***************************************************************************)
Operation(step) ==
  CASE step = "create"   -> "create_job"
    [] step = "revision" -> "submit_revision"
    [] step = "quality"  -> "run_quality"
    [] step = "finding"  -> "disposition_finding"
    [] OTHER             -> step

\* "-001" in the keys of all requests but those about findings, which count.
KeyOf(q) == IF q.step = "finding" THEN q.item ELSE 1

\* The requests about findings are as many as the check found.
AfterStep(q) ==
  CASE q.step = "page"     -> "create"
    [] q.step = "create"   -> "revision"
    [] q.step = "revision" -> "quality"
    [] q.step = "quality"  -> IF q.items = <<>> THEN "review" ELSE "finding"
    [] q.step = "finding"  -> IF q.item = Len(q.items) THEN "review" ELSE "finding"
    [] q.step = "review"   -> "freeze"
    [] q.step = "freeze"   -> "verify"
    [] q.step = "verify"   -> "audit"
    [] q.step = "audit"    -> "track"

RaisedOnce(q) == q.version + (IF q.step \in Questions \cup {"finding"} THEN 0 ELSE 1)

\* The version to expect next, counted along and not read from the answers.
Raised(q) == q.version + (IF q.step \in Questions THEN 0 ELSE 1)

AcceptsWithVerification(q) ==
  /\ q.step = "verify" => q.valid
  /\ q.step = "audit" => q.events >= 6 + Cardinality(Evaluate[Profile, Programme])
  /\ q.step = "track" => q.size >= 20

\* Any status but the one the request calls for ends the check; so do a verdict
\* that is not valid, a chain of less than five events, and a track of less than
\* 20 bytes.
Accepts(q) ==
  /\ q.step = "verify" => q.valid
  /\ q.step = "audit" => q.events >= 5
  /\ q.step = "track" => q.size >= 20
----------------------------------------------------------------------------
(***************************************************************************)
(* What the server does about a request: the command, with the fields the  *)
(* check sends, a replay of it, or a query.                                *)
(***************************************************************************)
Effect(q) ==
  \/ /\ q.step = "create"
     /\ \E j \in Jobs :
          CreateJob(j, 1) /\ jobs'[j].profile = Profile
  \/ /\ q.step = "revision"
     /\ SubmitRevision(q.job, q.version, 1)
     /\ LET r == jobs'[q.job].current IN
          revisions'[r].author = Editor /\ revisions'[r].content = Programme
  \/ /\ q.step = "quality" /\ q.revision = Current(q.job)
     /\ RunQuality(q.job, q.version, 1)
  \/ /\ q.step = "finding"
     /\ DispositionFinding(q.job, q.version, q.item)
     /\ findings'[q.revision] =
          [findings[q.revision] EXCEPT ![q.items[q.item]] = "false_positive"]
  \/ /\ q.step = "review" /\ q.revision = Current(q.job)
     /\ Review(q.job, q.version, 1)
     /\ Last(reviews'[q.job]) =
          [revision |-> q.revision, reviewer |-> Reviewer,
           sample |-> SegmentIDs(Programme), decision |-> "approve"]
  \/ /\ q.step = "freeze" /\ q.revision = Current(q.job)
     /\ Freeze(q.job, q.version, 1)

Query(q) ==
  /\ q.step \in Questions
  /\ q.step \in {"verify", "track"} => artifacts[q.job] # None
  /\ UNCHANGED vars

\* The findings of the answer that is kept under the key of the quality check:
\* those the rules reported when it was made, whatever was ruled on them since.
FirstFindings(q) == Evaluate[jobs[q.job].profile, ContentOf(q.revision)]

\* What the check keeps of the answer; the answer of a replay is the first one.
Learned(q) ==
  CASE q.step = "create" ->
         [q EXCEPT !.job = idempotency["create_job"][1].job]
    [] q.step = "revision" ->
         [q EXCEPT !.revision = CHOOSE r \in RevisionsOf(q.job) :
                                  revisions[r].sequence = 1]
    [] q.step = "quality" -> [q EXCEPT !.items = SetToSeq(FirstFindings(q))]
    [] q.step = "verify" ->
         [q EXCEPT !.valid = VerifyOnly(q.job, VerifyLimit).valid]
    [] q.step = "audit" -> [q EXCEPT !.events = Len(audit[q.job])]
    [] q.step = "track" ->
         [q EXCEPT !.size = Rules!BytesAtLeast(artifacts[q.job].track)]
    [] OTHER -> q

Carry(c) ==
  LET q == checks[c] IN
  /\ q # None
  /\ q.request = "sent"
  /\ \/ Effect(q)
     \/ q.step \notin Questions /\ Replay(Operation(q.step), KeyOf(q))
     \/ Query(q)
  /\ checks' = [checks EXCEPT ![c].request = "answered"]
  /\ UNCHANGED faults
----------------------------------------------------------------------------
(***************************************************************************)
(* The check.                                                              *)
(***************************************************************************)
Begin(c) ==
  /\ checks[c] = None
  /\ checks' = [checks EXCEPT ![c] = NewCheck]
  /\ UNCHANGED <<vars, faults>>

\* An answer is taken, and the next request sent.
Proceed(c) ==
  LET q == Learned(checks[c]) IN
  /\ checks[c] # None
  /\ checks[c].outcome = "running"
  /\ checks[c].request = "answered"
  /\ checks' = [checks EXCEPT ![c] =
       CASE ~Accepts(q) -> [q EXCEPT !.outcome = "failed"]
         [] Accepts(q) /\ q.step = "track" -> [q EXCEPT !.outcome = "passed"]
         [] OTHER -> [q EXCEPT !.step = AfterStep(q), !.version = Raised(q),
                               !.request = "sent",
                               !.item = IF q.step = "finding" THEN @ + 1 ELSE @]]
  /\ UNCHANGED <<vars, faults>>

Passing == "passed"

Failing == "failed"

\* A timeout of the request or of the check, a lost connection, a store that
\* is busy with another process, a server that stops: the server may have the
\* request still.
BreakOff(c) ==
  /\ faults < MaxFaults
  /\ checks[c] # None
  /\ checks[c].outcome = "running"
  /\ checks' = [checks EXCEPT ![c].outcome = Failing]
  /\ faults' = faults + 1
  /\ UNCHANGED vars

\* A check that failed ends its process, which may be started again.
Exit(c) ==
  /\ checks[c] # None
  /\ checks[c].outcome = "failed"
  /\ checks' = [checks EXCEPT ![c] = None]
  /\ UNCHANGED <<vars, faults>>

CheckNext ==
  \E c \in Checkers :
    Begin(c) \/ Carry(c) \/ Proceed(c) \/ BreakOff(c) \/ Exit(c)

Fairness ==
  \A c \in Checkers :
    WF_checkVars(Begin(c) \/ Carry(c) \/ Proceed(c) \/ Exit(c))

CheckSpec == CheckInit /\ [][CheckNext]_checkVars /\ Fairness
----------------------------------------------------------------------------
(***************************************************************************)
(* Properties.                                                             *)
(***************************************************************************)
Answerable(q) ==
  /\ q.step \in Questions
  /\ q.step \in {"verify", "track"} => artifacts[q.job] # None

Repeated(q) ==
  q.step \notin Questions /\ ~KeyUnused(Operation(q.step), KeyOf(q))

\* Not carried out before, at the version it names, and about the right text.
Admitted(q) ==
  /\ Admit(Operation(q.step), q.job, q.version, KeyOf(q))
  /\ q.step # "revision" => q.revision = Current(q.job) /\ q.revision # None

\* A command that passes each check the service makes of it.
Permitted(q) ==
  \/ /\ q.step = "create" /\ KeyUnused("create_job", 1)
     /\ Profile \in Profiles /\ \E j \in Jobs : jobs[j].status = "absent"
  \/ /\ q.step = "revision" /\ Admitted(q)
     /\ ValidateNewRevision(q.job, None)
     /\ \E r \in Revisions : revisions[r].job = None
  \/ /\ q.step = "quality" /\ Admitted(q)
     /\ EnsureMutable(q.job)
     /\ NoFindings(q.revision) /\ jobs[q.job].profile \in KnownProfiles
  \/ /\ q.step = "finding" /\ Admitted(q)
     /\ EnsureMutable(q.job)
     /\ ValidateDisposition(findings[q.revision][q.items[q.item]], "false_positive")
  \/ /\ q.step = "review" /\ Admitted(q)
     /\ MayReview(q.job, Reviewer)
     /\ ValidateSample(ContentOf(q.revision), SegmentIDs(Programme), "approve")
  \/ /\ q.step = "freeze" /\ Admitted(q)
     /\ ValidateFreeze(q.job) /\ artifacts[q.job] = None

\* Wherever earlier checks broke off and others are, the server has an answer
\* of the kind the check wants for every request it sends.
NothingIsRefused ==
  \A c \in Checkers :
    checks[c] # None /\ checks[c].request = "sent" =>
      Answerable(checks[c]) \/ Repeated(checks[c]) \/ Permitted(checks[c])

\* Of each request, how many come before it.
Place(q) ==
  LET reported == Cardinality(Evaluate[Profile, Programme]) IN
  CASE q.step = "page"     -> 0
    [] q.step = "create"   -> 1
    [] q.step = "revision" -> 2
    [] q.step = "quality"  -> 3
    [] q.step = "finding"  -> 3 + q.item
    [] q.step = "review"   -> 4 + reported
    [] q.step = "freeze"   -> 5 + reported
    [] q.step = "verify"   -> 6 + reported
    [] q.step = "audit"    -> 7 + reported
    [] q.step = "track"    -> 8 + reported

\* A check gets its answer, or takes it and sends the next request, in a script of
\* as many as the rules report findings, whether each is carried out for it or was
\* for another check.  So it ends after that many steps; and it fails only as it is
\* broken off, and by no answer: no verdict, no number of events, no short track.
ChecksAdvance ==
  [][\A c \in Checkers :
       LET q == checks[c]
           next == checks'[c]
       IN q # None /\ next \notin {None, q} =>
            \/ /\ q.request = "sent" /\ next.request = "answered"
               /\ Place(next) = Place(q)
            \/ /\ q.request = "answered" /\ next.request = "sent"
               /\ Place(next) = Place(q) + 1
            \/ q.step = "track" /\ next.outcome = "passed"
            \/ next.outcome = "failed" /\ faults' = faults + 1]_checkVars

\* All checks together make one job, one revision and one release of it, each
\* command once.
OneReleaseOfAllChecks ==
  /\ Cardinality({j \in Jobs : jobs[j].status # "absent"}) <= 1
  /\ Cardinality(Drawn) <= 1
  /\ \A j \in Jobs : \A m, n \in DOMAIN audit[j] :
       audit[j][m].body = audit[j][n].body
         => m = n \/ audit[j][m].body.type = "disposition_finding"
  /\ \A j \in Jobs :
       Len(audit[j]) <= 5 + Cardinality(Evaluate[Profile, Programme])

\* Success means that the text was released, by the rules, and verifies.
SuccessMeansReleased ==
  \A c \in Checkers :
    checks[c] # None /\ checks[c].outcome = "passed" =>
      LET j == checks[c].job IN
      /\ j \in Jobs
      /\ jobs[j].status = "frozen"
      /\ ReleaseStands(j)
      /\ artifacts[j].track = WebVTT[Programme]
      /\ VerifyRelease(artifacts[j], audit[j])
      /\ Len(audit[j]) >= 5

\* A check that is started again when it breaks off passes in the end.
ChecksPass ==
  \A c \in Checkers : <>(checks[c] # None /\ checks[c].outcome = "passed")
=============================================================================
