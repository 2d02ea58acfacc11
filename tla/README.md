# Caption audit desk: TLA+ models, checks and proofs

A verification development for the caption audit desk in this repository: a Go
server over SQLite in which teams draft accessible captions for a video, run
quality rules over them, dispose of the findings, have them reviewed by a second
person, freeze a release and verify it later.

The modules are translated from the Go source. Paths below are relative to
`src/`. `PROJECT.json` maps each definition to the lines it stands for.

1. [The system](#1-the-system)
2. [The modules](#2-the-modules)
3. [What TLC checks](#3-what-tlc-checks)
4. [What is proved](#4-what-is-proved)
5. [Where the code and its texts disagree](#5-where-the-code-and-its-texts-disagree)
6. [Abstractions, and what is not modelled](#6-abstractions-and-what-is-not-modelled)
7. [Plan](#7-plan)

To repeat the checks:

    tlc -workers 2 -config commands.cfg MCCaption     # and the pairs of section 3
    for m in OrderLemmas.tla *Proofs.tla; do tlapm $m; done

## 1. The system

    browser page --HTTP--> web handlers --> application.Service --> store (SQLite)
     app.js                 decode, route     |   one transaction per command
                                              +-> domain rules     (pure)
                                              +-> evidence         (pure)

A client sends a *command* with the version of the job it expects and an
idempotency key. The service opens one store transaction, looks the key up,
loads the job, compares the version, applies the domain rules, writes rows, raises
the job's version, appends an audit event chained to the previous one, stores the
answer under the key, and commits. Any error rolls the transaction back.

| Component | State it keeps | Operations | What makes it correct |
|---|---|---|---|
| Domain rules, `internal/domain` | none | transition, review, sample and disposition rules; quality rules; segment validation | the gate to review opens only on settled findings; nobody reviews their own text |
| Workflow commands, `internal/application` `service.go`, `workflow.go`, `extensions.go` | none of its own: the rows below, within a transaction | CreateJob, SubmitRevision, PreflightRevision, RunQuality, DispositionFinding, BatchDisposition, Review, FreezePreview, Freeze, VerifyAndRecord, and the answer to a repeated key | job status, findings, reviews, revisions, releases and the audit chain agree after every sequence of commands; one effect for each key; evidence is only added to |
| Queries, `queries.go` and the reading half of `extensions.go` | none | list, detail, diff, timeline, findings, sampling, work queue, verification history, Verify | what a query suggests is what the commands accept; a page is of one version; the verdict does not depend on the chain's length |
| Evidence, `internal/evidence` | none | audit digest and chain, manifest, WebVTT, release verification | a release verifies at every later time; the track says what the text says |
| Store, `internal/store/sqlite` | nine tables, a pool of eight connections | BeginTx, row reads and writes, Commit, migrations, integrity check | transactions are as good as executed one at a time; a refused or cancelled one leaves nothing |
| HTTP API, `internal/web` | none | twenty-odd routes | a route calls its operation with what was sent |
| Browser workbench, `internal/web/assets/app.js` | selected job and the detail it last loaded | select, command, reload | it sends the version of the job its user sees |
| Server process, `cmd/server` | listener, store handle | start, integrity check, serve, signal, bounded shutdown | no committed command is lost; shutdown ends |
| Self check, `internal/web/selfcheck.go`, `cmd/server/main.go` | how far its script has come | one fixed sequence of requests, over HTTP, to the server it was started with | it passes on an intact build, also on a file it has been run on before |

What is hard here:

- *Orders of commands.* Status, findings, reviews and releases are in different
  tables, written by different commands, each with its own idea of which
  statuses it accepts. RunQuality accepts any status but frozen.
  BatchDisposition accepts every status.
- *Staleness.* Clients act on versions, preflights and release previews that they
  hold while others change the job. Preflights and previews are held by
  clients and not stored. They come back only as digests.
- *Retries.* A lost answer is followed by the same command under the same key,
  possibly after others went through. A key is looked up per operation, not per job.
- *Two counts of one thing.* A revision's sequence number is counted from rows,
  its parent comes from the client, and the current revision is a column of the job.
- *Chained evidence.* The manifest keeps the audit head before the freeze; the
  chain then grows with every verification and must still agree with it.
- *The store.* Snapshots, deferred write locks, eight connections with separate
  settings, contexts that end around a commit, crashes, a shutdown with a deadline.
- *Neighbours for all pairs.* The quality rules compare each cue with the one before it, in
  an order made by sorting; what is meant is about the whole text.
- *The page.* Nothing is disabled while a request is open; answers come in any order.
- *Paging by offset* through a list that every command reorders.

`PROJECT.json` lists each hazard at its line with the properties that answer it, or why none does.

## 2. The modules

| Module | What it is |
|---|---|
| `CaptionDomain` | pure operators: the rules of `internal/domain` and the audit chain of `internal/evidence/audit.go` |
| `CaptionWorkflow` | the state machine of the commands, its properties, and two refinement mappings |
| `CaptionLifecycle` | an abstract specification: what users are promised |
| `SerialLedger` | an abstract specification: commands executed one at a time, each once for its key |
| `SqliteStore` | requests, connections, snapshots, the write lock, crashes, shutdown, clients that retry |
| `QualityRules` | pure operators: segment validation, profiles, quality rules and the WebVTT track, in milliseconds and lines |
| `CaptionText` | every text a client may send, and what rules and track are to say of it |
| `CaptionQueries` | detail, diff, sampling and the readers of the audit chain, next to `CaptionWorkflow` |
| `WorkQueue` | the list of jobs and a client that pages through it while others write |
| `Workbench` | the browser page, over `SerialLedger` |
| `SelfCheck` | the self check, over `CaptionWorkflow` and `CaptionQueries` with the real rules |
| `MCCaption`, `MCStore`, `MCText`, `MCQueries`, `MCQueue`, `MCWorkbench`, `MCSelfCheck` | texts, times, clients and symmetry of the instances TLC checks |
| `CaptionWorkflowProofs` | the inductive invariant: types, the gate to review, releases, frozen evidence |
| `CaptionLedgerProofs` | what accumulates: append-only evidence, one effect for each key, chains and verdicts; `CaptionWorkflow` implements `SerialLedger` and `CaptionLifecycle`; release confirmations, and the numbering of revisions |
| `CaptionQueriesProofs` | the queries, and the self check |
| `OrderLemmas` | what the proofs need of numbers, orders, sums, ranks and growing sequences |
| `SqliteStoreProofs` | the store's safety properties; `SqliteStore` implements `SerialLedger` |
| `CaptionTextProofs` | overlaps, silences, pace, and what is written to the track and read from it, for texts of any length |
| `WorkbenchProofs` | clicks and their effects, for any number of requests |
| `WorkQueueProofs` | what paging overlooks and repeats, for lists of any length |

How they are composed: `SqliteStore` says how a transaction runs and leaves open what it
does; `CaptionWorkflow` says what each command does, in one step. Both are shown to
implement `SerialLedger`, in which a command moves one job from the version it expects to
the next and leaves its result under its key, once. `Workbench` relies on the server for
this and no more, so it instantiates `SerialLedger`. `CaptionQueries` and
`SelfCheck` extend `CaptionWorkflow`, whose parameters `Evaluate` and `WebVTT` their
instances define by `QualityRules`.

The sections *State* and *Actions* are about `CaptionWorkflow`.

### State

Each variable of `CaptionWorkflow` is a table, keyed by the identifier `newID` draws
for the row; an identifier not drawn yet has an "absent" row.

| Variable | Table or column |
|---|---|
| `jobs` | `caption_jobs`: status, profile code, current revision, version |
| `revisions` | `caption_revisions`: job, parent, sequence, author, segments |
| `findings` | `quality_findings`: per revision and issue, the disposition |
| `batches` | `quality_check_batches`: how many name the revision |
| `reviews` | `review_decisions` of a job |
| `artifacts` | `release_artifacts` of a job, at most one |
| `verifications` | `verification_records` of a job |
| `audit` | `audit_events` of a job |
| `idempotency` | `idempotency_records`: operation and key to the effect they had |
| `preflights`, `previews` | answers of PreflightRevision and FreezePreview that clients still hold: no table |

### Actions

One action per method of the service, named as the method is. `Admit` is the head
of every command on an existing job, in the code's order: key unused, job found,
expected version current. `Commit` is the tail: job row with its version raised,
audit event, result kept under the key. What lies between, the command's own checks
and rows, is in the action. A command refused at any point changes nothing, and
is therefore not a step; the guards are the code's refusals. `Replay` is the early
return for a key already used.

`DispositionFinding` and `BatchDisposition` share `Dispose`: both write
dispositions, read all findings of the revision back and set the status from
them. They differ in what they ask first: only the single form asks
whether the job is frozen.

Each client is free to send any job, version, key, text, sample, parent, decision
and receipt; the actions quantify over all of them. A wrong version or a used
key is covered by the guards.

### The abstract lifecycle

`CaptionLifecycle` knows four things about a job: its phase, the text being
worked on with its author, who passed it, and the published track. A text is
written, examined, passed by somebody other than its author, and published
unchanged, for good. `CaptionWorkflow!ImplementsLifecycle` instantiates it with a
mapping from the rows: status to phase, current revision to text, the last
review's author to `passedBy`, the release to track. Examining a passed text may
withdraw its approval. The abstract specification says so because the
code does it (see section 5).

### The store

`SqliteStore` follows a request through `Transact` (`internal/store/sqlite/store.go`): sent,
a connection of the pool, the first read, which is the lookup of the key and
fixes the snapshot, the checks, the first write, the commit, the answer. `MayWrite` is
SQLite's rule for a deferred transaction in WAL mode: the write is refused at once if
another connection holds the lock or has committed since the snapshot. The busy timeout
does not help there; the client gets a 500 and may send the command again. `Fail`,
`Disconnect`, `Crash` may come between any two steps, also between the commit and the
answer. `Signal`, `Exit` and `Deadline` are the bounded shutdown, `Start` the integrity
check. `db` is what SQLite has committed; a crash loses everything else.

### Rules and track

A segment has an identifier, a start and an end in milliseconds, a speaker or none, and
lines. A line is a number of characters (zero is an empty line) or has `-->` in it, with times
around it or without; the brackets of a sound cue, `<` and `&` are kept as marks. `EvaluateRules`
is `Evaluate` of `quality.go`, rule by rule. `BuildWebVTT` makes a file of lines, with times as
the four numbers `vttTime` prints. The code writes identifier, speaker and text raw
(`webvtt.go:30-36`), so the file has whatever lines they have: `Spelling` gives the lines of
identifiers that are not one line of words, a speaker's name has lines of its own, of which the last
goes on with the text, and a line of any of them may be empty, or be read as times. `Sorted` is
`sort.SliceStable`: a segment's place is the number of segments before it by start and
identifier, and by place in the input where these are the same.
`CaptionText!ReadWebVTT` is a player's reading of such a file: external, and the
reference the builder is compared with. It does not know which field a line was written for: a line
with times begins a cue, wherever it comes from, and an empty line or one with `-->` ends it.

### The page

`page` is `state.job` with the rows drawn next to it. `Click` sends a command on them under a
fresh key; `Succeed` loads again whichever job is shown by then; `Report` only shows the
error; `GiveUp` is an answer that is lost, after which the request may still be
carried out. Other clients change the same jobs. The job that is shown need not be the one the user
chose last: answers to two selections come in any order, as in the code.

### The list

`rows` has the stamp of each job. `RFC3339Nano` builds the text the store compares: second,
decimals without trailing zeros, `Z`. `Place` is the position `ORDER BY` gives a row,
`Window` the places `LIMIT` and `OFFSET` select. `pager` is a client that goes from page to
page until the total; it also keeps what the properties need and no client can
see: which jobs were written to, and how many rows a write moved out of the places it
is past, or into them.

### The self check

`Carry` hands a request to the action of `CaptionWorkflow` or to its `Replay`; `Proceed` is the
script's next line. `Learned` is what a check keeps of an answer: a repeated quality check is answered with the
findings stored under its key at the first run, as they were then (`FirstFindings`). `Accepts` is what it
asks of an answer: a good verdict, a chain of five events, a track of twenty bytes. `BreakOff` ends a check anywhere, by its deadline, an error of the
connection, or a signal; `Exit` ends the process, and `Begin` may start another on
the same file. Several processes may be at it.

## 3. What TLC checks

| Run (`.cfg`) | Module | Instance | Distinct states | Shows |
|---|---|---|---|---|
| `commands` | `MCCaption` | 1 job, 3 revisions, 2 people, 2 texts, 3 keys, 9 versions; and 2 jobs, 2 revisions, 1 text, 2 keys, 6 versions, one preflight and one preview held | 162,179 | `TypeOK`, `ReviewGate`, `ReleaseWasReviewed`, `RevisionChain`, `ReleasesVerify`, `ConfirmationBindsVersion`, `FrozenEvidenceKept` |
| `two_jobs` | `MCCaption` | 2 jobs, 2 revisions, 2 texts, 2 keys, a known and an unknown profile, 6 versions | 135,528 | `OneEffectPerKey`, `NothingWithoutRules`, `ImplementsLifecycle`, `ImplementsLedger` |
| `store` | `MCStore` | 2 clients on one job, 3 requests, 2 connections, 2 faults | 44,898 | `AckedIsDurable`, `RefusalIsFinal`, `EffectOnSeenVersion`, `StartsAgain`, `ViewIsOneVersion`, `ResourcesComeBack`, `ImplementsLedger`, and under fairness `ClientsAreSettled`, `DrainEnds` |
| `rules` | `MCText` | all texts of up to 3 cues over 5 times, 5 identifiers, 8 wordings, of which 2 and 5 are raw | 514,905 | `OverlapNoticed`, `SilenceNoticed`, `ReadablePace`, `TrackIsCanonical`, `TrackReadsBack` |
| `queries` | `MCQueries` | 1 job, 2 revisions, 3 texts with the real rules, limits 3, 5, 7 | 24,053 | `SampleIsAccepted`, `DiffMatchesSummary`, `FindingsFollowChanges`, `NothingShownUnseen`, `VerdictWithoutLimit` |
| `workbench` | `MCWorkbench` | 2 jobs, 3 keys, 3 requests open | 41,652 | `EffectOnShown`, `OneEffectPerPicture` |
| `selfcheck` | `MCSelfCheck` | 2 processes, 2 break-offs, 2 jobs, 2 revisions | 5,728 | `NothingIsRefused`, `OneReleaseOfAllChecks`, `SuccessMeansReleased`, `ChecksAdvance`, and under fairness `ChecksPass` |
| `queue` | `MCQueue` | 3 jobs, pages of 1 and 2, 2 writes, stamps with 2 binary decimals | 225,821 | `OverlookedFew`, `RepeatedFew` |
| `frozen_is_final` | `MCCaption` | 1 job | violated | `FrozenJobImmutable`, section 5 |
| `quality_once` | `MCCaption` | 1 job | violated | `QualityOncePerRevision`, section 5 |
| `preflight_binds` | `MCCaption` | 1 job, texts of four cues | violated | `PreflightBindsContent`, section 5 |
| `paging_is_stable` | `MCQueue` | as `queue` | violated | `PagingIsStable`, section 5 |

What the properties say:

- `ReviewGate`: a job up for review, approved or frozen has a current revision that
  the rules were run on, with no finding open or left to fix and each blocking
  one dismissed. It relates the status to rows that are written apart from it.
- `ReleaseWasReviewed`: an approved or frozen job was approved by its last review,
  of its current revision, over a covering sample, by another person than its author;
  it is frozen exactly when it has a release, and that is the track of that revision.
- `RevisionChain`: the revisions of a job are numbered without gaps, each the child
  of the one before, the last one current.
- `ReleasesVerify`: every chain and every verification verdict is good at every
  later version, although the freeze event and later verifications extend the
  chain past the head the manifest recorded.
- `OneEffectPerKey`: every version of a job was made by exactly one (operation, key)
  pair, which agrees with its audit event; no effect twice and none without the record
  that answers its retry.
- `ConfirmationBindsVersion`: a preview is accepted for the job, version and revision
  it was taken at, although its digest names neither job nor version.
- `FrozenEvidenceKept`: what a release rests on does not change after the freeze.
- `NothingWithoutRules`: a job is created with any profile, and only the run of the rules looks at
  it; if none are known, the job stays in drafting: no other command gets it further.
- `ImplementsLifecycle`: the refinement above. `ImplementsLedger`, of `CaptionWorkflow` and
  of `SqliteStore`: versions and results go through the steps of `SerialLedger`, so
  transactions on snapshots behave as commands executed one at a time.
- `AckedIsDurable`, `RefusalIsFinal`: what a client was told, or is about to be told, stays
  true: through lost connections, crashes between commit and answer, restarts, and its own
  requests that are still open. `RefusalIsFinal` excepts a key that two clients use.
- `EffectOnSeenVersion`: a command takes effect on the version its client read, or never.
- `StartsAgain`: at every moment the committed rows pass the integrity check of a start.
- `ViewIsOneVersion`: the five queries behind a detail page see one version.
- `ResourcesComeBack`: the write lock is held by the request that writes and by no other, and no
  more connections are in use than the pool has, however requests end.
- `ClientsAreSettled`: while the server stays up, every client that tries again is told in
  the end. `DrainEnds`: a server told to stop stops.
- `OverlapNoticed`: some two captions of a text are shown together exactly if the rules, which
  compare neighbours, report an overlap. `SilenceNoticed`: every long stretch
  without captions is reported and, if there is no overlap, nothing else is.
- `ReadablePace`: a text without a blocking finding keeps within its profile's pace over
  every stretch of captions, although the rule measures one at a time.
- `TrackIsCanonical`: all accepted orders of the same segments give the same track, hence the same
  digest.
- `TrackReadsBack`: a player finds every caption in the track, at its times, with its identifier, and with its
  words where these are plain (no empty line, no `-->`, no markup), whatever is written raw into the
  others; and unless a name or a text holds a line of times, it finds no others, and these in order.
- `SampleIsAccepted`: Sampling's suggestion passes ValidateReview. `DiffMatchesSummary`: diff and
  preflight count the same changes. `FindingsFollowChanges`: in a diff of two checked
  revisions a finding on one segment changes only with the segment.
- `NothingShownUnseen`: a release with captions shown together had its overlap found
  and dismissed by somebody, which joins the rules to the whole workflow.
- `VerdictWithoutLimit`: readers that stop at a limit come to the same verdict.
- `EffectOnShown`, `OneEffectPerPicture`: a click has its effect on the job and version that were on
  the screen, or none; clicks on one picture have one effect between them, although each has
  a key of its own.
- `NothingIsRefused`: when a check sends a request, the server has an answer of the kind the check
  wants: a page or a verdict, the answer kept under the key, or the command itself, whose guards
  (`Permitted`) all hold at the version the script has fixed.
- `ChecksAdvance`: a check has its answer, or sends the next request of the script, of
  as many as the first run of the rules reported findings. No answer, by its status, its verdict, the
  length of its chain or the size of its track, makes it fail; it fails only as it is broken off.
- `OneReleaseOfAllChecks`: all checks together make one job, one revision, one release, each command once.
  `SuccessMeansReleased`: a check that passed saw a release that is there and verifies.
  `ChecksPass`: a check that is started again when it breaks off passes in the end.
- `OverlookedFew`, `RepeatedFew`: of the jobs nobody wrote to, a client that pages
  overlooks no more than rows were moved out of the places it is past, and repeats no
  more than were moved in. That is how far the list is from the stable paging
  `README.md:39` promises (`PagingIsStable`: none overlooked, none repeated), which is violated.

Some properties are theorems only (section 4), and checked by no run: the type invariants `TypeOK` of `SqliteStore`,
`Workbench` and `WorkQueue`; and

- `EvidenceAppendOnly`: revisions are never rewritten, findings are disposed of once,
  reviews, verifications, events and stored results are only added.
- `ReportedOnce`: no two findings of a text have the same rule and segments, so a run's findings, rows
  in the code, may be a set in the model, and a segment has at most four. It rests on unique identifiers.

Each property of a passing run has a mutant in `PROJECT.json`, a plausible bug in a definition it
depends on (a dropped guard, a forgotten key, a chain to the wrong event), under which
TLC finds it violated.

### Bounds, and why they are enough

- `MaxVersion` 9 (`commands`): the shortest path to a verified release takes six commands
  (create, submit, run, review, freeze, verify); with a finding to
  dispose of, seven. Nine leaves room for a rejection with a second revision, a repeated
  run, or a second verification. `two_jobs` stops at six for each job: one whole
  path, next to the other job at any point of its own.
- `Revisions`: three for one job: first, second, and the first that has both a parent and
  a grandparent. The two jobs of `two_jobs` draw from one pool.
- `Keys`: three per operation, so an operation is accepted at most three times on one
  job; with two jobs, two keys that both jobs may try to use.
- `MaxBatch` 2 stands for the code's 100; with two issues a batch of 1 and of all
  findings are both possible. Issues: one blocking, one not, the distinction the
  gate makes.
- Texts: `Clean` has no findings (the path on which rules can be repeated), `Faulty`
  has both kinds. `preflight_binds` uses texts of four cues, so that a sample can
  leave something out and two rewrites can change equally many cues.
- `MaxReceipts`: one preflight and one preview held at a time; a property of receipts
  speaks of one receipt, whatever happens after it was taken.

- `store`: two requests of one client (a retry that overtakes) against one of another, a pool
  smaller than the number of requests, and two faults, so that a retry may fail
  too. A key that two clients share is in reach of the theorems only.
- `rules`: times at the limits of the rules (700 ms, a gap of 4000 ms) and past an hour; three cues are
  the first length at which a cue has a later neighbour it is not compared with. Wordings at
  the pace limit, with empty lines at the start and inside, and with a line that is too long. The raw ones
  have `-->` and times in the words, markup, and names with an empty line and with times;
  identifiers 4 and 5 have an empty line and `-->`. Those are only given to cues that begin at 700 ms, next to
  plain cues before, at and after them: what matters is what one does to another.
- `queries`: the limits 3, 5 and 7 stand for 10,000, 100,000 and a million; chains of eight
  events pass each.
- `workbench`: three requests open are a load, a command and the load after another one; three
  keys are two clicks of the page and one command of somebody else.
- `selfcheck`: two processes, each of which may be broken off; two jobs and revisions, so that a
  second one would be seen. The text has the two cues of the real one: a sound
  cue that is too short, and a sentence.
- `queue`: three jobs with pages of one and two: a page, a next one, and a row that may move from
  either to the other; two writes may move two rows. Two binary decimals give stamps
  on a second, on a tenth and on a hundredth. The clock begins at 3, so the list
  starts as any table of that time, with 4 the first time of the next second.

`LongOrShort` (`commands`) goes on from histories of one job without receipts up to all of these bounds, and from
those with two jobs or a receipt while they keep to the clean text, two revisions, two keys and six versions: a
preview is taken of an approved job, at the fourth version at the earliest, and can be approved again at the
sixth. A preview says nothing of the text, so one is enough.

`KeysInOrder` keeps TLC to states in which the keys of an operation were spent in
order. Keys are only compared for equality with those of their own
operation, so every state left out is one of these with keys renamed. Identifiers of
revisions, people and jobs are compared for equality only, which makes the symmetry
sets sound for the invariants and the action properties. `ImplementsLifecycle` has
no fairness part, so it too is a safety property, and its mapping treats all jobs alike.

`DrawnInOrder` (`selfcheck`) does the same for the identifiers of jobs and revisions.

Deadlock is checked in the runs on `MCCaption`, `MCStore` and `MCQueries`, where an answered key can
always be sent again or a stopped server started. It is not checked in `rules` (a text has its full length,
or was refused), `workbench` (the keys are used up and the page is idle), `selfcheck` (all
checks passed), and `queue` (the client has the last page, and clock and writes
are at their bounds).

### Fairness

Commands are sent by people, and nothing in the code makes anyone go on, so
`CaptionWorkflow`, `CaptionQueries`, `Workbench` and `WorkQueue` have no fairness and no liveness property. Two
specifications have, both weak:

- `SqliteStore`: `Serve` for each request, because net/http runs a goroutine for each and the Go
  scheduler runs them all; database/sql hands a released connection to a waiter, and nobody
  waits for SQLite's lock, which is refused at once. `Exit`, because `Shutdown` polls until
  no request is open. `Send`, which is an assumption about clients: one that has read its
  job sends its command, with that version and key, until it hears a final answer. No fairness is assumed of faults, signals
  and restarts; `ClientsAreSettled` speaks of behaviours in which the server ends up
  running, and `DrainEnds` needs neither the deadline nor a crash.
  A request that loses the race for the write lock is not repeated for ever, because it loses
  to a commit, and a commit settles somebody.
- `SelfCheck`: `Begin`, `Carry`, `Proceed` and `Exit` of each process. The first and the last say that
  whoever runs the check starts it again when it fails; the middle two are the
  scheduler's.

## 4. What is proved

Each theorem is for every value of the constants that satisfies the named assumptions of the
modules it is about (TLC evaluates all of them, on the runs).

| Theorem | States | Module |
|---|---|---|
| `TypeCorrect` | `Spec => []TypeOK` | `CaptionWorkflowProofs` |
| `Invariance` | `Spec => []IInv` | |
| `NothingReviewedUnsettled` | `Spec => []ReviewGate` | |
| `NothingReleasedUnreviewed` | `Spec => []ReleaseWasReviewed` | |
| `FrozenEvidenceIsKept` | `Spec => FrozenEvidenceKept` | |
| `EvidenceIsAppendOnly` | `Spec => EvidenceAppendOnly` | `CaptionLedgerProofs` |
| `KeysHaveOneEffect` | `Spec => []OneEffectPerKey` | |
| `ReleasesAlwaysVerify` | `Spec => []ReleasesVerify` | |
| `LedgerImplemented` | `Spec => ImplementsLedger` | |
| `LifecycleImplemented` | `Spec => ImplementsLifecycle` | |
| `ConfirmationsBind` | `Spec => []ConfirmationBindsVersion` | |
| `RevisionsAreLinked` | `Spec => []RevisionChain` | |
| `StoreTypeCorrect` | `Spec => []TypeOK` | `SqliteStoreProofs` |
| `AcksAreDurable` | `Spec => []AckedIsDurable` | |
| `RefusalsAreFinal` | `Spec => []RefusalIsFinal` | |
| `EffectsOnSeenVersion` | `Spec => []EffectOnSeenVersion` | |
| `StoreStartsAgain` | `Spec => []StartsAgain` | |
| `ViewsAreOneVersion` | `Spec => []ViewIsOneVersion` | |
| `StoreImplementsLedger` | `Spec => ImplementsLedger` | |
| `NothingIsLeaked` | `Spec => []ResourcesComeBack` | |
| `OverlapsAreNoticed` | `Spec => []OverlapNoticed` | `CaptionTextProofs` |
| `SilencesAreNoticed` | `Spec => []SilenceNoticed` | |
| `TimesSurvive` | hours, minutes, seconds and milliseconds give back the time | |
| `PaceIsReadable` | `Spec => []ReadablePace` | |
| `TracksAreCanonical` | `Spec => []TrackIsCanonical` | |
| `TracksReadBack` | `Spec => []TrackReadsBack` | |
| `FindingsAreDistinct` | `Spec => []ReportedOnce` | |
| `FindingsAreOfTheRules` | `Spec => []CheckedByRules` | `CaptionQueriesProofs` |
| `VerdictsAgree` | `Spec => []VerdictWithoutLimit` | |
| `NothingIsShownUnseen` | `Spec => []NothingShownUnseen` | |
| `SamplesAreAccepted` | `Spec => []SampleIsAccepted` | |
| `DiffsMatchSummaries` | `Spec => []DiffMatchesSummary` | |
| `FindingsFollow` | `Spec => []FindingsFollowChanges` | |
| `UnruledStaysInDrafting` | `Spec => []NothingWithoutRules` | |
| `ChecksAreClients` | `CheckSpec => Spec` | |
| `OneReleaseIsMade` | `CheckSpec => []OneReleaseOfAllChecks` | |
| `SuccessIsReal` | `CheckSpec => []SuccessMeansReleased` | |
| `NothingRefused` | `CheckSpec => []NothingIsRefused` | |
| `ChecksGoOn` | `CheckSpec => ChecksAdvance` | |
| `WorkbenchTypeCorrect` | `Spec => []TypeOK` | `WorkbenchProofs` |
| `EffectsAreOnShown` | `Spec => []EffectOnShown` | |
| `OneEffectForEachPicture` | `Spec => []OneEffectPerPicture` | |
| `QueueTypes` | `Spec => []TypeOK` | `WorkQueueProofs` |
| `AlwaysOverlookedFew` | `Spec => []OverlookedFew` | |
| `AlwaysRepeatedFew` | `Spec => []RepeatedFew` | |

### The workflow

The assumptions of the workflow say that the empty identifier is no person, text, profile, job or
revision, that recognised profiles are profiles, blocking issues are issues, the rules
report issues, every text has a track, the pool of revision identifiers is finite,
the bounds are natural numbers, and a missing row is not one of the rows. Those of the
texts say that a segment is one (`IsSegment`: numbers for times, lines of characters, at least one line
in a name), and that what stands for no times is not a pair of times. Those of the queries say that
`Evaluate` and `WebVTT` are what `QualityRules` makes of a text and its profile, and that every text in the
database passed validation; those of the self check, that its editor and reviewer are two people and
that it has a key for each finding its text can have, which are finitely many (`SelfCheckAssumption`), and
that the instance has room for one job, one revision and the versions of the script (`RoomAssumption`:
the code draws identifiers and counts versions without such bounds).

**The invariant.** `IInv` is `TypeOK`, `CurrentOwned` (the current revision is one of the
job's own), `FindingsFromRuns` (a revision with findings was checked), `ReviewGate` and
`ReleaseWasReviewed`. Neither of the last two is inductive alone:

- `CurrentOwned` is needed so that writing the findings of one job's current revision
  does not disturb another's: two jobs never share one (`CurrentDistinct`). It also makes
  the current revision a drawn row, with a text and an author, which `TypeOK` itself needs.
- `FindingsFromRuns` is needed by dispositions. A disposition proves that there was a
  finding, hence a run, so a job it takes to review has been checked.
- `ReviewGate` is needed by BatchDisposition, which does not ask for the status. It
  needs an open finding; a job past the gate has none; so the job is in work
  (`DisposedInWork`), has no release, and every part of the invariant survives. The
  same step is what makes `FrozenEvidenceKept` true of this command.
- `ReleaseWasReviewed` includes "frozen exactly when it has a release", without which a
  freeze could not be shown to follow the review of what it releases.

There is one lemma per command for types, one for the two other parts, and one for
frozen jobs; `JobFrame` and `FrozenFrame` carry the jobs a command does not touch.

**What accumulates.** `EvidenceGrows` is shown of each step from `TypeOK`; the later proofs
use it as a frame: a drawn revision never changes, a log is extended at its end.
`OneEffectPerKey` needs one more conjunct (`EffectsPast`): no record names a
version its job has not reached; so the version a command makes is new to all records.
`ReleasesVerify` is inductive relative to `IInv`: the release names the
current revision, which is drawn and so never rewritten (`ReleasedRevision`), and an
event appended to a chain that verifies is chained to its head (`AppendVerifies`).

**The refinement.** One lemma per command names the lifecycle step it is: creating
opens, submitting writes, running and disposing examine, an approval passes, a
rejection examines, a freeze publishes, a verification is not seen. `View` is what is
seen of one job; `ViewFrame` says the other jobs look the same.

**Confirmations.** A preview holds a digest, and the digest the audit head. The head covers
as many events as the job has versions, the first of them this job's
(`HeadCovers`); so equal heads mean the same job at the same version, at which the
preview noted the current revision (`PreviewSound`). This rests on digests
without collisions.

**Revisions.** The count of rows, the sequence column, the parent the client sent and the
current revision of the job are related by one invariant, `RevisionsLinked`, which a
submission preserves and nothing else touches. It needs that a job not yet created has no
current revision (`AbsentIsEmpty`).

**The serial ledger.** `Commit` raises one version and keeps the result under a key that
was unused, which is a step of `SerialLedger`; everything else leaves both alone.

### The store

The invariant says what each request knows. A snapshot is a past state of the rows
(`Past`): a version it has is not newer than the job's, a result it has is still there, and a
result it lacks is of a later version. That is kept by every commit because
commits only add. Whoever is writing holds the lock and has the present rows for a
snapshot: that is `MayWrite` at the first write, and no one else commits until the
lock is free. So the check of the version, made on the snapshot, holds at the commit,
and the key is still unused: this is the step of `SerialLedger`.

`Stands` says of an answer that it holds and will. For a refusal this needs the
reason: the job has passed the version the client saw, or the rules refuse it; both last, so
another request of the same client, which carries the same version, is refused
too. `Sound` (unbroken chains with one event for each version) gives `StartsAgain`, and makes a
view of one snapshot a view of one version.

**Lock and pool.** `HoldInv`: the lock's holder is the one request in phase `writing`, and the requests
that have a connection are a finite set within the pool. A connection is taken only from a pool with one
left; whatever ends a request, `Released` takes the lock from it if it was its own.

### Texts

Each rule looks at two neighbours; the properties are about all pairs. What leads from
one to the other is `NoStepDown`: a sequence without a step down never goes down. It is
an induction along the text, made with the least element of a set of positions, which
`LeastNatural` takes from the well-foundedness of strict inclusion. Every other induction of the
project is made that way too (`AllNaturals`).

**Pace.** Without an overlap, the milliseconds of different captions are disjoint sets, all within the stretch; so the
times of the captions add up to no more than its length (`PaceAddsUp`). Each caption keeps
the pace, multiplied by its time; the sum of the one is bounded by the sum of the other
(`KeepsPace`). Sums are recursive functions of the library. What the proofs
know of them is that they have the unfolding they were defined by (`SumAddsUp`), shown by a least
counterexample of what a partial sum would have to be.

**Findings.** A finding names the segment it is added at last, and identifiers are unique; so its place
is known. At one place the rules fall into four slots of which each reports one thing
at most (`SlotIsOnes`): empty or a line too long, too short or too long, too fast, overlapping or after a gap.
The first segment has no neighbour before it, which leaves that slot to the missing sound cue. Findings
are so mapped one to one into places and slots: `FindingsAreDistinct`.

**The track.** By start and identifier no two segments of an accepted text are at one place, so the
order is strict, and the rank of a segment is the number of those before it, whatever
order they came in: a bijection between the places of the two texts takes the ones before a segment to the ones
before it (`TracksAreCanonical`). `RanksRise` and `EveryRank` say that ranks number the
segments 1 to n, once each, in their order.

**Reading back.** A track is a heading and then a block for each segment: the lines of its identifier, a
line for its times, lines of the speaker's name, lines of words, an empty line. What is certain of a block,
whatever the names and words are, is `IsBlockOf`: its own line of times, an empty line after it, and, as
the block before ends in one too, an empty line in front. `BlockLines` shows it for any names and words,
`TrackOfText` that a track is such blocks one after the other, and `TrackBlock` at which lines each is. Every line of times
is read as a cue (`EveryTimeIsRead`), so every segment's is; that cue ends in the segment's own block, and if the
segment is plain, at its last line of words (`CueOfBlock`); `TimesSurvive` gives back the times. Other
lines of times come only from segments that contain one (`TimesInTrack`). If none does, the reader's n-th
cue is that of the n-th segment, since both are ranks in orders that agree (`CuesOfTrack`, `SortedRises`).

### The queries

What joins the rows to the rules is `CheckedByRules`: the findings kept for a checked revision are the ones
the rules report of its text, under the profile of its job, whatever was made of them since.
It needs that a job keeps its profile and that a revision belongs to its job for good (`JobsKept`).

- `NothingShownUnseen`: a release is the track of a revision that went through review
  (`ReleaseWasReviewed`, `ReviewGate`); so its rules were run and the overlaps they found, which block,
  dismissed; and by the argument of `OverlapsAreNoticed` they found one if two captions are
  shown together.
- `SampleIsAccepted`: a finding names segments of the text it was made of (`FindingsNameSegments`), so the
  suspects are segments; the first and the last are always marked; and filling up
  from the start comes to the least number of a review (`FilledUp`), as the identifiers are distinct.
- `DiffMatchesSummary`: identifiers are distinct in an accepted text, so both count the same segments; a
  segment that both texts have differs in one to three of its fields (`FieldsTell`, `ChangedSegments`).
- `FindingsFollowChanges`: each rule that reports one segment reads that segment only; what it
  reads is the same in both texts if the segment is not among the changes.
- `NothingWithoutRules`: a revision was reviewed or released only if it was run on (`ReviewGate`,
  `ReleaseWasReviewed`), and run on only under a profile with rules (`ReviewedByRules`, `GateHasRules`);
  profiles are kept.
- `VerdictWithoutLimit`: a chain that verifies does so up to each of its events (`PrefixVerifies`), and all
  chains and releases do (`ReleasesVerify`).

### The self check

`CheckSpec` implements `Spec` (`ChecksAreClients`): a check's requests are commands of the
workflow or their replays. So everything proved of the commands holds of its database. The
invariant `CInv` adds to it `ScriptInv`, what the used keys mean for the rows, and
`ChecksFollow`, what a check may rely on when it has come so far.

- The only keys ever used are those of the script (`OnlyScript`), each by any of the checks. So there
  is one job, one text, and one release, although each check, when it begins again,
  sends every request again: `OneReleaseOfAllChecks`.
- A check that has come past a command knows its key used, by itself or by another; past the freeze,
  the job is frozen and its chain holds at least five events. With `ReleasesVerify`
  this makes the success it reports true: `SuccessMeansReleased`.

That nothing is refused needs more than what the keys used mean for the rows: what the keys *not* used
mean. The script is one sequence of commands (`Slot`), the same for all checks. The invariant `RInv`
adds three parts:

- `InOrder`: the commands that took effect are the first of the script, with none left out;
- `RowsFollow`: the rows are what these leave, status, version, findings and evidence;
- `ChecksInStep`: no check is ahead of them; the version it counts along and the findings it holds are
  those of its place in the script.

A check that is behind sends a command that was done, and gets the answer kept under its key; one that is
not sends the next, to rows at the version it expects and in the status the command asks for. Either way it
is not refused (`NothingRefused`), and it accepts what it is told (`AnswersAreAccepted`): the answer to a
repeated quality check is the one kept at the first, so it has as many findings, in the same order
(`FirstAnswer`); the verdict is good by `ReleasesVerify`, the chain long by what the keys used mean;
and the track, which is that of the script's text (`TrackOfRelease`), has a line of times for each cue (`TracksAreLong`). So a check goes on (`ChecksGoOn`). A script of finite length, requests that are answered, answers that are
accepted, and a bound on faults make `ChecksPass`; that last step is temporal and TLC's.

### The page

A command that is open is the one its click was for (`CommandsAreClicks`), results
are of versions jobs have reached, and no two keys have the same one. A second
effect on one picture would be a second key with the same result.

### The list

The stamps of any two times are equal or one comes before the other (`StampsCompare`), whatever order the dropped zeros
make of them; so the order of rows is a strict total one and every row has a place of its own
(`PlaceOrder`, `PlaceDistinct`). The invariant `QInv` is `TypeOK`, `OverlookedFew` and
`SteadyMatch`: a job that was in the list and was not written to still matches the filter. A
page shows every row in its window (`PageComplete`) and the last one reaches the end, so a page
overlooks nothing new. A write to one row changes every other place by
at most one (`RiseIsPaid`): a row rises to the last place the client is past only from the
place after it, and only as the row that was written leaves the places before; and there is
one row in that place (`RisenFew`). So one more is overlooked at most, and `movedOut` has paid for it.

For `RepeatedFew` the invariant counts what a client may still see again (`Owed`): a job that was shown and
is not in the places the client is past may be shown once more. A query only shows what was owed. A write
makes one more job owed at most, as it leaves the last place the client was past, and only if it moved
another row in before it: which `movedIn` has paid for (`OwedFewWrite`).

### What the proofs showed of the models

- `BuildWebVTT` sorted with an operator of TLC's that does not promise a stable order, and
  `sort.SliceStable` does. It is now `Sorted`. The texts that TLC had checked could not tell the
  difference, since identifiers are distinct in accepted texts.
- `TrackReadsBack` compared how many characters a cue shows, and read a track whose lines told what they were
  written for. It now compares lines, and reads what any line says, the raw ones included.
- The kind of a change in a diff was a CASE with two arms that could hold together for a text with a repeated
  identifier. The code's order decides; the arms now say so.
- `RepeatedFew` summed over jobs what they were shown too often. It now counts a set of pairs, which is the
  same number.
- `NothingIsRefused` said ENABLED of the request's step. It now says which guards those are (`Permitted`),
  and that there is room for the rows to be made, an assumption on the instance (`RoomAssumption`).
- The assumptions on texts did not say that segments are segments, nor that the keys of the self check
  suffice for its findings.

### Only model-checked

All liveness (`ClientsAreSettled`, `DrainEnds`, `ChecksPass`) is out of the prover's reach. What liveness rests
on is proved where it is a safety property: nothing is leaked, nothing is refused, nothing but a fault
fails, each step goes on. The four violations of section 5 are TLC's. Every other property of a passing run is a theorem.

## 5. Where the code and its texts disagree

Four runs end, as they should, in a violation.

- **The rules can be run twice on a clean revision** (`quality_once`). The refusal "the
  current revision has already been checked" (`internal/application/workflow.go:121`) is
  decided by looking for findings; a run that found nothing leaves none. A second
  run sets the job to `review_ready`: it takes an approved job back to review, and puts a
  rejected revision up again without a new one. `ReviewGate` and
  `ReleaseWasReviewed` hold all the same.
- **A preflight does not bind the text** (`preflight_binds`). The refusal "the submitted
  content does not match the preflight" (`workflow.go:58`) compares a digest of five
  counts (`extensions.go:148`). A different text with as many changes of
  each kind is accepted at the same version.
- **A frozen job is written to** (`frozen_is_final`). `README.md:44` says job and evidence
  cannot be modified after the freeze. VerifyAndRecord raises the job's version and sets
  the release's verification status. What the release rests on stays as it was: that is
  `FrozenEvidenceKept`, and proved.
- **The list is not paged stably** (`paging_is_stable`). `README.md:39` says that the workbench's list, filtered,
  "返回稳定分页及状态统计" (returns stable paging and status counts). `ListJobsFiltered` pages by LIMIT and OFFSET
  over `ORDER BY updated_at DESC` (`internal/store/sqlite/jobs.go:86`), and every command sets `updated_at`. When
  a command moves a row between two pages, to the front or out of the filter, a job that was
  in the list all the time and that nobody wrote to is left out, or shown twice. How far this can go is
  `OverlookedFew` and `RepeatedFew`, and proved.

What else the models show of the code, where no text of the repository says otherwise:

- *Unrelated commits refuse each other.* A command whose snapshot is older than anybody's commit,
  to whatever job, is refused with SQLITE_BUSY at its first write and answered with 500
  (`store.go:49`). The versions agree; only trying again helps, and does (`ClientsAreSettled`).
- *A gap is measured from the preceding cue* (`quality.go:56`), not from the latest end: after a long cue over
  a short one, silence may be reported where there is none. Hence "in a text without overlaps".
- *Names and words are written raw* (`webvtt.go:30-36`). An empty line inside a caption ends it in the track, and so
  does a line with `-->`; the rest is not shown. If it has times around it, it begins a cue of its own.
  `<` and `&` are markup to a player. An identifier with such a line, or a speaker's name with a line break, does the
  same to its cue. No rule reports any of it. Other captions are not harmed (`TrackReadsBack`).
- *A key is looked up by operation only* (`evidence.go:66`): sent for another job, a command is answered with the first
  job's result, and changes neither.
- *Verify's head* is that of the last event it reads, the 10,000th (`queries.go:185`), and no longer the chain's.
- *A diff calls findings resolved* when the successor has not been checked yet (`queries.go:150`).
- *Within a second the list's order is not that of time*: stamps are compared as text (`jobs.go:124`), and 5.1 s stands
  before 5.12 s, and 5 s before both.
- *A broken-off self check* on a file whose job somebody else has changed since does not pass
  on this file again: its keys and versions are fixed.
- *A verdict, diff or audit list that comes late* is written into the pane of whichever job is shown
  by then (`app.js:21`). Commands are not affected.
- *A form that creates a job*, sent again after a lost answer, makes a second job (`app.js:15`): its key is new and
  there is no version to expect.

## 6. Abstractions, and what is not modelled

- *One transaction is one step* in `CaptionWorkflow`, `CaptionQueries`, `SelfCheck` and `WorkQueue`.
  `SqliteStore` justifies it: it is shown to implement the same `SerialLedger`. What a transaction
  does to the rows is reduced there to a version, an event and a result; a command that passes
  the rules is one of `Acceptable`.
- *SQLite* is modelled by the behaviour the code relies on, snapshot isolation with one writer and
  atomic, durable commits, and marked external.
- *Perfect digests.* The digest of a value is a value that determines it. An event's
  digest is the sequence of event bodies it covers, a body being job and event type.
  Actor, payload and time are left out of it: they could only tell apart events
  that their position in the chain already tells apart.
- *Texts* are sequences of cues with id, time, speaker and text. In `CaptionWorkflow` only texts that
  ValidateSegments accepts appear, and what the rules report (`Evaluate`) and the WebVTT text (`WebVTT`)
  are parameters, which `CaptionQueries` and `SelfCheck` fill in. In `QualityRules` a line is its number of
  characters, with what a player reads in it: `-->` with times around it or without, markup. Spelling
  matters to no rule but the brackets of a sound cue. What a player shows of a line with markup is left open
  (`marked`). Of the track's size in bytes there is a lower bound, its heading and its lines of times (`BytesAtLeast`).
- *Reviews* are kept in the order they were committed. The code orders them by the text of a
  timestamp, which may differ within one second, as `WorkQueue` shows of jobs.
- *Stamps* are drawn inside the transaction, and transactions that write are ordered, so the
  clock of a later commit is not smaller. A clock that is set back is not modelled.
- *Decimals* of a second are two, of any base, and not nine; `WorkQueue` leaves open which status a
  command sets and lets any status follow any other.
- *Left out*: titles, comments, rationales, actors no rule looks
  at, the credential number (computed once, at the freeze, and later compared with its own copy), the wording of
  answers, and timeline and verification history, which are pages of rows that are
  only ever added.

Not modelled, and why:

- *HTTP API*: decoding, body limits, content types, security headers, status codes beyond final, temporary and
  successful. They change no state; routes and arguments are in the actions they lead to.
- *Browser page*: the list on the left, the read-only panes, drawing and escaping. No command is made from them.
- *Flags and paths* (`config.go`) and *ValidateNewJob*: checks of one value that refuse a start or a request.
- *Connection settings*: foreign keys and the timeout are set on one pooled connection. No command deletes or
  breaks a reference, and the timeout has no effect on the refusals modelled.

## 7. Plan

Done: commands, store, page, rules and track, chain limits, list, server life cycle (in `SqliteStore`),
self check, and a theorem for each invariant and each action property that a run checks, of every component.
Left, in order:

1. The panes of the page that carry no job, so that what a late answer is written into can be stated.
2. `store` with a key that two clients share, and with more connections than requests: in the theorems
   already, too large to check next to the present instance.
3. Times as the code compares them where it orders reviews, by text within one second.
