----------------------------- MODULE WorkQueue ------------------------------
(***************************************************************************)
(* The list of jobs, as a client pages through it.  Every page is a query  *)
(* of its own, over the rows of that moment: those that pass the filter,   *)
(* last changed first, from an offset on.  Every command of any client     *)
(* stamps the row of its job again, so between two pages rows move to      *)
(* other places, come into the filter and leave it.                        *)
(*                                                                         *)
(* Stamps are kept and compared as text, in RFC 3339 without the trailing  *)
(* zeros of a fraction, so within a second text order is not time order.   *)
(*                                                                         *)
(* Title, media reference and languages, which the filter may ask for too, *)
(* are fixed when a job is made, as its profile is, and stand in it.       *)
(***************************************************************************)
EXTENDS Integers, Sequences, FiniteSets

CONSTANTS
  None,
  Jobs,         \* identifiers, as numbers in the order of their text
  Statuses, Profiles,
  Base,         \* digits there are: a second has two decimals here, nine in code
  DefaultLimit, \* rows of a page that names no limit: 50 in code
  MaxLimit,     \* the most a page may name: 100 in code
  Filters,      \* what clients ask for; None is any
  FirstTime,    \* bound: the clock when we begin to look
  MaxTime,      \* bound: the clock stops here
  MaxWrites     \* bound: commands from then on

ASSUME QueueAssumption ==
  /\ Jobs \subseteq Nat /\ IsFiniteSet(Jobs)
  /\ "draft" \in Statuses
  /\ None \notin Statuses /\ None \notin Profiles
  /\ Filters \subseteq [status : Statuses \cup {None}, profile : Profiles \cup {None}]
  /\ Base \in Nat /\ Base > 1 /\ MaxWrites \in Nat
  /\ MaxTime \in Nat /\ FirstTime \in 0..MaxTime
  /\ DefaultLimit \in Nat \ {0} /\ MaxLimit \in Nat

VARIABLES
  rows,   \* caption_jobs: status, profile, updated; None is no row
  clock,
  writes, \* commands so far
  pager   \* a client that pages through the list, or None

vars == <<rows, clock, writes, pager>>

Rows == [status : Statuses, profile : Profiles, updated : 0..MaxTime]

\* Any table of jobs that were stamped until now.
Init ==
  /\ clock = FirstTime
  /\ rows \in [Jobs -> {None} \cup {row \in Rows : row.updated <= clock}]
  /\ writes = 0
  /\ pager = None
----------------------------------------------------------------------------
(***************************************************************************)
(* Stamps as text: the second, then the decimals, then the zone.           *)
(***************************************************************************)
Second(t) == t \div (Base * Base)

Dot      == 0
Digit(d) == d + 1
Zone     == Base + 1  \* "Z", which sorts after the dot and after the digits

RFC3339Nano(t) ==
  LET tenths == (t \div Base) % Base  hundredths == t % Base IN
  CASE hundredths # 0 ->
         <<Second(t), Dot, Digit(tenths), Digit(hundredths), Zone>>
    [] hundredths = 0 /\ tenths # 0 -> <<Second(t), Dot, Digit(tenths), Zone>>
    [] OTHER -> <<Second(t), Zone>>

TextBefore(a, b) ==
  \E n \in DOMAIN a \cap DOMAIN b :
    a[n] < b[n] /\ \A m \in 1..(n - 1) : a[m] = b[m]
----------------------------------------------------------------------------
(***************************************************************************)
(* The query.                                                              *)
(***************************************************************************)
Matches(table, filter, j) ==
  /\ table[j] # None
  /\ filter.status \in {None, table[j].status}
  /\ filter.profile \in {None, table[j].profile}

Matching(table, filter) == {j \in Jobs : Matches(table, filter, j)}

StampOf(table, j) == RFC3339Nano(table[j].updated)

ByStampOnly(table, j, k) == TextBefore(StampOf(table, k), StampOf(table, j))

\* updated_at descending, then the identifier.
Precedes(table, j, k) ==
  \/ TextBefore(StampOf(table, k), StampOf(table, j))
  \/ StampOf(table, j) = StampOf(table, k) /\ j < k

Place(table, filter, j) == 1 + Cardinality({k \in Matching(table, filter) : Precedes(table, k, j)})

PageLimit(limit) == IF limit = 0 THEN DefaultLimit ELSE limit

FromOffset(offset, limit) == offset..(offset + limit)

\* The places LIMIT and OFFSET select.
Window(offset, limit) == (offset + 1)..(offset + limit)

TotalOfPage(table, filter, offset, limit) ==
  Cardinality({j \in Matching(table, filter) : Place(table, filter, j) \in Window(offset, limit)})

Total(table, filter, offset, limit) == Cardinality(Matching(table, filter))

\* The items, as the jobs at the places of the window, and the total.
ListJobsFiltered(table, filter, limit, offset) ==
  LET places == {Place(table, filter, j) : j \in Matching(table, filter)} IN
  [items |-> {CHOOSE j \in Matching(table, filter) : Place(table, filter, j) = p :
                p \in places \cap Window(offset, limit)},
   total |-> Total(table, filter, offset, limit)]
----------------------------------------------------------------------------
(***************************************************************************)
(* Commands of other clients.                                              *)
(***************************************************************************)
Paging == pager # None /\ ~pager.done

\* The places the client is past.
Past(table) ==
  {j \in Matching(table, pager.filter) : Place(table, pager.filter, j) <= pager.offset}

\* While a client pages, what it cannot see is noted: the jobs that were
\* written to, and how many rows a write moved out of the places the client is
\* past, and into them.
Write(j, row) ==
  /\ writes < MaxWrites
  /\ writes' = writes + 1
  /\ rows' = [rows EXCEPT ![j] = row]
  /\ UNCHANGED clock
  /\ IF Paging
     THEN LET was == j \in Past(rows)
              is  == j \in Past([rows EXCEPT ![j] = row])
          IN pager' = [pager EXCEPT
               !.touched  = @ \cup {j},
               !.movedOut = IF was /\ ~is THEN @ + 1 ELSE @,
               !.movedIn  = IF is /\ ~was THEN @ + 1 ELSE @]
     ELSE UNCHANGED pager

InsertJob(j) ==
  /\ rows[j] = None
  /\ \E profile \in Profiles :
       Write(j, [status |-> "draft", profile |-> profile, updated |-> clock])

\* Every command on a job ends so, with the status it leaves the job in.
UpdateJob(j) ==
  /\ rows[j] # None
  /\ \E status \in Statuses :
       Write(j, [rows[j] EXCEPT !.status = status, !.updated = clock])

Tick ==
  /\ clock < MaxTime
  /\ clock' = clock + 1
  /\ UNCHANGED <<rows, writes, pager>>
----------------------------------------------------------------------------
(***************************************************************************)
(* The client that pages.                                                  *)
(***************************************************************************)
Start ==
  /\ pager = None
  /\ \E filter \in Filters, limit \in 0..MaxLimit :
       pager' = [filter |-> filter, limit |-> limit, offset |-> 0,
                 present |-> Matching(rows, filter),
                 shown |-> [j \in Jobs |-> 0], done |-> FALSE,
                 touched |-> {}, movedOut |-> 0, movedIn |-> 0]
  /\ UNCHANGED <<rows, clock, writes>>

\* Pages follow each other by the limit of the answer, until its total.
QueryWorkQueue ==
  LET limit == PageLimit(pager.limit)
      page  == ListJobsFiltered(rows, pager.filter, limit, pager.offset)
      next  == pager.offset + limit
  IN
  /\ Paging
  /\ pager' = [pager EXCEPT
       !.shown  = [j \in Jobs |-> IF j \in page.items THEN @[j] + 1 ELSE @[j]],
       !.offset = next,
       !.done   = next >= page.total]
  /\ UNCHANGED <<rows, clock, writes>>

Next ==
  \/ \E j \in Jobs : InsertJob(j) \/ UpdateJob(j)
  \/ Tick
  \/ Start
  \/ QueryWorkQueue

Spec == Init /\ [][Next]_vars
----------------------------------------------------------------------------
(***************************************************************************)
(* Properties.                                                             *)
(***************************************************************************)
\* The jobs that were in the list all the time and nobody wrote to.
Steady == pager.present \ pager.touched

Overlooked ==
  {j \in Steady :
     /\ pager.shown[j] = 0
     /\ pager.done \/ j \in Past(rows)}

\* A client that pages overlooks no more of these jobs than writes moved other
\* rows out of the places it is past: none in a list that is quiet or only grows
\* at the front.
OverlookedFew ==
  pager # None => Cardinality(Overlooked) <= pager.movedOut

\* Every time but the first that it saw one of them.
Repeats == UNION {{j} \X (2..pager.shown[j]) : j \in Steady}

\* It sees one of them again only for a row that a write moved in before it.
RepeatedFew ==
  pager # None => Cardinality(Repeats) <= pager.movedIn

\* The filtered list is paged stably (README.md:39): a client that pages sees
\* every job that was in it all the time, and that nobody wrote to, and sees it
\* once, whatever others do to other jobs.  The list falls short of that by as much
\* as OverlookedFew and RepeatedFew allow.
PagingIsStable ==
  pager # None => Overlooked = {} /\ Repeats = {}
=============================================================================
