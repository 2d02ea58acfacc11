-------------------------- MODULE WorkbenchProofs ---------------------------
(***************************************************************************)
(* Whatever order answers come in, a click on the page has its effect on   *)
(* what was shown, and once: for any number of jobs, of requests that are  *)
(* open, of keys and of other clients' commands.                           *)
(***************************************************************************)
EXTENDS Workbench, TLAPS

IsCommand(s) == requests[s] # None /\ requests[s].kind = "command"

\* The job the page acts on and the rows it shows are of one answer.
PageAgrees == page # None => page.job = page.rows

\* A command that is open is the one its click was for.
CommandsAreClicks ==
  \A s \in Slots : IsCommand(s) =>
    LET k == requests[s].key IN
    IF requests[s].job = None
    THEN clicked[k] = Created
    ELSE /\ page # None
         /\ clicked[k] = [id |-> requests[s].job, version |-> requests[s].expected]

\* Effects are of versions that jobs have reached, each of another one.
EffectsReached ==
  \A k \in Keys : result[k] # None =>
    result[k].version <= version[result[k].job]

EffectsApart ==
  \A k, l \in Keys : result[k] # None /\ result[l] = result[k] => k = l

WorkInv ==
  /\ TypeOK
  /\ PageAgrees
  /\ CommandsAreClicks
  /\ EffectsReached
  /\ EffectsApart
  /\ EffectOnShown
----------------------------------------------------------------------------
LEMMA RowsOfRequests ==
  ASSUME TypeOK, NEW s \in Slots, requests[s] # None
  PROVE  requests[s] \in Requests
  BY DEF TypeOK

\* Only the user's clicks and what the server carries out concern the ledger
\* and the keys; the rest moves requests and the page.
LEMMA InvInit == Init => WorkInv
  <1> SUFFICES ASSUME Init PROVE WorkInv
    OBVIOUS
  <1> USE DEF Init, Server!Init
  <1>1. TypeOK
    BY DEF TypeOK
  <1>2. PageAgrees /\ EffectsReached /\ EffectsApart /\ EffectOnShown
    BY DEF PageAgrees, EffectsReached, EffectsApart, EffectOnShown
  <1>3. CommandsAreClicks
    BY DEF CommandsAreClicks, IsCommand
  <1> QED
    BY <1>1, <1>2, <1>3 DEF WorkInv

\* A step that leaves server and clicks alone, shows an answer or nothing new,
\* and opens no command.
LEMMA QuietStep ==
  ASSUME WorkInv, UNCHANGED <<server, clicked>>,
         requests' \in [Slots -> Requests \cup {None}],
         page' = page \/ \E row \in Rows : page' = [job |-> row, rows |-> row],
         \A s \in Slots : IsCommand(s)' =>
           /\ IsCommand(s)
           /\ requests'[s].key = requests[s].key
           /\ requests'[s].job = requests[s].job
           /\ requests'[s].expected = requests[s].expected
  PROVE  WorkInv'
  <1> USE DEF WorkInv, server
  <1>1. TypeOK'
    BY DEF TypeOK
  <1>2. PageAgrees'
    BY DEF PageAgrees
  <1>3. (EffectsReached /\ EffectsApart /\ EffectOnShown)'
    BY DEF EffectsReached, EffectsApart, EffectOnShown
  <1>4. page # None => page' # None
    BY NoneIsNoAnswer
  <1>5. CommandsAreClicks'
    BY <1>4 DEF CommandsAreClicks
  <1> QED
    BY <1>1, <1>2, <1>3, <1>5

LEMMA SelectKeeps ==
  ASSUME WorkInv, NEW s \in Slots, NEW j \in Jobs, Select(s, j)
  PROVE  WorkInv'
  <1>1. requests' \in [Slots -> Requests \cup {None}]
    BY DEF WorkInv, TypeOK, Select, Open, Load, Requests
  <1>2. \A n \in Slots : IsCommand(n)' => n # s /\ requests'[n] = requests[n]
    BY DEF WorkInv, TypeOK, Select, Open, Load, IsCommand
  <1> QED
    BY <1>1, <1>2, QuietStep DEF Select, IsCommand, server

LEMMA CloseTypes ==
  ASSUME TypeOK, NEW s \in Slots, Close(s)
  PROVE  /\ requests' \in [Slots -> Requests \cup {None}]
         /\ \A n \in Slots : IsCommand(n)' => n # s /\ requests'[n] = requests[n]
  BY DEF TypeOK, Close, IsCommand

LEMMA ShowKeeps ==
  ASSUME WorkInv, NEW s \in Slots, Show(s)
  PROVE  WorkInv'
  <1>1. requests[s] \in Requests /\ requests[s].kind = "load"
    BY RowsOfRequests DEF WorkInv, Show, Answered
  <1>2. requests[s].answer \in Rows
    BY <1>1 DEF Requests, Show, Answered
  <1>3. \E row \in Rows : page' = [job |-> row, rows |-> row]
    BY <1>2 DEF Show
  <1> QED
    BY <1>3, CloseTypes, QuietStep DEF WorkInv, Show, IsCommand, server

LEMMA EndKeeps ==
  ASSUME WorkInv, NEW s \in Slots, Report(s) \/ Forget(s)
  PROVE  WorkInv'
  BY CloseTypes, QuietStep DEF WorkInv, Report, Forget, IsCommand, server

LEMMA SucceedKeeps ==
  ASSUME WorkInv, NEW s \in Slots, Succeed(s)
  PROVE  WorkInv'
  <1> DEFINE j == IF requests[s].job = None THEN requests[s].answer.job
                                            ELSE page.job.id
  <1>1. requests[s] \in Requests /\ IsCommand(s)
    BY RowsOfRequests DEF WorkInv, Succeed, Answered, IsCommand
  <1>2. j \in Jobs
    <2>1. CASE requests[s].job = None
      <3>1. requests[s].answer \in Effects
        BY <1>1 DEF Requests, Succeed, Answered, IsCommand
      <3> QED
        BY <2>1, <3>1 DEF Effects
    <2>2. CASE requests[s].job # None
      <3>1. page # None
        BY <1>1, <2>2 DEF WorkInv, CommandsAreClicks
      <3> QED
        BY <2>2, <3>1 DEF WorkInv, TypeOK, Rows
    <2> QED
      BY <2>1, <2>2
  <1>3. requests' = [requests EXCEPT ![s] = Load(j)]
    BY DEF Succeed
  <1> HIDE DEF j
  <1>4. requests' \in [Slots -> Requests \cup {None}]
    BY <1>2, <1>3 DEF WorkInv, TypeOK, Load, Requests
  <1>5. \A n \in Slots : IsCommand(n)' => n # s /\ requests'[n] = requests[n]
    BY <1>2, <1>3 DEF WorkInv, TypeOK, Load, IsCommand
  <1> QED
    BY <1>4, <1>5, QuietStep DEF Succeed, IsCommand, server

LEMMA GiveUpKeeps ==
  ASSUME WorkInv, NEW s \in Slots, GiveUp(s)
  PROVE  WorkInv'
  <1>1. requests[s] \in Requests
    BY RowsOfRequests DEF WorkInv, GiveUp
  <1>2. requests' \in [Slots -> Requests \cup {None}]
    BY <1>1 DEF WorkInv, TypeOK, GiveUp, Requests
  <1>3. \A n \in Slots : IsCommand(n)' =>
          /\ IsCommand(n)
          /\ requests'[n].key = requests[n].key
          /\ requests'[n].job = requests[n].job
          /\ requests'[n].expected = requests[n].expected
    BY <1>1 DEF WorkInv, TypeOK, GiveUp, Requests, IsCommand
  <1> QED
    BY <1>2, <1>3, QuietStep DEF GiveUp, server

LEMMA DetailKeeps ==
  ASSUME WorkInv, NEW s \in Slots, Detail(s)
  PROVE  WorkInv'
  <1>1. requests[s] \in Requests /\ requests[s].kind = "load"
    BY RowsOfRequests DEF WorkInv, Detail, Pending
  <1>2. [id |-> requests[s].job, version |-> version[requests[s].job]] \in Rows
    BY <1>1 DEF WorkInv, TypeOK, Requests, Rows
  <1>3. requests' \in [Slots -> Requests \cup {None}]
    BY <1>1, <1>2 DEF WorkInv, TypeOK, Detail, Answer, Requests
  <1>4. \A n \in Slots : IsCommand(n)' => n # s /\ requests'[n] = requests[n]
    BY <1>1 DEF WorkInv, TypeOK, Detail, Answer, IsCommand, Requests
  <1> QED
    BY <1>3, <1>4, QuietStep DEF Detail, IsCommand, server

LEMMA RefuseKeeps ==
  ASSUME WorkInv, NEW s \in Slots, Refuse(s)
  PROVE  WorkInv'
  <1>1. requests[s] \in Requests /\ requests[s].kind = "command"
    BY RowsOfRequests DEF WorkInv, Refuse, Pending
  <1>2. requests' \in [Slots -> Requests \cup {None}]
    BY <1>1 DEF WorkInv, TypeOK, Refuse, Answer, Requests
  <1>3. \A n \in Slots : IsCommand(n)' =>
          /\ IsCommand(n)
          /\ requests'[n].key = requests[n].key
          /\ requests'[n].job = requests[n].job
          /\ requests'[n].expected = requests[n].expected
    BY <1>1 DEF WorkInv, TypeOK, Refuse, Pending, Answer, Requests, IsCommand
  <1> QED
    BY <1>2, <1>3, QuietStep DEF Refuse, server
----------------------------------------------------------------------------
\* A key that was not drawn is of no open command, so noting what its click
\* saw changes nothing for the others.
LEMMA ClicksApart ==
  ASSUME WorkInv, NEW k \in Keys, FreshKey(k), NEW s \in Slots, IsCommand(s)
  PROVE  requests[s].key # k
  <1> DEFINE seen == clicked[requests[s].key]
  <1>1. requests[s] \in Requests /\ requests[s].kind = "command"
    BY RowsOfRequests DEF WorkInv, IsCommand
  <1>2. CASE requests[s].job = None
    <2>1. seen = Created
      BY <1>2 DEF WorkInv, CommandsAreClicks
    <2> QED
      BY <2>1, WorkbenchAssumption DEF FreshKey
  <1>3. CASE requests[s].job # None
    <2>1. seen = [id |-> requests[s].job, version |-> requests[s].expected]
      BY <1>3 DEF WorkInv, CommandsAreClicks
    <2>2. requests[s].job \in Jobs /\ requests[s].expected \in Nat
      BY <1>1, <1>3 DEF Requests
    <2>3. seen \in Rows
      BY <2>1, <2>2 DEF Rows
    <2>4. None \notin Rows
      BY NoneIsNoAnswer
    <2> QED
      BY <2>3, <2>4 DEF FreshKey
  <1> QED
    BY <1>2, <1>3

LEMMA ClickKeeps ==
  ASSUME WorkInv, NEW s \in Slots, NEW k \in Keys, Click(s, k)
  PROVE  WorkInv'
  <1> USE DEF WorkInv, Click, server
  <1>1. page.rows = page.job /\ page.job \in Rows
    BY DEF TypeOK, PageAgrees
  <1>2. Command(page.job.id, page.job.version, k) \in Requests
    BY <1>1 DEF Command, Requests, Rows
  <1>3. TypeOK'
    BY <1>1, <1>2 DEF TypeOK, Open
  <1>4. (PageAgrees /\ EffectsReached /\ EffectsApart)'
    BY DEF PageAgrees, EffectsReached, EffectsApart
  <1>5. EffectOnShown'
    BY DEF EffectOnShown, FreshKey, TypeOK
  <1>6. CommandsAreClicks'
    <2> SUFFICES ASSUME NEW n \in Slots, IsCommand(n)'
                 PROVE  (LET l == requests[n].key IN
                         IF requests[n].job = None
                         THEN clicked[l] = Created
                         ELSE /\ page # None
                              /\ clicked[l] = [id |-> requests[n].job,
                                                version |-> requests[n].expected])'
      BY DEF CommandsAreClicks
    <2>1. CASE n = s
      <3>1. requests'[s] = Command(page.job.id, page.job.version, k)
        BY DEF TypeOK, Open
      <3>2. clicked'[k] = page.rows /\ page.job.id \in Jobs
        BY <1>1 DEF TypeOK, Rows
      <3>3. page.rows = [id |-> page.job.id, version |-> page.job.version]
        BY <1>1 DEF Rows
      <3> QED
        BY <2>1, <3>1, <3>2, <3>3, WorkbenchAssumption DEF Command
    <2>2. CASE n # s
      <3>1. requests'[n] = requests[n] /\ IsCommand(n)
        BY <2>2 DEF TypeOK, Open, IsCommand
      <3>2. requests[n].key # k /\ requests[n] \in Requests
        BY <3>1, ClicksApart, RowsOfRequests DEF IsCommand
      <3>3. clicked'[requests[n].key] = clicked[requests[n].key]
        BY <3>1, <3>2 DEF TypeOK, Requests, IsCommand
      <3> QED
        BY <3>1, <3>3 DEF CommandsAreClicks
    <2> QED
      BY <2>1, <2>2
  <1> QED
    BY <1>3, <1>4, <1>5, <1>6

LEMMA ClickCreateKeeps ==
  ASSUME WorkInv, NEW s \in Slots, NEW k \in Keys, ClickCreate(s, k)
  PROVE  WorkInv'
  <1> USE DEF WorkInv, ClickCreate, server
  <1>1. Command(None, 0, k) \in Requests
    BY DEF Command, Requests
  <1>2. TypeOK'
    BY <1>1 DEF TypeOK, Open
  <1>3. (PageAgrees /\ EffectsReached /\ EffectsApart)'
    BY DEF PageAgrees, EffectsReached, EffectsApart
  <1>4. EffectOnShown'
    BY DEF EffectOnShown, FreshKey, TypeOK
  <1>5. CommandsAreClicks'
    <2> SUFFICES ASSUME NEW n \in Slots, IsCommand(n)'
                 PROVE  (LET l == requests[n].key IN
                         IF requests[n].job = None
                         THEN clicked[l] = Created
                         ELSE /\ page # None
                              /\ clicked[l] = [id |-> requests[n].job,
                                                version |-> requests[n].expected])'
      BY DEF CommandsAreClicks
    <2>1. CASE n = s
      BY <2>1 DEF TypeOK, Open, Command
    <2>2. CASE n # s
      <3>1. requests'[n] = requests[n] /\ IsCommand(n)
        BY <2>2 DEF TypeOK, Open, IsCommand
      <3>2. requests[n].key # k /\ requests[n] \in Requests
        BY <3>1, ClicksApart, RowsOfRequests DEF IsCommand
      <3>3. clicked'[requests[n].key] = clicked[requests[n].key]
        BY <3>1, <3>2 DEF TypeOK, Requests, IsCommand
      <3> QED
        BY <3>1, <3>3 DEF CommandsAreClicks
    <2> QED
      BY <2>1, <2>2
  <1> QED
    BY <1>2, <1>3, <1>4, <1>5
----------------------------------------------------------------------------
\* What a step of the ledger does to what was known of it.
LEMMA LedgerStep ==
  ASSUME WorkInv, NEW j \in Jobs, NEW k \in Keys, Server!Execute(j, k)
  PROVE  /\ version' \in [Jobs -> Nat] /\ result' \in [Keys -> Effects \cup {None}]
         /\ result[k] = None
         /\ result'[k] = [job |-> j, version |-> version[j] + 1]
         /\ \A l \in Keys \ {k} : result'[l] = result[l]
         /\ EffectsReached' /\ EffectsApart'
  <1> USE DEF WorkInv, Server!Execute
  <1>1. /\ version' \in [Jobs -> Nat] /\ result' \in [Keys -> Effects \cup {None}]
        /\ result[k] = None
        /\ result'[k] = [job |-> j, version |-> version[j] + 1]
        /\ \A l \in Keys \ {k} : result'[l] = result[l]
    BY DEF TypeOK, Effects
  <1>2. \A i \in Jobs : version[i] \in Nat /\ version'[i] \in Nat /\ version[i] <= version'[i]
    BY DEF TypeOK
  <1>3. version'[j] = version[j] + 1
    BY DEF TypeOK
  <1>4. \A l \in Keys \ {k} : result[l] # None =>
          /\ result[l] \in Effects
          /\ result[l].job \in Jobs /\ result[l].version \in Nat
          /\ result[l].version <= version[result[l].job]
    BY DEF TypeOK, Effects, EffectsReached
  <1>5. EffectsReached'
    BY <1>1, <1>2, <1>3, <1>4 DEF EffectsReached
  <1>6. \A l \in Keys \ {k} : result[l] # None => result[l] # result'[k]
    <2> SUFFICES ASSUME NEW l \in Keys \ {k}, result[l] # None, result[l] = result'[k]
                 PROVE  FALSE
      OBVIOUS
    <2>1. result[l].job = j /\ result[l].version = version[j] + 1
      BY <1>1
    <2> QED
      BY <1>2, <1>4, <2>1
  <1>7. EffectsApart'
    BY <1>1, <1>6 DEF EffectsApart
  <1> QED
    BY <1>1, <1>5, <1>7

LEMMA ExecuteKeeps ==
  ASSUME WorkInv, NEW s \in Slots, Execute(s)
  PROVE  WorkInv'
  <1>1. PICK j \in Jobs :
          /\ IF requests[s].job = None
             THEN version[j] = 0
             ELSE j = requests[s].job /\ ExpectVersion(j, requests[s].expected)
          /\ Server!Execute(j, requests[s].key)
          /\ Answer(s, [job |-> j, version |-> version[j] + 1])
    BY DEF Execute
  <1> DEFINE k == requests[s].key
             effect == [job |-> j, version |-> version[j] + 1]
  <1>2. requests[s] \in Requests /\ IsCommand(s) /\ requests[s].kind = "command"
    BY RowsOfRequests DEF WorkInv, Execute, Pending, IsCommand
  <1>3. k \in Keys
    BY <1>2 DEF Requests
  <1>4. effect \in Effects
    BY DEF WorkInv, TypeOK, Effects
  <1>5. UNCHANGED <<page, clicked>>
    BY DEF Execute
  <1>6. requests' \in [Slots -> Requests \cup {None}]
    BY <1>1, <1>2, <1>4 DEF WorkInv, TypeOK, Answer, Requests
  <1>7. /\ version' \in [Jobs -> Nat] /\ result' \in [Keys -> Effects \cup {None}]
        /\ result[k] = None
        /\ result'[k] = effect
        /\ \A l \in Keys \ {k} : result'[l] = result[l]
        /\ EffectsReached' /\ EffectsApart'
    BY <1>1, <1>3, LedgerStep
  <1>8. TypeOK'
    BY <1>5, <1>6, <1>7 DEF WorkInv, TypeOK
  <1>9. PageAgrees'
    BY <1>5 DEF WorkInv, PageAgrees
  <1>10. CommandsAreClicks'
    <2>1. \A n \in Slots : IsCommand(n)' =>
            /\ IsCommand(n)
            /\ requests'[n].key = requests[n].key
            /\ requests'[n].job = requests[n].job
            /\ requests'[n].expected = requests[n].expected
      BY <1>1, <1>2 DEF WorkInv, TypeOK, Answer, Requests, IsCommand
    <2> QED
      BY <1>5, <2>1 DEF WorkInv, CommandsAreClicks
  <1>11. EffectOnShown'
    <2> SUFFICES ASSUME NEW l \in Keys, result'[l] # None,
                        clicked'[l] \notin {None, Created}
                 PROVE  result'[l] = [job     |-> clicked'[l].id,
                                      version |-> clicked'[l].version + 1]
      BY DEF EffectOnShown
    <2>1. CASE l = k
      <3>1. requests[s].job # None
        BY <1>2, <1>5, <2>1 DEF WorkInv, CommandsAreClicks
      <3>2. clicked[k] = [id |-> requests[s].job, version |-> requests[s].expected]
        BY <1>2, <3>1 DEF WorkInv, CommandsAreClicks
      <3>3. j = requests[s].job /\ version[j] = requests[s].expected
        BY <1>1, <3>1 DEF ExpectVersion
      <3> QED
        BY <1>5, <1>7, <2>1, <3>2, <3>3
    <2>2. CASE l # k
      BY <1>5, <1>7, <2>2 DEF WorkInv, EffectOnShown
    <2> QED
      BY <2>1, <2>2
  <1> QED
    BY <1>7, <1>8, <1>9, <1>10, <1>11 DEF WorkInv

LEMMA OtherClientKeeps ==
  ASSUME WorkInv, OtherClient
  PROVE  WorkInv'
  <1>1. PICK j \in Jobs, k \in Keys : FreshKey(k) /\ Server!Execute(j, k)
    BY DEF OtherClient
  <1>2. UNCHANGED <<page, requests, clicked>>
    BY DEF OtherClient
  <1>3. /\ version' \in [Jobs -> Nat] /\ result' \in [Keys -> Effects \cup {None}]
        /\ \A l \in Keys \ {k} : result'[l] = result[l]
        /\ EffectsReached' /\ EffectsApart'
    BY <1>1, LedgerStep
  <1>4. (TypeOK /\ PageAgrees /\ CommandsAreClicks)'
    BY <1>2, <1>3 DEF WorkInv, TypeOK, PageAgrees, CommandsAreClicks, IsCommand
  <1>5. EffectOnShown'
    BY <1>1, <1>2, <1>3 DEF WorkInv, EffectOnShown, FreshKey
  <1> QED
    BY <1>3, <1>4, <1>5 DEF WorkInv
----------------------------------------------------------------------------
LEMMA InvNext == WorkInv /\ [Next]_vars => WorkInv'
  <1> SUFFICES ASSUME WorkInv, [Next]_vars PROVE WorkInv'
    OBVIOUS
  <1>1. ASSUME NEW s \in Slots, User(s) PROVE WorkInv'
    BY <1>1, SelectKeeps, ClickKeeps, ClickCreateKeeps DEF User
  <1>2. ASSUME NEW s \in Slots,
               Show(s) \/ Succeed(s) \/ Report(s) \/ GiveUp(s) \/ Forget(s)
        PROVE  WorkInv'
    BY <1>2, ShowKeeps, SucceedKeeps, EndKeeps, GiveUpKeeps
  <1>3. ASSUME NEW s \in Slots, Detail(s) \/ Execute(s) \/ Refuse(s)
        PROVE  WorkInv'
    BY <1>3, DetailKeeps, ExecuteKeeps, RefuseKeeps
  <1>4. CASE UNCHANGED vars
    BY <1>4 DEF vars, WorkInv, TypeOK, PageAgrees, CommandsAreClicks, IsCommand,
                EffectsReached, EffectsApart, EffectOnShown
  <1> QED
    BY <1>1, <1>2, <1>3, <1>4, OtherClientKeeps DEF Next

\* The page, its open requests and the ledger agree in every state.
THEOREM WorkbenchInvariance == Spec => []WorkInv
  BY InvInit, InvNext, PTL DEF Spec

\* Requests and rows have their shapes: what the page shows is a job's detail.
THEOREM WorkbenchTypeCorrect == Spec => []TypeOK
  <1>1. WorkInv => TypeOK
    BY DEF WorkInv
  <1> QED
    BY <1>1, WorkbenchInvariance, PTL

\* A click has its effect on the job and version shown at that moment, or none.
THEOREM EffectsAreOnShown == Spec => []EffectOnShown
  <1>1. WorkInv => EffectOnShown
    BY DEF WorkInv
  <1> QED
    BY <1>1, WorkbenchInvariance, PTL

\* Two clicks on one picture of a job have one effect at most: theirs would be
\* the same version of the job, and a version is made once.
THEOREM OneEffectForEachPicture == Spec => []OneEffectPerPicture
  <1>1. WorkInv => OneEffectPerPicture
    BY DEF WorkInv, EffectOnShown, EffectsApart, OneEffectPerPicture
  <1> QED
    BY <1>1, WorkbenchInvariance, PTL
=============================================================================
