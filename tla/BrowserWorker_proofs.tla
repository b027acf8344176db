------------------------ MODULE BrowserWorker_proofs ------------------------
(***************************************************************************)
(* Proofs about BrowserWorker: the queue driven by the extension is a      *)
(* behaviour of BrowserQueue, so that what is proved of every behaviour of *)
(* the queue holds here too; what the extension holds is up to date; and   *)
(* it closes no page that waits for a person.                              *)
(***************************************************************************)
EXTENDS BrowserWorker, BrowserQueue_refinement

\* A task that is at work on a page has one.
PageInHand ==
  task.step \in {"window", "tab", "collect", "answer", "challenge", "failure", "close"}
    => task.page \in Page

\* The page about to be opened is for the last claim of its item.
OpensLatestTry ==
  task.step \in {"window", "tab"} => attempts[day][task.page.item] = task.page.try

WorkerIInv ==
  /\ WorkerTypeOK
  /\ PageInHand
  /\ OpensLatestTry
  /\ ClaimsWithEmptyHands
  /\ HeldIsLatestTry

LEMMA IdleTask ==
  Idle \in Task /\ Idle.step = "idle" /\ Idle.page = NoPage /\ Idle.next = "idle"
BY DEF Idle, Task, TaskStep

-----------------------------------------------------------------------------
(* Every step of the extension is a step of the queue, or none.             *)

LEMMA ReportStep ==
  ASSUME WorkerTypeOK, NEW t \in Target, Answer(t) \/ Failure(t) \/ Challenge(day, t)
  PROVE  Next /\ UNCHANGED <<day, attempts>>
<1>1. day \in Day
  BY DEF WorkerTypeOK, TypeOK
<1>2. CASE Answer(t)
  <2>1. CASE t \in Product
    BY <1>1, <1>2, <2>1 DEF Answer, Next, Report, ProductAnswer
  <2>2. CASE t \in Store /\ t \notin Product
    BY <1>1, <1>2, <2>2 DEF Answer, Next, Report, StoreAnswer
  <2> QED BY <2>1, <2>2 DEF Target
<1>3. CASE Failure(t)
  BY <1>1, <1>3 DEF Failure, Next, Report, FailureRetried, FailureFinal
<1>4. CASE Challenge(day, t)
  BY <1>1, <1>4 DEF Next, Report, Challenge
<1> QED BY <1>2, <1>3, <1>4

LEMMA EnsureStep ==
  ASSUME WorkerTypeOK, Ensure(day)
  PROVE  Next /\ UNCHANGED <<day, attempts>>
BY DEF WorkerTypeOK, TypeOK, Next, Ensure

LEMMA QueueStep ==
  ASSUME WorkerTypeOK, Queue
  PROVE  Next /\ UNCHANGED <<day, attempts>>
<1>1. day \in Day
  BY DEF WorkerTypeOK, TypeOK
<1>2. CASE Ensure(day)
  BY <1>2, EnsureStep
<1>3. CASE Resume(day)
  BY <1>1, <1>3 DEF Next, Resume
<1>4. CASE \E t \in Target : LeaseExpires(day, t)
  BY <1>1, <1>4 DEF Next, Environment, LeaseExpires
<1> QED BY <1>2, <1>3, <1>4 DEF Queue

\* Only a claim counts a try, and only the task that is at its claim makes one.
LEMMA WorkerStepIsQueueStep ==
  ASSUME WorkerTypeOK, PageInHand, [WorkerNext]_wvars
  PROVE  /\ [Next]_vars
         /\ day' = day
         /\ task.step # "claim" => attempts' = attempts
<1> DEFINE Quiet == UNCHANGED vars
           Told  == Next /\ UNCHANGED <<day, attempts>>
<1>1. ASSUME Quiet \/ Told \/ (task.step = "claim" /\ Claim)
      PROVE  /\ [Next]_vars
             /\ day' = day
             /\ task.step # "claim" => attempts' = attempts
  BY <1>1 DEF vars, Next, Claim
<1>2. ASSUME task.step \in {"answer", "challenge", "failure"}
      PROVE  task.page.item \in Target
  BY <1>2 DEF PageInHand, Page
<1> HIDE DEF Quiet, Told
<1>3. ASSUME StartPoll \/ StartProcess \/ Decide \/ OpenWindow \/ OpenTab
             \/ Collect \/ Pause \/ Close \/ PersonCloses \/ PlainDashboard
             \/ DedicatedDashboard \/ Wake \/ Crash \/ (\E p \in tabs : PageLoads(p))
             \/ (\E c \in closers : CloserClears(c)) \/ UNCHANGED wvars
      PROVE  Quiet
  BY <1>3 DEF StartPoll, StartProcess, Decide, OpenWindow, OpenTab, Collect, Pause, Close,
     PersonCloses, PlainDashboard, DedicatedDashboard, Wake, Crash, PageLoads, CloserClears,
     wvars, Quiet
<1>4. ASSUME Heartbeat \/ Queue
      PROVE  Quiet \/ Told
  BY <1>4, EnsureStep, QueueStep DEF Heartbeat, Quiet, Told
<1>5. ASSUME ClaimItem
      PROVE  task.step = "claim" /\ Claim
  BY <1>5 DEF ClaimItem
<1>6. ASSUME PostAnswer \/ PostChallenge \/ PostFailure
      PROVE  Quiet \/ Told
  BY <1>6, <1>2, ReportStep DEF PostAnswer, PostChallenge, PostFailure, Quiet, Told
<1>7. ASSUME LoseRequest
      PROVE  Quiet \/ Told \/ (task.step = "claim" /\ Claim)
  BY <1>7, <1>2, ReportStep DEF LoseRequest, Quiet, Told
<1>8. ASSUME NEW c \in closers, CloserPosts(c)
      PROVE  Quiet \/ Told
  <2>1. c.page.item \in Target
    BY DEF WorkerTypeOK, Page
  <2> QED BY <1>8, <2>1, ReportStep DEF CloserPosts, Quiet, Told
<1> QED
  BY <1>1, <1>3, <1>4, <1>5, <1>6, <1>7, <1>8 DEF WorkerNext, Step, Closing

-----------------------------------------------------------------------------
(* The extension's own state.                                               *)

LEMMA CaughtTask ==
  ASSUME WorkerTypeOK
  PROVE  /\ Caught \in Task
         /\ Caught.step \in {"idle", "failure"}
         /\ Caught.step = "failure" => Caught.page \in Page
<1>1. held \in Page \cup {NoPage}
  BY DEF WorkerTypeOK
<1> QED BY <1>1, IdleTask DEF Caught, Task, TaskStep

\* The pages and the stored item after any step: forgotten, kept, or just opened.
LEMMA HeldStep ==
  ASSUME WorkerTypeOK, [WorkerNext]_wvars
  PROVE  \/ held' \in {held, NoPage}
         \/ task.step = "tab" /\ held' = task.page /\ task' = Idle /\ UNCHANGED vars
<1>1. ASSUME NEW p, ClosePage(p)
      PROVE  held' = NoPage
  BY <1>1 DEF ClosePage
<1>2. ASSUME CloseWindow
      PROVE  held' = NoPage
  BY <1>2 DEF CloseWindow
<1>3. ASSUME UNCHANGED browser
      PROVE  held' = held
  BY <1>3 DEF browser
<1>4. CASE OpenTab
  BY <1>4 DEF OpenTab
<1>5. CASE Decide
  BY <1>5, <1>1, <1>3 DEF Decide
<1>6. CASE ClaimItem
  BY <1>6, <1>2, <1>3 DEF ClaimItem
<1>7. CASE StartPoll \/ Heartbeat \/ StartProcess \/ Collect \/ PostAnswer
           \/ PostChallenge \/ PostFailure \/ LoseRequest \/ DedicatedDashboard
           \/ Queue \/ UNCHANGED wvars \/ (\E c \in closers : CloserPosts(c))
  BY <1>7, <1>3
  DEF StartPoll, Heartbeat, StartProcess, Collect, PostAnswer, PostChallenge, PostFailure,
      LoseRequest, DedicatedDashboard, Queue, wvars, CloserPosts
<1>8. CASE OpenWindow \/ Pause \/ PersonCloses \/ (\E p \in tabs : PageLoads(p))
  BY <1>8 DEF OpenWindow, Pause, PersonCloses, PageLoads
<1>9. CASE Close \/ PlainDashboard \/ (\E c \in closers : CloserClears(c))
  BY <1>9, <1>1, <1>2 DEF Close, PlainDashboard, CloserClears
<1>10. CASE Wake \/ Crash
  BY <1>10, <1>2, <1>3 DEF Wake, Crash
<1> QED
  BY <1>4, <1>5, <1>6, <1>7, <1>8, <1>9, <1>10 DEF WorkerNext, Step, Closing

\* How a task gets to its claim and to the page it opens.
LEMMA ClaimingStep ==
  ASSUME WorkerTypeOK, [WorkerNext]_wvars,
         task'.step \in {"claim", "window", "tab"}
  PROVE  \/ task'.step \in {"claim"} /\ held' = NoPage
         \/ task'.step = task.step /\ task'.page = task.page
         \/ task.step = "claim" /\ task'.step = "window" /\ ClaimItem
         \/ task.step = "window" /\ task'.page = task.page
<1>1. task \in Task /\ held \in Page \cup {NoPage}
  BY DEF WorkerTypeOK
<1>2. CASE UNCHANGED task
  BY <1>2
<1>3. CASE Decide
  BY <1>1, <1>3, IdleTask DEF Decide, ClosePage, LostPage, browser, Task
<1>4. CASE ClaimItem
  <2>1. task.step = "claim" /\ task'.step \in {"window", "idle"}
    BY <1>4, IdleTask DEF ClaimItem, Task
  <2> QED BY <1>4, <2>1
<1>5. CASE OpenWindow
  BY <1>1, <1>5 DEF OpenWindow, Task
<1>6. CASE Close
  BY <1>1, <1>6, IdleTask DEF Close, ClosePage, Task
<1>7. CASE StartPoll \/ Heartbeat \/ StartProcess \/ OpenTab \/ Pause \/ Wake \/ Crash
  BY <1>7, <1>2, IdleTask
  DEF StartPoll, Heartbeat, StartProcess, OpenTab, Pause, Wake, Crash, Sync, Task
<1>8. CASE Collect \/ PostAnswer \/ PostChallenge \/ PostFailure \/ LoseRequest
  BY <1>1, <1>8, CaughtTask, IdleTask
  DEF Collect, PostAnswer, PostChallenge, PostFailure, LoseRequest, Task
<1>9. CASE PersonCloses \/ PlainDashboard \/ DedicatedDashboard \/ Queue
           \/ (\E c \in closers : CloserPosts(c) \/ CloserClears(c))
           \/ (\E p \in tabs : PageLoads(p)) \/ UNCHANGED wvars
  BY <1>9, <1>2
  DEF PersonCloses, PlainDashboard, DedicatedDashboard, Queue, CloserPosts, CloserClears,
      PageLoads, wvars
<1> QED
  BY <1>3, <1>4, <1>5, <1>6, <1>7, <1>8, <1>9 DEF WorkerNext, Step, Closing

BrowserTyped ==
  /\ held \in Page \cup {NoPage}
  /\ waiting \in BOOLEAN
  /\ window \in BOOLEAN
  /\ greeting \in BOOLEAN
  /\ tabs \subseteq Page
  /\ loaded \subseteq tabs

LEMMA BrowserTypeStep ==
  ASSUME WorkerTypeOK, PageInHand, [WorkerNext]_wvars
  PROVE  BrowserTyped'
<1>1. BrowserTyped
  BY DEF WorkerTypeOK, BrowserTyped
<1>2. ASSUME NEW p, ClosePage(p)
      PROVE  BrowserTyped'
  BY <1>1, <1>2 DEF ClosePage, BrowserTyped
<1>3. ASSUME CloseWindow
      PROVE  BrowserTyped'
  BY <1>3 DEF CloseWindow, BrowserTyped
<1>4. ASSUME UNCHANGED browser
      PROVE  BrowserTyped'
  BY <1>1, <1>4 DEF browser, BrowserTyped
<1>5. CASE OpenTab
  BY <1>1, <1>5 DEF OpenTab, PageInHand, BrowserTyped
<1>6. CASE Decide
  <2>1. CASE waiting' = FALSE /\ UNCHANGED <<held, window, greeting, tabs, loaded>>
    BY <1>1, <2>1 DEF BrowserTyped
  <2> QED BY <1>6, <1>2, <1>4, <2>1 DEF Decide
<1>7. CASE ClaimItem \/ PlainDashboard \/ Close \/ Wake
           \/ (\E c \in closers : CloserClears(c))
  BY <1>7, <1>2, <1>3, <1>4 DEF ClaimItem, PlainDashboard, Close, Wake, CloserClears
<1>8. CASE StartPoll \/ Heartbeat \/ StartProcess \/ Collect \/ PostAnswer
           \/ PostChallenge \/ PostFailure \/ LoseRequest \/ DedicatedDashboard
           \/ Queue \/ UNCHANGED wvars \/ (\E c \in closers : CloserPosts(c))
  BY <1>8, <1>4
  DEF StartPoll, Heartbeat, StartProcess, Collect, PostAnswer, PostChallenge, PostFailure,
      LoseRequest, DedicatedDashboard, Queue, wvars, CloserPosts
<1>9. CASE OpenWindow
  BY <1>1, <1>9 DEF OpenWindow, BrowserTyped
<1>10. CASE Pause \/ PersonCloses \/ (\E p \in tabs : PageLoads(p))
  BY <1>1, <1>10 DEF Pause, PersonCloses, PageLoads, BrowserTyped
<1>11. CASE Crash
  <2>1. CASE /\ tabs' = {} /\ loaded' = {}
             /\ window' = FALSE /\ greeting' = FALSE
             /\ UNCHANGED <<held, waiting>>
    BY <1>1, <2>1 DEF BrowserTyped
  <2> QED BY <1>11, <1>3, <1>4, <2>1 DEF Crash
<1> QED
  BY <1>5, <1>6, <1>7, <1>8, <1>9, <1>10, <1>11 DEF WorkerNext, Step, Closing

LEMMA TaskTypeStep ==
  ASSUME WorkerTypeOK, PageInHand, [WorkerNext]_wvars
  PROVE  task' \in Task /\ PageInHand'
<1>1. /\ task \in Task
      /\ held \in Page \cup {NoPage}
      /\ tabs \subseteq Page /\ loaded \subseteq tabs
  BY DEF WorkerTypeOK
<1>2. CASE UNCHANGED task
  BY <1>1, <1>2 DEF PageInHand
<1>3. CASE Decide
  <2>1. CASE task' = Idle \/ task' = [Idle EXCEPT !.step = "claim"]
    BY <2>1, IdleTask DEF Task, TaskStep, PageInHand
  <2>2. CASE held \in Page /\ task' = [Idle EXCEPT !.step = "collect", !.page = held]
    BY <2>2, IdleTask DEF Task, TaskStep, PageInHand
  <2>3. CASE held \in Page /\ task' = LostPage
    BY <2>3, IdleTask DEF LostPage, Task, TaskStep, PageInHand
  <2> QED BY <1>1, <1>3, <2>1, <2>2, <2>3 DEF Decide
<1>4. CASE ClaimItem
  <2>1. CASE task' = Idle
    BY <2>1, IdleTask DEF PageInHand
  <2>2. ASSUME NEW t \in Target, t \in Handed,
               task' = [Idle EXCEPT !.step = "window",
                                    !.page = [item |-> t, try |-> attempts'[day][t]]]
        PROVE  task' \in Task /\ PageInHand'
    <3>1. attempts'[day][t] \in Nat
      BY <2>2 DEF WorkerTypeOK, TypeOK, Handed
    <3>2. PICK p \in Page : p = [item |-> t, try |-> attempts'[day][t]]
      BY <3>1 DEF Page
    <3> QED BY <2>2, <3>2, IdleTask DEF Task, TaskStep, PageInHand
  <2> QED BY <1>4, <2>1, <2>2 DEF ClaimItem, Handed
<1>5. CASE OpenWindow
  BY <1>1, <1>5 DEF OpenWindow, Task, TaskStep, PageInHand
<1>6. CASE StartPoll \/ Heartbeat
  BY <1>2, <1>6, IdleTask DEF StartPoll, Heartbeat, Task, TaskStep, PageInHand
<1>7. CASE StartProcess
  BY <1>1, <1>7, IdleTask DEF StartProcess, Task, TaskStep, PageInHand
<1>8. CASE OpenTab \/ Pause \/ Wake \/ Crash
  BY <1>8, IdleTask DEF OpenTab, Pause, Wake, Crash, Sync, PageInHand
<1>9. CASE Collect \/ PostAnswer \/ PostChallenge \/ PostFailure \/ LoseRequest
  <2>1. CASE task' = Caught \/ task' = Idle
    BY <2>1, CaughtTask, IdleTask DEF PageInHand
  <2>2. ASSUME task.page \in Page,
               NEW step \in {"answer", "challenge", "failure", "pause", "close"},
               task' = [task EXCEPT !.step = step]
        PROVE  task' \in Task /\ PageInHand'
    BY <1>1, <2>2 DEF Task, TaskStep, PageInHand
  <2>3. task.step \in {"collect", "answer", "challenge", "failure"} => task.page \in Page
    BY DEF PageInHand
  <2> QED
    BY <1>9, <2>1, <2>2, <2>3
    DEF Collect, PostAnswer, PostChallenge, PostFailure, LoseRequest
<1>10. CASE Close
  BY <1>1, <1>10, IdleTask DEF Close, Task, TaskStep, PageInHand
<1>11. CASE PersonCloses \/ PlainDashboard \/ DedicatedDashboard \/ Queue
            \/ (\E c \in closers : CloserPosts(c) \/ CloserClears(c))
            \/ (\E p \in tabs : PageLoads(p)) \/ UNCHANGED wvars
  BY <1>11, <1>2
  DEF PersonCloses, PlainDashboard, DedicatedDashboard, Queue, CloserPosts, CloserClears,
      PageLoads, wvars
<1> QED
  BY <1>3, <1>4, <1>5, <1>6, <1>7, <1>8, <1>9, <1>10, <1>11 DEF WorkerNext, Step, Closing

LEMMA RestTypeStep ==
  ASSUME WorkerTypeOK, [WorkerNext]_wvars
  PROVE  /\ enabled' \in BOOLEAN
         /\ closers' \subseteq [page : Page, told : BOOLEAN]
         /\ faults' \in 0 .. MaxFaults
<1>1. /\ enabled \in BOOLEAN
      /\ closers \subseteq [page : Page, told : BOOLEAN]
      /\ faults \in 0 .. MaxFaults
      /\ tabs \subseteq Page
  BY DEF WorkerTypeOK
<1>2. ASSUME Fault
      PROVE  faults' \in 0 .. MaxFaults
  BY <1>1, <1>2, MaxFaultsAssumption DEF Fault
<1>3. CASE UNCHANGED <<enabled, closers>> /\ (Fault \/ UNCHANGED faults)
  BY <1>1, <1>2, <1>3
<1>4. CASE PersonCloses
  <2>1. ASSUME NEW ps \in SUBSET tabs, Removed(ps)
        PROVE  closers' \subseteq [page : Page, told : BOOLEAN]
    <3>1. CASE held \in ps
      <4>1. [page |-> held, told |-> FALSE] \in [page : Page, told : BOOLEAN]
        BY <1>1, <3>1
      <4> QED BY <1>1, <2>1, <4>1 DEF Removed
    <3> QED BY <1>1, <2>1, <3>1 DEF Removed
  <2>2. closers' \subseteq [page : Page, told : BOOLEAN]
    <3>1. (\E p \in tabs : Removed({p})) \/ Removed(tabs)
      BY <1>4 DEF PersonCloses
    <3> QED BY <2>1, <3>1
  <2> QED BY <1>1, <1>2, <1>4, <2>2 DEF PersonCloses
<1>5. CASE PlainDashboard \/ DedicatedDashboard \/ Wake \/ Crash
  BY <1>1, <1>2, <1>5, DedicatedTabAssumption
  DEF PlainDashboard, DedicatedDashboard, Wake, Crash, Sync
<1>6. CASE \E c \in closers : CloserPosts(c) \/ CloserClears(c)
  BY <1>1, <1>6 DEF CloserPosts, CloserClears
<1>7. CASE Step \/ StartPoll \/ StartProcess \/ LoseRequest \/ Queue
           \/ (\E p \in tabs : PageLoads(p)) \/ UNCHANGED wvars
  BY <1>3, <1>7
  DEF Step, StartPoll, Heartbeat, Decide, ClaimItem, OpenWindow, OpenTab, StartProcess,
      Collect, PostAnswer, PostChallenge, Pause, PostFailure, Close, LoseRequest, Queue,
      PageLoads, wvars
<1> QED BY <1>4, <1>5, <1>6, <1>7 DEF WorkerNext, Closing

LEMMA WorkerTypeStep ==
  ASSUME WorkerTypeOK, PageInHand, [WorkerNext]_wvars
  PROVE  WorkerTypeOK'
<1>1. TypeOK'
  BY WorkerStepIsQueueStep, TypeStep DEF WorkerTypeOK
<1> QED
  BY <1>1, BrowserTypeStep, TaskTypeStep, RestTypeStep DEF WorkerTypeOK, BrowserTyped

-----------------------------------------------------------------------------
(* What is held is up to date.                                              *)

LEMMA EmptyHandsStep ==
  ASSUME WorkerIInv, [WorkerNext]_wvars
  PROVE  ClaimsWithEmptyHands'
<1> SUFFICES ASSUME task'.step \in {"claim", "window", "tab"}
             PROVE  held' = NoPage
  BY DEF ClaimsWithEmptyHands
<1>1. WorkerTypeOK /\ ClaimsWithEmptyHands
  BY DEF WorkerIInv
<1>2. held' = NoPage \/ task.step \in {"claim", "window", "tab"}
  BY <1>1, ClaimingStep
<1>3. task.step \in {"claim", "window", "tab"} => held = NoPage
  BY <1>1 DEF ClaimsWithEmptyHands
<1>4. task' # Idle
  BY IdleTask
<1> QED BY <1>1, <1>2, <1>3, <1>4, HeldStep

LEMMA OpensLatestStep ==
  ASSUME WorkerIInv, [WorkerNext]_wvars
  PROVE  OpensLatestTry'
<1> SUFFICES ASSUME task'.step \in {"window", "tab"}
             PROVE  attempts'[day'][task'.page.item] = task'.page.try
  BY DEF OpensLatestTry
<1>1. WorkerTypeOK /\ PageInHand /\ OpensLatestTry
  BY DEF WorkerIInv
<1>2. day' = day /\ (task.step # "claim" => attempts' = attempts)
  BY <1>1, WorkerStepIsQueueStep
<1>3. CASE task.step \in {"window", "tab"} /\ task'.page = task.page
  BY <1>1, <1>2, <1>3 DEF OpensLatestTry
<1>4. CASE ClaimItem
  <2>1. PICK t \in Handed :
          task' = [Idle EXCEPT !.step = "window",
                               !.page = [item |-> t, try |-> attempts'[day][t]]]
    BY <1>4, IdleTask DEF ClaimItem
  <2>2. task'.page = [item |-> t, try |-> attempts'[day][t]]
    BY <2>1, IdleTask DEF Task
  <2> QED BY <1>2, <2>2
<1> QED BY <1>1, <1>3, <1>4, ClaimingStep

LEMMA HeldIsLatestStep ==
  ASSUME WorkerIInv, [WorkerNext]_wvars
  PROVE  HeldIsLatestTry'
<1> SUFFICES ASSUME held' # NoPage
             PROVE  attempts'[day'][held'.item] = held'.try
  BY DEF HeldIsLatestTry
<1>1. WorkerTypeOK /\ PageInHand /\ OpensLatestTry
  BY DEF WorkerIInv
<1>2. day' = day /\ (task.step # "claim" => attempts' = attempts)
  BY <1>1, WorkerStepIsQueueStep
<1>3. CASE held' = held
  <2>1. task.step # "claim"
    BY <1>3 DEF WorkerIInv, ClaimsWithEmptyHands
  <2> QED BY <1>2, <1>3, <2>1 DEF WorkerIInv, HeldIsLatestTry
<1>4. CASE task.step = "tab" /\ held' = task.page
  BY <1>1, <1>2, <1>4 DEF OpensLatestTry
<1> QED BY <1>1, <1>3, <1>4, HeldStep

LEMMA WorkerInitIInv == WorkerInit => WorkerIInv
<1> SUFFICES ASSUME WorkerInit PROVE WorkerIInv
  OBVIOUS
<1>1. TypeOK
  BY InitIInv DEF WorkerInit, IInv
<1>2. 0 \in 0 .. MaxFaults
  BY MaxFaultsAssumption
<1>3. WorkerTypeOK
  BY <1>1, <1>2, IdleTask, DedicatedTabAssumption DEF WorkerInit, WorkerTypeOK
<1> QED
  BY <1>3, IdleTask
  DEF WorkerInit, WorkerIInv, PageInHand, OpensLatestTry, ClaimsWithEmptyHands,
      HeldIsLatestTry

LEMMA WorkerStepIInv == WorkerIInv /\ [WorkerNext]_wvars => WorkerIInv'
<1> SUFFICES ASSUME WorkerIInv, [WorkerNext]_wvars PROVE WorkerIInv'
  OBVIOUS
<1>1. WorkerTypeOK' /\ PageInHand'
  BY WorkerTypeStep, TaskTypeStep DEF WorkerIInv
<1> QED BY <1>1, EmptyHandsStep, OpensLatestStep, HeldIsLatestStep DEF WorkerIInv

THEOREM WorkerInvariance == WorkerSpec => []WorkerIInv
BY WorkerInitIInv, WorkerStepIInv, PTL DEF WorkerSpec

-----------------------------------------------------------------------------
(* A page that waits for a person is kept.                                  *)

\* No listener has a page that is still open, and the page about to be opened
\* is a new one: it cannot be closed in place of an older page of its item.
PagesApart ==
  /\ NoPage \notin tabs
  /\ \A p \in tabs : p.try <= attempts[day][p.item]
  /\ \A c \in closers : c.page \notin tabs /\ c.page.try <= attempts[day][c.page.item]
  /\ task.step \in {"window", "tab"} =>
       /\ task.page # NoPage
       /\ task.page \notin tabs
       /\ \A c \in closers : c.page # task.page

\* A task that works on a page and may close it does not leave one waiting.
AtWork == {"collect", "answer", "challenge", "pause", "failure", "close"}
NoneWaitsAtWork == task.step \in AtWork => ~waiting

\* The poll that heard of no pause finds no item that waits for a person.
HeardTruth ==
  task.step = "decide" /\ ~task.seen =>
    \A t \in Target : status[day][t] # "NEEDS_VERIFICATION"

\* Without its page the extension stays switched off and opens nothing.
Asleep == ~DedicatedTab => ~enabled /\ task.step = "idle" /\ tabs = {}

KeptIInv ==
  /\ WorkerIInv
  /\ IInv
  /\ PagesApart
  /\ NoneWaitsAtWork
  /\ HeardTruth
  /\ Asleep

\* Only a report of a verification makes an item wait, and it is counted.
LEMMA NoNewPause ==
  ASSUME IInv, [Next]_vars, UNCHANGED challenges, NEW t \in Target,
         status'[day][t] = "NEEDS_VERIFICATION"
  PROVE  status[day][t] = "NEEDS_VERIFICATION"
<1>1. day \in Day /\ challenges[day][t] \in Nat
  BY DEF IInv, TypeOK
<1>2. ItemMove(day, t)
  BY <1>1, EveryStepMoves DEF IInv, ItemsMove
<1>3. challenges'[day][t] # challenges[day][t] + 1
  BY <1>1
<1> QED
  BY <1>2, <1>3
  DEF ItemMove, MoveNone, MoveListed, MoveLapse, MoveTakenBack, MoveGivenUp,
      MoveHandedOut, MoveEnded, MoveRetried, MoveHeld, MoveReleased, SameStatus

LEMMA TriesGrow ==
  ASSUME IInv, [Next]_vars, day' = day
  PROVE  \A t \in Target : /\ attempts[day][t] \in Nat
                           /\ attempts'[day'][t] \in Nat
                           /\ attempts[day][t] <= attempts'[day'][t]
<1> SUFFICES ASSUME NEW t \in Target
             PROVE  /\ attempts[day][t] \in Nat
                    /\ attempts'[day'][t] \in Nat
                    /\ attempts[day][t] <= attempts'[day'][t]
  OBVIOUS
<1>1. day \in Day /\ attempts[day][t] \in Nat
  BY DEF IInv, TypeOK
<1>2. ItemMove(day, t)
  BY <1>1, EveryStepMoves DEF IInv, ItemsMove
<1>3. attempts'[day][t] \in {attempts[day][t], attempts[day][t] + 1}
  BY <1>2
  DEF ItemMove, MoveNone, MoveListed, MoveLapse, MoveTakenBack, MoveGivenUp,
      MoveHandedOut, MoveEnded, MoveRetried, MoveHeld, MoveReleased, SameAttempts
<1> QED BY <1>1, <1>3

\* Pages are closed, or the one that was claimed is opened.
LEMMA TabsStep ==
  ASSUME [WorkerNext]_wvars
  PROVE  \/ tabs' \subseteq tabs
         \/ task.step = "tab" /\ tabs' = tabs \cup {task.page} /\ task' = Idle
<1>1. ASSUME NEW p, ClosePage(p)
      PROVE  tabs' \subseteq tabs
  BY <1>1 DEF ClosePage
<1>2. ASSUME CloseWindow
      PROVE  tabs' \subseteq tabs
  BY <1>2 DEF CloseWindow
<1>3. ASSUME UNCHANGED browser
      PROVE  tabs' \subseteq tabs
  BY <1>3 DEF browser
<1>4. CASE OpenTab
  BY <1>4 DEF OpenTab
<1>5. CASE Decide
  BY <1>5, <1>1, <1>3 DEF Decide
<1>6. CASE ClaimItem \/ Close \/ PlainDashboard \/ Wake
           \/ (\E c \in closers : CloserClears(c))
  BY <1>6, <1>1, <1>2, <1>3 DEF ClaimItem, Close, PlainDashboard, Wake, CloserClears
<1>7. CASE StartPoll \/ Heartbeat \/ StartProcess \/ Collect \/ PostAnswer
           \/ PostChallenge \/ PostFailure \/ LoseRequest \/ DedicatedDashboard
           \/ Queue \/ UNCHANGED wvars \/ (\E c \in closers : CloserPosts(c))
  BY <1>7, <1>3
  DEF StartPoll, Heartbeat, StartProcess, Collect, PostAnswer, PostChallenge, PostFailure,
      LoseRequest, DedicatedDashboard, Queue, wvars, CloserPosts
<1>8. CASE OpenWindow \/ Pause \/ PersonCloses \/ (\E p \in tabs : PageLoads(p))
  BY <1>8 DEF OpenWindow, Pause, PersonCloses, PageLoads
<1>9. CASE Crash
  BY <1>9, <1>2, <1>3 DEF Crash
<1> QED
  BY <1>4, <1>5, <1>6, <1>7, <1>8, <1>9 DEF WorkerNext, Step, Closing

\* A listener is called for a page that was open until then.
LEMMA ClosersStep ==
  ASSUME WorkerTypeOK, [WorkerNext]_wvars, NEW c \in closers'
  PROVE  \/ PersonCloses /\ c.page \in tabs /\ c.page \notin tabs'
         \/ \E b \in closers : b.page = c.page
<1>1. closers \subseteq [page : Page, told : BOOLEAN]
  BY DEF WorkerTypeOK
<1>2. CASE closers' \subseteq closers
  BY <1>2
<1>3. CASE PersonCloses
  <2>1. ASSUME NEW ps, Removed(ps), c \notin closers
        PROVE  c.page \in ps
    BY <2>1 DEF Removed
  <2>2. CASE c \notin closers
    BY <1>3, <2>1, <2>2 DEF PersonCloses
  <2> QED BY <1>3, <2>2
<1>4. ASSUME NEW b \in closers, CloserPosts(b)
      PROVE  \E e \in closers : e.page = c.page
  <2>1. c \in closers \/ c = [b EXCEPT !.told = TRUE]
    BY <1>4 DEF CloserPosts
  <2> QED BY <1>1, <2>1
<1>5. CASE PlainDashboard \/ DedicatedDashboard \/ Wake \/ Crash
           \/ (\E b \in closers : CloserClears(b))
  BY <1>2, <1>5 DEF PlainDashboard, DedicatedDashboard, Wake, Crash, Sync, CloserClears
<1>6. CASE Step \/ StartPoll \/ StartProcess \/ LoseRequest \/ Queue
           \/ (\E p \in tabs : PageLoads(p)) \/ UNCHANGED wvars
  BY <1>2, <1>6
  DEF Step, StartPoll, Heartbeat, Decide, ClaimItem, OpenWindow, OpenTab, StartProcess,
      Collect, PostAnswer, PostChallenge, Pause, PostFailure, Close, LoseRequest, Queue,
      PageLoads, wvars
<1> QED BY <1>3, <1>4, <1>5, <1>6 DEF WorkerNext, Closing

LEMMA PagesApartStep ==
  ASSUME KeptIInv, [WorkerNext]_wvars
  PROVE  PagesApart'
<1>1. /\ WorkerTypeOK /\ PageInHand /\ OpensLatestTry /\ IInv /\ PagesApart
      /\ tabs \subseteq Page /\ closers \subseteq [page : Page, told : BOOLEAN]
  BY DEF KeptIInv, WorkerIInv, WorkerTypeOK
<1>2. [Next]_vars /\ day' = day
  BY <1>1, WorkerStepIsQueueStep
<1>3. /\ \A t \in Target : /\ attempts[day][t] \in Nat
                           /\ attempts'[day'][t] \in Nat
                           /\ attempts[day][t] <= attempts'[day'][t]
  BY <1>1, <1>2, TriesGrow
<1>4. \A p \in Page : p.item \in Target /\ p.try \in Nat
  BY DEF Page
<1>5. ASSUME NEW p \in Page, p.try <= attempts[day][p.item]
      PROVE  p.try <= attempts'[day'][p.item]
  BY <1>3, <1>4, <1>5
<1>6. task.step = "tab" => /\ task.page \in Page
                           /\ task.page.try <= attempts[day][task.page.item]
                           /\ task.page # NoPage
                           /\ \A c \in closers : c.page # task.page
  BY <1>1, <1>3, <1>4 DEF PageInHand, OpensLatestTry, PagesApart
<1>7. NoPage \notin tabs' /\ \A p \in tabs' : p.try <= attempts'[day'][p.item]
  BY <1>1, <1>5, <1>6, TabsStep DEF PagesApart
<1>8. ASSUME NEW c \in closers'
      PROVE  c.page \notin tabs' /\ c.page.try <= attempts'[day'][c.page.item]
  <2>1. CASE c.page \in tabs /\ c.page \notin tabs'
    BY <1>1, <1>5, <2>1 DEF PagesApart
  <2>2. ASSUME NEW b \in closers, b.page = c.page
        PROVE  c.page \notin tabs' /\ c.page.try <= attempts'[day'][c.page.item]
    <3>1. b.page \in Page /\ b.page \notin tabs
          /\ b.page.try <= attempts[day][b.page.item]
      BY <1>1 DEF PagesApart
    <3>2. b.page \notin tabs'
      BY <1>6, <3>1, TabsStep
    <3> QED BY <1>5, <2>2, <3>1, <3>2
  <2> QED BY <1>1, <2>1, <2>2, ClosersStep
<1>9. ASSUME task'.step \in {"window", "tab"}
      PROVE  /\ task'.page # NoPage
             /\ task'.page \notin tabs'
             /\ \A c \in closers' : c.page # task'.page
  <2>1. tabs' \subseteq tabs
    BY <1>9, TabsStep, IdleTask
  <2>2. CASE task.step \in {"window", "tab"} /\ task'.page = task.page
    <3>1. /\ task.page # NoPage /\ task.page \notin tabs
          /\ \A c \in closers : c.page # task.page
      BY <1>1, <2>2 DEF PagesApart
    <3>2. ASSUME NEW c \in closers'
          PROVE  c.page # task.page
      BY <1>1, <3>1, ClosersStep
    <3> QED BY <2>1, <2>2, <3>1, <3>2
  <2>3. CASE ClaimItem
    <3>1. PICK t \in Handed :
            task' = [Idle EXCEPT !.step = "window",
                                 !.page = [item |-> t, try |-> attempts'[day][t]]]
      BY <1>9, <2>3, IdleTask DEF ClaimItem
    <3>2. /\ task'.page.item = t /\ task'.page.try = attempts[day][t] + 1
          /\ t \in Target
      BY <3>1, IdleTask DEF Task, Handed
    <3>3. ASSUME NEW p \in Page, p.try <= attempts[day][p.item]
          PROVE  p # task'.page
      BY <1>3, <1>4, <3>2, <3>3
    <3>4. task'.page # NoPage
      BY <1>3, <3>2 DEF NoPage
    <3>5. closers' = closers
      BY <2>3 DEF ClaimItem
    <3>6. task'.page \notin tabs'
      BY <1>1, <2>1, <3>3 DEF PagesApart
    <3>7. \A c \in closers' : c.page # task'.page
      BY <1>1, <3>3, <3>5 DEF PagesApart
    <3> QED BY <3>4, <3>6, <3>7
  <2> QED BY <1>1, <1>9, <2>2, <2>3, ClaimingStep
<1> QED BY <1>7, <1>8, <1>9 DEF PagesApart

LEMMA NoneWaitsStep ==
  ASSUME WorkerTypeOK, NoneWaitsAtWork, [WorkerNext]_wvars
  PROVE  NoneWaitsAtWork'
<1> SUFFICES ASSUME task'.step \in AtWork
             PROVE  waiting' = FALSE
  BY DEF NoneWaitsAtWork
<1>1. task \in Task /\ waiting \in BOOLEAN
  BY DEF WorkerTypeOK
<1>2. task.step \in AtWork => waiting = FALSE
  BY <1>1 DEF NoneWaitsAtWork
<1>3. ASSUME UNCHANGED browser
      PROVE  waiting' = waiting
  BY <1>3 DEF browser
<1>4. CASE Decide
  <2>1. CASE ~waiting
    BY <1>1, <1>3, <1>4, <2>1 DEF Decide, Resumed
  <2>2. CASE waiting' = FALSE
    BY <2>2
  <2>3. CASE task' = Idle \/ task' = [Idle EXCEPT !.step = "claim"]
    BY <2>3, IdleTask DEF AtWork, Task
  <2> QED BY <1>4, <2>1, <2>2, <2>3 DEF Decide
<1>5. CASE StartProcess
  BY <1>1, <1>3, <1>5 DEF StartProcess
<1>6. CASE Collect \/ PostAnswer \/ PostChallenge \/ PostFailure
  BY <1>2, <1>3, <1>6 DEF Collect, PostAnswer, PostChallenge, PostFailure, AtWork
<1>7. CASE LoseRequest
  BY <1>1, <1>2, <1>3, <1>7, IdleTask DEF LoseRequest, AtWork
<1>8. CASE Close \/ PlainDashboard \/ (\E c \in closers : CloserClears(c))
  BY <1>8 DEF Close, PlainDashboard, CloserClears, ClosePage, CloseWindow
<1>9. CASE StartPoll \/ Heartbeat \/ ClaimItem \/ OpenWindow \/ OpenTab \/ Pause
           \/ Wake \/ Crash
  <2>1. task'.step \notin AtWork
    BY <1>1, <1>9, IdleTask
    DEF StartPoll, Heartbeat, ClaimItem, OpenWindow, OpenTab, Pause, Wake, Crash, Sync,
        AtWork, Task
  <2> QED BY <2>1
<1>10. CASE DedicatedDashboard \/ Queue \/ (\E c \in closers : CloserPosts(c))
            \/ UNCHANGED wvars
  BY <1>2, <1>3, <1>10 DEF DedicatedDashboard, Queue, CloserPosts, wvars
<1>11. CASE PersonCloses \/ (\E p \in tabs : PageLoads(p))
  BY <1>2, <1>11 DEF PersonCloses, PageLoads
<1> QED
  BY <1>4, <1>5, <1>6, <1>7, <1>8, <1>9, <1>10, <1>11 DEF WorkerNext, Step, Closing

LEMMA HeardTruthStep ==
  ASSUME KeptIInv, [WorkerNext]_wvars
  PROVE  HeardTruth'
<1> SUFFICES ASSUME task'.step = "decide", task'.seen = FALSE, NEW t \in Target,
                    status'[day'][t] = "NEEDS_VERIFICATION"
             PROVE  FALSE
  <2>1. task' \in Task
    BY TaskTypeStep DEF KeptIInv, WorkerIInv
  <2> QED BY <2>1 DEF HeardTruth, Task
<1>1. /\ WorkerTypeOK /\ PageInHand /\ IInv /\ HeardTruth
      /\ task \in Task /\ held \in Page \cup {NoPage} /\ day \in Day
  BY DEF KeptIInv, WorkerIInv, WorkerTypeOK, TypeOK
<1>2. [Next]_vars /\ day' = day
  BY <1>1, WorkerStepIsQueueStep
<1>3. CASE UNCHANGED <<task, vars>>
  BY <1>1, <1>2, <1>3 DEF HeardTruth, vars
<1>4. CASE UNCHANGED <<task, challenges>>
  BY <1>1, <1>2, <1>4, NoNewPause DEF HeardTruth
<1>5. CASE Heartbeat
  <2>1. CASE UNCHANGED task /\ Ensure(day)
    BY <1>4, <2>1 DEF Ensure
  <2>2. CASE /\ UNCHANGED vars
             /\ task' = [Idle EXCEPT !.step = "decide",
                                     !.seen = run[day].status = "NEEDS_VERIFICATION"]
    <3>1. run[day].status # "NEEDS_VERIFICATION"
      BY <2>2, IdleTask DEF Idle
    <3>2. status[day][t] = "NEEDS_VERIFICATION"
      BY <2>2 DEF vars
    <3>3. PauseIsVisible
      BY <1>1 DEF IInv, RunsFit, Fits, Loose, Paused, PauseIsVisible
    <3> QED BY <1>1, <3>1, <3>2, <3>3 DEF PauseIsVisible, Having
  <2> QED BY <1>5, <2>1, <2>2 DEF Heartbeat
<1>6. CASE Queue
  BY <1>4, <1>6 DEF Queue, Ensure, Resume, LeaseExpires
<1>7. CASE \E c \in closers : CloserPosts(c)
  BY <1>3, <1>4, <1>7 DEF CloserPosts, Failure, FailureRetried, FailureFinal
<1>8. CASE PersonCloses \/ PlainDashboard \/ DedicatedDashboard
           \/ (\E c \in closers : CloserClears(c)) \/ (\E p \in tabs : PageLoads(p))
           \/ UNCHANGED wvars
  BY <1>3, <1>8
  DEF PersonCloses, PlainDashboard, DedicatedDashboard, CloserClears, PageLoads, wvars
<1>9. ASSUME \/ StartPoll \/ Decide \/ ClaimItem \/ OpenWindow \/ OpenTab
             \/ StartProcess \/ Pause \/ Wake \/ Crash
      PROVE  task'.step # "decide"
  BY <1>1, <1>9, IdleTask
  DEF StartPoll, Decide, ClaimItem, OpenWindow, OpenTab, StartProcess, Pause, Wake, Crash,
      Sync, LostPage, Task
<1>10. ASSUME Collect \/ PostAnswer \/ PostChallenge \/ PostFailure \/ LoseRequest \/ Close
       PROVE  task'.step # "decide"
  BY <1>1, <1>10, CaughtTask, IdleTask
  DEF Collect, PostAnswer, PostChallenge, PostFailure, LoseRequest, Close, Task
<1> QED
  BY <1>5, <1>6, <1>7, <1>8, <1>9, <1>10 DEF WorkerNext, Step, Closing

LEMMA AsleepStep ==
  ASSUME WorkerTypeOK, Asleep, [WorkerNext]_wvars
  PROVE  Asleep'
<1> SUFFICES ASSUME ~DedicatedTab
             PROVE  enabled' = FALSE /\ task'.step = "idle" /\ tabs' = {}
  BY DEF Asleep
<1>1. enabled = FALSE /\ task.step = "idle" /\ tabs = {}
  BY DEF Asleep, WorkerTypeOK
<1>2. tabs' = {}
  BY <1>1, TabsStep
<1>3. ~StartPoll /\ ~StartProcess /\ ~Step /\ ~LoseRequest /\ ~DedicatedDashboard
  BY <1>1
  DEF StartPoll, StartProcess, Step, Heartbeat, Decide, ClaimItem, OpenWindow, OpenTab,
      Collect, PostAnswer, PostChallenge, Pause, PostFailure, Close, LoseRequest,
      DedicatedDashboard
<1>4. CASE PlainDashboard \/ Wake \/ Crash
  BY <1>1, <1>2, <1>4, IdleTask, DedicatedTabAssumption
  DEF PlainDashboard, Wake, Crash, Sync
<1>5. CASE PersonCloses \/ Queue \/ (\E p \in tabs : PageLoads(p))
           \/ (\E c \in closers : CloserPosts(c) \/ CloserClears(c)) \/ UNCHANGED wvars
  BY <1>1, <1>2, <1>5
  DEF PersonCloses, Queue, PageLoads, CloserPosts, CloserClears, wvars
<1> QED BY <1>3, <1>4, <1>5 DEF WorkerNext, Closing

LEMMA KeptInvariance == WorkerSpec => []KeptIInv
<1>1. WorkerInit => KeptIInv
  <2> SUFFICES ASSUME WorkerInit PROVE KeptIInv
    OBVIOUS
  <2>1. WorkerIInv /\ IInv
    BY WorkerInitIInv, InitIInv DEF WorkerInit
  <2>2. PagesApart /\ NoneWaitsAtWork /\ HeardTruth
    BY IdleTask DEF WorkerInit, PagesApart, NoneWaitsAtWork, AtWork, HeardTruth
  <2>3. Asleep
    BY IdleTask DEF WorkerInit, Asleep
  <2> QED BY <2>1, <2>2, <2>3 DEF KeptIInv
<1>2. KeptIInv /\ [WorkerNext]_wvars => KeptIInv'
  <2> SUFFICES ASSUME KeptIInv, [WorkerNext]_wvars PROVE KeptIInv'
    OBVIOUS
  <2>1. WorkerIInv' /\ IInv'
    BY WorkerStepIInv, WorkerStepIsQueueStep, StepIInv DEF KeptIInv, WorkerIInv
  <2> QED
    BY <2>1, PagesApartStep, NoneWaitsStep, HeardTruthStep, AsleepStep
    DEF KeptIInv, WorkerIInv
<1> QED BY <1>1, <1>2, PTL DEF WorkerSpec

-----------------------------------------------------------------------------
(* The theorems                                                             *)

\* Every variable keeps its type, the pages' tries included.
THEOREM WorkerTypeCorrect == WorkerSpec => []WorkerTypeOK
<1>1. WorkerIInv => WorkerTypeOK
  BY DEF WorkerIInv
<1> QED BY <1>1, WorkerInvariance, PTL

\* The page stored as the one in work was opened for the last claim of its item.
THEOREM HeldIsLatestTryHolds == WorkerSpec => []HeldIsLatestTry
<1>1. WorkerIInv => HeldIsLatestTry
  BY DEF WorkerIInv
<1> QED BY <1>1, WorkerInvariance, PTL

\* While the extension claims an item and opens its page it holds no other.
THEOREM ClaimsWithEmptyHandsHolds == WorkerSpec => []ClaimsWithEmptyHands
<1>1. WorkerIInv => ClaimsWithEmptyHands
  BY DEF WorkerIInv
<1> QED BY <1>1, WorkerInvariance, PTL

\* Nothing the extension does by itself closes a page that waits for a person
\* while the queue waits for that person.
THEOREM VerificationPageKeptHolds == WorkerSpec => VerificationPageKept
<1>1. KeptIInv /\ [WorkerNext]_wvars =>
        (waiting /\ held \in tabs /\ status[day][held.item] = "NEEDS_VERIFICATION"
           => held \in tabs' \/ PersonCloses \/ PlainDashboard \/ Crash)
  <2> SUFFICES ASSUME KeptIInv, [WorkerNext]_wvars, waiting, held \in tabs,
                      status[day][held.item] = "NEEDS_VERIFICATION",
                      ~PersonCloses, ~PlainDashboard, ~Crash
               PROVE  held \in tabs'
    OBVIOUS
  <2>1. WorkerTypeOK /\ held \in Page /\ held.item \in Target
    BY DEF KeptIInv, WorkerIInv, WorkerTypeOK, Page
  <2>2. held # NoPage /\ task.step # "close" /\ DedicatedTab
    BY DEF KeptIInv, PagesApart, NoneWaitsAtWork, AtWork, Asleep
  <2>3. ~(task.step = "decide" /\ ~task.seen)
    BY <2>1 DEF KeptIInv, HeardTruth
  <2>4. ASSUME UNCHANGED browser
        PROVE  held \in tabs'
    BY <2>4 DEF browser
  <2>5. CASE Decide
    BY <2>3, <2>4, <2>5 DEF Decide, Resumed
  <2>6. CASE ClaimItem
    BY <2>2, <2>6 DEF ClaimItem, KeptIInv, WorkerIInv, ClaimsWithEmptyHands
  <2>7. CASE Close
    BY <2>2, <2>7 DEF Close
  <2>8. ASSUME NEW c \in closers, CloserClears(c)
        PROVE  held \in tabs'
    BY <2>8 DEF CloserClears, ClosePage, KeptIInv, PagesApart
  <2>9. CASE Wake
    BY <2>2, <2>4, <2>9 DEF Wake
  <2>10. CASE StartPoll \/ Heartbeat \/ StartProcess \/ Collect \/ PostAnswer
              \/ PostChallenge \/ PostFailure \/ LoseRequest \/ DedicatedDashboard
              \/ Queue \/ UNCHANGED wvars \/ (\E c \in closers : CloserPosts(c))
    BY <2>4, <2>10
    DEF StartPoll, Heartbeat, StartProcess, Collect, PostAnswer, PostChallenge, PostFailure,
        LoseRequest, DedicatedDashboard, Queue, wvars, CloserPosts
  <2>11. CASE OpenWindow \/ OpenTab \/ Pause \/ (\E p \in tabs : PageLoads(p))
    BY <2>11 DEF OpenWindow, OpenTab, Pause, PageLoads
  <2> QED
    BY <2>5, <2>6, <2>7, <2>8, <2>9, <2>10, <2>11 DEF WorkerNext, Step, Closing
<1> QED BY <1>1, KeptInvariance, PTL DEF WorkerSpec, VerificationPageKept

\* The extension, with its crashes, lost requests and closed pages, only makes
\* the queue take steps of its specification.
THEOREM WorkerDrivesQueue == WorkerSpec => Spec
<1>1. WorkerInit => Init
  BY DEF WorkerInit
<1>2. WorkerIInv /\ [WorkerNext]_wvars => [Next]_vars
  BY WorkerStepIsQueueStep DEF WorkerIInv
<1> QED BY <1>1, <1>2, WorkerInvariance, PTL DEF WorkerSpec, Spec

\* What the queue promises every worker holds with this one.  Its states can be
\* believed: a run is open as long as there is work, its verdict and counters
\* are those of its items, a pause shows, products wait for the stores, no item
\* is tried too often, and what counts as collected has left a snapshot.
THEOREM QueueStatesHold ==
  WorkerSpec => /\ []RunOpenIffWorkLeft /\ []VerdictIsHonest /\ []CountsMatchItems
                /\ []PauseIsVisible /\ []StoresBeforeProducts /\ []LeaseGuardsRunning
                /\ []AttemptsBounded /\ []SuccessHasSnapshot
BY WorkerDrivesQueue, RunOpenIffWorkLeftHolds, VerdictIsHonestHolds, CountsMatchItemsHolds,
   PauseIsVisibleHolds, StoresBeforeProductsHolds, LeaseGuardsRunningHolds,
   AttemptsBoundedHolds, SuccessHasSnapshotHolds, PTL

\* And its steps: no item that is over is queued, claimed or answered again, a
\* complete run stays as it is, nothing is handed out while an item waits for a
\* person or a second time while its lease is ahead, and each lowers the effort
\* left in the run whose items it touches.
THEOREM QueuePromisesHold ==
  WorkerSpec => /\ TerminalItemsStay /\ CompleteRunStays /\ QuietWhilePaused
                /\ LiveLeaseIsExclusive /\ EffortRunsDown
BY WorkerDrivesQueue, TerminalItemsStayHolds, CompleteRunStaysHolds, QuietWhilePausedHolds,
   LiveLeaseIsExclusiveHolds, EffortRunsDownHolds, PTL

\* The extension and the queue together keep the promise of the work ledger.
THEOREM WorkerKeepsLedger == WorkerSpec => ImplementsLedger
BY WorkerDrivesQueue, Refinement, PTL
=============================================================================
