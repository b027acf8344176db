---------------------------- MODULE BrowserWorker ----------------------------
(***************************************************************************)
(* The Chrome extension that works through the daily collection queue:     *)
(* extension/background.js composed with the handlers of BrowserQueue.     *)
(*                                                                         *)
(* pollAutomation and processAutomationTab share the lock automationBusy,  *)
(* so at most one of them is under way; "task" says which and where.  The  *)
(* listener for closed tabs takes no lock; "closers" are its calls under   *)
(* way.  Every await is a step: a request is handled in one step and what  *)
(* its answer leads to is another, so that a crash, a closed tab or a      *)
(* message may come between.  task and closers die with the extension's    *)
(* service worker; held and waiting are in chrome.storage and survive it.  *)
(*                                                                         *)
(* One Chrome, one day, and nobody else reports on its items: the other    *)
(* workers, midnight and the changes of the pool are in BrowserQueue.      *)
(***************************************************************************)
EXTENDS BrowserQueue

CONSTANTS
  DedicatedTab,   \* the profile was started with a ?dianxiaomi_worker=1 page
  MaxFaults       \* bound: crashes, failed requests, tabs and windows closed
                  \* by a person, other dashboards opened

ASSUME DedicatedTabAssumption == DedicatedTab \in BOOLEAN
ASSUME MaxFaultsAssumption    == MaxFaults \in Nat

VARIABLES
  enabled,   \* dedicatedWorkerEnabled()
  held,      \* automationItem and automationTabId: the page the worker works on
  waiting,   \* challengePaused
  window,    \* the automation window is open
  greeting,  \* the page that came with that window has not yet reported itself
  tabs,      \* the pages open in that window
  loaded,    \* those whose status is complete
  task,      \* the poll or the processing under way
  closers,   \* tabs.onRemoved listeners under way
  faults     \* (bound) faults so far

browser == <<held, waiting, window, greeting, tabs, loaded>>
wvars   == <<vars, enabled, browser, task, closers, faults>>

\* A claim opens one page, and the claims of an item are numbered.
Page   == [item : Target, try : Nat]
NoPage == [item |-> "none", try |-> 0]

TaskStep == {"idle", "heartbeat", "decide", "claim", "window", "tab",
             "collect", "answer", "challenge", "pause", "failure", "close"}

\* seen: the heartbeat's answer said NEEDS_VERIFICATION.
\* next: what follows the closing of a page, the end or the poll's claim.
Task == [step : TaskStep, page : Page \cup {NoPage}, seen : BOOLEAN,
         next : {"idle", "claim"}]
Idle == [step |-> "idle", page |-> NoPage, seen |-> FALSE, next |-> "idle"]

WorkerTypeOK ==
  /\ TypeOK
  /\ enabled \in BOOLEAN
  /\ held \in Page \cup {NoPage}
  /\ waiting \in BOOLEAN
  /\ window \in BOOLEAN
  /\ greeting \in BOOLEAN
  /\ tabs \subseteq Page
  /\ loaded \subseteq tabs
  /\ task \in Task
  /\ closers \subseteq [page : Page, told : BOOLEAN]
  /\ faults \in 0 .. MaxFaults

WorkerInit ==
  /\ Init
  /\ enabled = DedicatedTab
  /\ held = NoPage /\ waiting = FALSE
  /\ window = ~DedicatedTab /\ greeting = ~DedicatedTab
  /\ tabs = {} /\ loaded = {}
  /\ task = Idle /\ closers = {}
  /\ faults = 0

Fault == faults < MaxFaults /\ faults' = faults + 1

-----------------------------------------------------------------------------
(* What the handlers do to the browser.                                     *)

\* Faulty: the item is not forgotten with its page, or the page stays listed.
ShutOnly(p) ==
  /\ tabs' = tabs \ {p} /\ loaded' = loaded \ {p}
  /\ UNCHANGED <<held, waiting, window, greeting>>
ShutStillLoaded(p) ==
  /\ held' = NoPage /\ waiting' = FALSE
  /\ tabs' = tabs \ {p}
  /\ UNCHANGED <<loaded, window, greeting>>

\* closeItemTab: whatever item is stored is forgotten, the page p is closed.
ClosePage(p) ==
  /\ held' = NoPage /\ waiting' = FALSE
  /\ tabs' = tabs \ {p} /\ loaded' = loaded \ {p}
  /\ UNCHANGED <<window, greeting>>

\* closeAutomationWindow
CloseWindow ==
  /\ held' = NoPage /\ waiting' = FALSE
  /\ window' = FALSE /\ greeting' = FALSE
  /\ tabs' = {} /\ loaded' = {}

\* An exception inside processAutomationTabInternal: the stored item, read
\* again, is reported as failed.
Caught == IF held = NoPage THEN Idle
          ELSE [Idle EXCEPT !.step = "failure", !.page = held]

-----------------------------------------------------------------------------
(* pollAutomation                                                           *)

\* The alarm, the start of Chrome, a reload while paused, the end of a task.
StartPoll ==
  /\ enabled /\ task.step = "idle"
  /\ task' = [Idle EXCEPT !.step = "heartbeat"]
  /\ UNCHANGED <<vars, enabled, browser, closers, faults>>

\* The heartbeat, which creates the day's run if there is none.
Heartbeat ==
  /\ task.step = "heartbeat"
  /\ \/ /\ Ensure(day)
        /\ UNCHANGED task
     \/ /\ run[day].status # "NONE"
        /\ task' = [Idle EXCEPT !.step = "decide",
                                !.seen = run[day].status = "NEEDS_VERIFICATION"]
        /\ UNCHANGED vars
  /\ UNCHANGED <<enabled, browser, closers, faults>>

\* Faulty: an item is stored, whether or not its page still exists.
BusyWithStored == held # NoPage

BusyWith == held \in tabs

\* Faulty: what the heartbeat said is not looked at.
ResumedAnyhow == waiting

\* A person has resumed the run that the stored page made wait.
Resumed == waiting /\ ~task.seen

\* Faulty: the poll goes on to the next item.
NotReported == [Idle EXCEPT !.step = "claim"]

\* The stored page is gone: its item is reported as failed, then forgotten.
LostPage == [Idle EXCEPT !.step = "failure", !.page = held, !.next = "claim"]

\* While a person is to pass a verification, the poll ends unless the page now
\* shows its data; otherwise a page of a run that was resumed is closed.
Decide ==
  /\ task.step = "decide"
  /\ \/ /\ waiting /\ task.seen
        /\ task' = Idle
        /\ UNCHANGED browser
     \/ /\ waiting /\ task.seen /\ held \in loaded
        /\ waiting' = FALSE
        /\ task' = [Idle EXCEPT !.step = "collect", !.page = held]
        /\ UNCHANGED <<held, window, greeting, tabs, loaded>>
     \/ /\ Resumed
        /\ task' = [Idle EXCEPT !.step = "claim"]
        /\ IF held = NoPage THEN UNCHANGED browser ELSE ClosePage(held)
     \/ /\ ~waiting /\ BusyWith
        /\ task' = IF held \in loaded THEN [Idle EXCEPT !.step = "collect", !.page = held]
                   ELSE Idle
        /\ UNCHANGED browser
     \/ /\ ~waiting /\ held # NoPage /\ ~BusyWith
        /\ task' = LostPage
        /\ UNCHANGED browser
     \/ /\ ~waiting /\ held = NoPage
        /\ task' = [Idle EXCEPT !.step = "claim"]
        /\ UNCHANGED browser
  /\ UNCHANGED <<vars, enabled, closers, faults>>

\* Faulty: a run in which everything failed does not count as over.
OverUnlessFailed(r) == r.status \in {"COMPLETED", "PARTIAL"}

Over(r) == r.status \in {"COMPLETED", "PARTIAL", "FAILED"}

Handed == {t \in Target : attempts'[day][t] = attempts[day][t] + 1}

\* The claim.  With an item, its page is opened next; with none, the window is
\* closed if the run is over.
ClaimItem ==
  /\ task.step = "claim"
  /\ Claim
  /\ IF Handed # {}
     THEN /\ \E t \in Handed :
               task' = [Idle EXCEPT !.step = "window",
                                    !.page = [item |-> t, try |-> attempts'[day][t]]]
          /\ UNCHANGED browser
     ELSE /\ task' = Idle
          /\ IF Over(run'[day]) THEN CloseWindow ELSE UNCHANGED browser
  /\ UNCHANGED <<enabled, closers, faults>>

\* openAutomationItem: the window, which comes with a page of the dashboard.
OpenWindow ==
  /\ task.step = "window"
  /\ window' = TRUE
  /\ greeting' = IF window THEN greeting ELSE TRUE
  /\ task' = [task EXCEPT !.step = "tab"]
  /\ UNCHANGED <<vars, enabled, held, waiting, tabs, loaded, closers, faults>>

\* openAutomationItem: the item's page, unless the window is gone by now.
OpenTab ==
  /\ task.step = "tab"
  /\ IF window
     THEN /\ tabs' = tabs \cup {task.page}
          /\ held' = task.page
          /\ waiting' = FALSE
     ELSE UNCHANGED <<tabs, held, waiting>>
  /\ task' = Idle
  /\ UNCHANGED <<vars, enabled, window, greeting, loaded, closers, faults>>

-----------------------------------------------------------------------------
(* processAutomationTab                                                     *)

\* A page has finished loading, for the first time or again.
StartProcess ==
  /\ enabled /\ task.step = "idle"
  /\ held \in loaded /\ ~waiting
  /\ task' = [Idle EXCEPT !.step = "collect", !.page = held]
  /\ UNCHANGED <<vars, enabled, browser, closers, faults>>

\* The page is read: its data, a verification, nothing to be read, or an error.
Collect ==
  /\ task.step = "collect"
  /\ \/ /\ task.page \in tabs
        /\ \E step \in {"answer", "challenge", "failure"} :
             /\ step = "challenge" => challenges[day][task.page.item] < MaxChallenges
             /\ task' = [task EXCEPT !.step = step]
     \/ task' = Caught
  /\ UNCHANGED <<vars, enabled, browser, closers, faults>>

Answer(t) == IF t \in Product THEN ProductAnswer(day, t) ELSE StoreAnswer(day, t)

Failure(t) == FailureRetried(day, t) \/ FailureFinal(day, t)

PostAnswer ==
  /\ task.step = "answer"
  /\ \/ /\ Answer(task.page.item)
        /\ task' = [task EXCEPT !.step = "close"]
     \/ /\ ~Reportable(day, task.page.item)
        /\ task' = Caught
        /\ UNCHANGED vars
  /\ UNCHANGED <<enabled, browser, closers, faults>>

PostChallenge ==
  /\ task.step = "challenge"
  /\ \/ /\ Challenge(day, task.page.item)
        /\ task' = [task EXCEPT !.step = "pause"]
     \/ /\ ~Reportable(day, task.page.item)
        /\ task' = Caught
        /\ UNCHANGED vars
  /\ UNCHANGED <<enabled, browser, closers, faults>>

\* challengePaused is stored, whatever has become of the item meanwhile.
Pause ==
  /\ task.step = "pause"
  /\ waiting' = TRUE
  /\ task' = Idle
  /\ UNCHANGED <<vars, enabled, held, window, greeting, tabs, loaded, closers, faults>>

\* finishAutomationFailure: a refusal is ignored.
PostFailure ==
  /\ task.step = "failure"
  /\ \/ Failure(task.page.item)
     \/ ~Reportable(day, task.page.item) /\ UNCHANGED vars
  /\ task' = [task EXCEPT !.step = "close"]
  /\ UNCHANGED <<enabled, browser, closers, faults>>

Close ==
  /\ task.step = "close"
  /\ ClosePage(task.page)
  /\ task' = [Idle EXCEPT !.step = task.next]
  /\ UNCHANGED <<vars, enabled, closers, faults>>

-----------------------------------------------------------------------------
(* Requests that fail: not handled, or handled and the answer lost.  (The    *)
(* listener for closed tabs looks at no answer; its request is not lost.)   *)

LoseRequest ==
  /\ Fault
  /\ \/ /\ task.step = "heartbeat"
        /\ task' = Idle
        /\ UNCHANGED vars
     \/ /\ task.step = "claim"
        /\ task' = Idle
        /\ (Claim \/ UNCHANGED vars)
     \/ /\ task.step = "answer"
        /\ task' = Caught
        /\ (Answer(task.page.item) \/ UNCHANGED vars)
     \/ /\ task.step = "challenge"
        /\ task' = Caught
        /\ (Challenge(day, task.page.item) \/ UNCHANGED vars)
     \/ /\ task.step = "failure"
        /\ task' = [task EXCEPT !.step = "close"]
        /\ UNCHANGED vars
  /\ UNCHANGED <<enabled, browser, closers>>

-----------------------------------------------------------------------------
(* The listener for closed tabs                                             *)

CloserPosts(c) ==
  /\ c \in closers /\ ~c.told
  /\ \/ Failure(c.page.item)
     \/ ~Reportable(day, c.page.item) /\ UNCHANGED vars
  /\ closers' = (closers \ {c}) \cup {[c EXCEPT !.told = TRUE]}
  /\ UNCHANGED <<enabled, browser, task, faults>>

CloserClears(c) ==
  /\ c \in closers /\ c.told
  /\ ClosePage(c.page)
  /\ closers' = closers \ {c}
  /\ UNCHANGED <<vars, enabled, task, faults>>

-----------------------------------------------------------------------------
(* Chrome, its user and the dashboard                                       *)

PageLoads(p) ==
  /\ p \in tabs \ loaded
  /\ loaded' = loaded \cup {p}
  /\ UNCHANGED <<vars, enabled, held, waiting, window, greeting, tabs, task, closers, faults>>

\* onRemoved, for the pages ps that a person closes.
Removed(ps) ==
  closers' = IF enabled /\ held \in ps /\ ~waiting
             THEN closers \cup {[page |-> held, told |-> FALSE]} ELSE closers

PersonCloses ==
  /\ Fault
  /\ \/ \E p \in tabs :
          /\ Removed({p})
          /\ tabs' = tabs \ {p} /\ loaded' = loaded \ {p}
          /\ UNCHANGED <<window, greeting>>
     \/ /\ window
        /\ Removed(tabs)
        /\ tabs' = {} /\ loaded' = {}
        /\ window' = FALSE /\ greeting' = FALSE
  /\ UNCHANGED <<vars, enabled, held, waiting, task>>

\* dashboard-context from a page without ?dianxiaomi_worker=1: the worker is
\* switched off and its window closed.  The page that comes with the automation
\* window is such a page; a person may open another.
PlainDashboard ==
  /\ \/ greeting /\ UNCHANGED faults
     \/ Fault
  /\ enabled' = FALSE
  /\ CloseWindow
  /\ UNCHANGED <<vars, task, closers>>

\* dashboard-context from the page with ?dianxiaomi_worker=1, loaded again.
DedicatedDashboard ==
  /\ DedicatedTab
  /\ enabled' = TRUE
  /\ UNCHANGED <<vars, browser, task, closers, faults>>

\* syncDedicatedWorkerMode, when the service worker starts.
Sync ==
  /\ enabled' = DedicatedTab
  /\ task' = Idle /\ closers' = {}

\* Chrome stops a service worker that has nothing to do; the alarm starts it.
Wake ==
  /\ task = Idle /\ closers = {}
  /\ Sync
  /\ IF DedicatedTab THEN UNCHANGED browser ELSE CloseWindow
  /\ UNCHANGED <<vars, faults>>

\* The extension is reloaded or crashes; or Chrome does, and its windows go.
Crash ==
  /\ Fault
  /\ Sync
  /\ IF ~DedicatedTab THEN CloseWindow
     ELSE \/ UNCHANGED browser
          \/ /\ tabs' = {} /\ loaded' = {}
             /\ window' = FALSE /\ greeting' = FALSE
             /\ UNCHANGED <<held, waiting>>
  /\ UNCHANGED vars

\* What happens to the queue meanwhile.
Queue ==
  /\ \/ Ensure(day)
     \/ Resume(day)
     \/ \E t \in Target : LeaseExpires(day, t)
  /\ UNCHANGED <<enabled, browser, task, closers, faults>>

Closing == \E c \in closers : CloserPosts(c) \/ CloserClears(c)

Step ==
  \/ Heartbeat \/ Decide \/ ClaimItem \/ OpenWindow \/ OpenTab
  \/ Collect \/ PostAnswer \/ PostChallenge \/ Pause \/ PostFailure \/ Close

WorkerNext ==
  \/ StartPoll \/ StartProcess \/ Step \/ LoseRequest
  \/ Closing
  \/ \E p \in tabs : PageLoads(p)
  \/ PersonCloses \/ PlainDashboard \/ DedicatedDashboard \/ Wake \/ Crash
  \/ Queue

WorkerSpec == WorkerInit /\ [][WorkerNext]_wvars

\* The alarm rings every half minute and starts a service worker that was
\* stopped; what the extension has begun goes on; Chrome loads pages, if only
\* to show an error; leases run out by the clock; a person answers a pause.
WorkerFairness ==
  /\ WF_wvars(StartPoll)
  /\ WF_wvars(Step)
  /\ WF_wvars(Closing)
  /\ WF_wvars(Wake)
  /\ \A p \in [item : Target, try : 1 .. 2 + MaxChallenges] : WF_wvars(PageLoads(p))
  /\ \A t \in Target : WF_wvars(Queue /\ LeaseExpires(day, t))
  /\ WF_wvars(Queue /\ Resume(day))

FairWorkerSpec == WorkerSpec /\ WorkerFairness

-----------------------------------------------------------------------------
(* Safety                                                                   *)

\* The page stored as the one in work was opened for the last claim of its item:
\* whatever crashed, closed or got lost since, the extension never goes on with
\* the page of a try that the queue has given up and handed out again.
HeldIsLatestTry ==
  held # NoPage => attempts[day][held.item] = held.try

\* While the extension claims an item and opens its page it works on no other:
\* no item in its hands is forgotten in favour of the next one, although poll,
\* processing and the listener for closed tabs all clear and set what is stored.
ClaimsWithEmptyHands ==
  task.step \in {"claim", "window", "tab"} => held = NoPage

\* README.md:115: a page on which a person is to pass a verification is kept.  As
\* long as the queue waits for that person, nothing the extension does by itself
\* closes it; a person, a crash or a dashboard without worker mode may.
VerificationPageKept ==
  [][waiting /\ held \in tabs /\ status[day][held.item] = "NEEDS_VERIFICATION"
       => held \in tabs' \/ PersonCloses \/ PlainDashboard \/ Crash]_wvars

-----------------------------------------------------------------------------
(* Liveness                                                                 *)

\* README.md:113: the day's run is worked through.  Whatever page does not load,
\* whatever crashes, is closed or lost on the way, the run comes to its end.
RunEnds == run[day].status # "NONE" ~> run[day].phase = "COMPLETED"

\* extension/README.md:27: the window is closed when the work is done, also if
\* its last pages were forgotten.
WindowCloses == run[day].phase = "COMPLETED" ~> ~window
=============================================================================
