---------------------------- MODULE BrowserQueue ----------------------------
(***************************************************************************)
(* The daily browser collection queue: app/services/browser_collection.py  *)
(* and the endpoints of app/api/router.py that drive it.  One run per      *)
(* calendar day; a run holds an item per active store, then an item per    *)
(* monitored product that has no valid snapshot of that day.  Workers (the *)
(* Chrome extension) claim items, and answer, fail or pause them; a claim  *)
(* holds a two minute lease.                                               *)
(*                                                                         *)
(* A request is one step here: each handler commits once.  The handlers    *)
(* that create the day's run first commit that creation on its own, so     *)
(* Ensure is a step by itself and Claim is what they do next.  An answer   *)
(* names an item and nothing else, so whichever worker once claimed the    *)
(* item may send it, however late: the answers are enabled for every item  *)
(* that is RUNNING or NEEDS_VERIFICATION, on every day.                    *)
(***************************************************************************)
EXTENDS Naturals, FiniteSets, FiniteSetsExt

CONSTANTS
  Store,          \* stores
  Product,        \* products that may become monitored
  StoreOf,        \* the store of each product
  Position,       \* order in which the items of a run are handed out
  LastDay,        \* bound: the calendar days are 1..LastDay
  MaxChallenges   \* bound: verification pages met by one item

Target == Store \cup Product
Day    == 1 .. LastDay

ASSUME StoreAssumption   == IsFiniteSet(Store)
ASSUME ProductAssumption == IsFiniteSet(Product)
ASSUME KindAssumption    == Store \cap Product = {}
ASSUME StoreOfAssumption == StoreOf \in [Product -> Store]
ASSUME OrderAssumption   == Position \in [Target -> Nat]
ASSUME DayAssumption     == LastDay \in Nat \ {0}
ASSUME BoundAssumption   == MaxChallenges \in Nat

ItemTerminal == {"SUCCEEDED", "PARTIAL", "FAILED", "SKIPPED"}
ItemActive   == {"RUNNING", "NEEDS_VERIFICATION"}
ItemStatus   == {"PENDING"} \cup ItemActive \cup ItemTerminal
RunStatus    == {"PENDING", "RUNNING", "NEEDS_VERIFICATION",
                 "COMPLETED", "PARTIAL", "FAILED"}
Phase        == {"STORE_DISCOVERY", "PRODUCT_COLLECTION", "COMPLETED"}
CountRow     == [total : Nat, succeeded : Nat, partial : Nat, failed : Nat]

VARIABLES
  day,         \* the local date
  source,      \* product -> "none" (no row), "auto" (found on a page), "manual"
  active,      \* products whose monitoring status is active
  openStores,  \* stores whose status is active
  valid,       \* day -> products with a VALID snapshot captured on that day
  run,         \* day -> the run's row ("NONE" status: no row yet)
  status,      \* day -> target -> the item's status ("NONE": no row)
  attempts,    \* day -> target -> attempt_count
  lease,       \* day -> target -> lease_expires_at: null, ahead or past
  challenges   \* day -> target -> verification pages met (history)

pool == <<source, active, openStores>>
vars == <<day, source, active, openStores, valid, run, status, attempts, lease,
          challenges>>

RunRow == [status : RunStatus \cup {"NONE"}, phase : Phase, paused : BOOLEAN,
           started : BOOLEAN, counts : CountRow]

TypeOK ==
  /\ day \in Day
  /\ source \in [Product -> {"none", "auto", "manual"}]
  /\ active \subseteq Product
  /\ openStores \subseteq Store
  /\ valid \in [Day -> SUBSET Product]
  /\ run \in [Day -> RunRow]
  /\ status \in [Day -> [Target -> ItemStatus \cup {"NONE"}]]
  /\ attempts \in [Day -> [Target -> Nat]]
  /\ lease \in [Day -> [Target -> {"none", "live", "expired"}]]
  /\ challenges \in [Day -> [Target -> 0 .. MaxChallenges]]

NoRun == [status |-> "NONE", phase |-> "STORE_DISCOVERY", paused |-> FALSE,
          started |-> FALSE,
          counts |-> [total |-> 0, succeeded |-> 0, partial |-> 0, failed |-> 0]]
NewRun == [NoRun EXCEPT !.status = "PENDING"]

Init ==
  /\ day = 1
  /\ source \in [Product -> {"none", "manual"}]
  /\ active = {p \in Product : source[p] = "manual"}
  /\ openStores = Store
  /\ valid = [d \in Day |-> {}]
  /\ run = [d \in Day |-> NoRun]
  /\ status = [d \in Day |-> [t \in Target |-> "NONE"]]
  /\ attempts = [d \in Day |-> [t \in Target |-> 0]]
  /\ lease = [d \in Day |-> [t \in Target |-> "none"]]
  /\ challenges = [d \in Day |-> [t \in Target |-> 0]]

-----------------------------------------------------------------------------
(* _refresh_counts, _ensure_product_items and _advance_run, as functions of *)
(* the run's row r and the statuses st of its items.                        *)

Having(st, s) == {t \in Target : st[t] = s}
Open(st)      == {t \in Target : st[t] # "NONE" /\ st[t] \notin ItemTerminal}

Counts(st) ==
  [total     |-> Cardinality({t \in Target : st[t] # "NONE"}),
   succeeded |-> Cardinality(Having(st, "SUCCEEDED")),
   partial   |-> Cardinality(Having(st, "PARTIAL")),
   failed    |-> Cardinality(Having(st, "FAILED"))]

\* Products that are monitored, in active stores, without a valid snapshot.
Due(act, val) == {p \in act : StoreOf[p] \in openStores /\ p \notin val}

Paused(st)     == Having(st, "NEEDS_VERIFICATION") # {}
\* Faulty: a store item in a worker's hands does not keep the products back.
NoStorePending(st) == Having(st, "PENDING") \cap Store = {}

StoresDone(st) == Open(st) \cap Store = {}

\* Faulty: the phase is not looked at, a finished run takes in new products.
RefilledItems(r, st, due) ==
  IF ~Paused(st) /\ StoresDone(st)
  THEN [t \in Target |-> IF t \in due /\ st[t] = "NONE" THEN "PENDING" ELSE st[t]]
  ELSE st

\* The items once the run has advanced: products are queued when the last
\* store item is over, unless an item waits for a person.
AdvancedItems(r, st, due) ==
  IF ~Paused(st) /\ r.phase = "STORE_DISCOVERY" /\ StoresDone(st)
  THEN [t \in Target |-> IF t \in due /\ st[t] = "NONE" THEN "PENDING" ELSE st[t]]
  ELSE st

\* Faulty: items without a sold count pass for collected ones.
VerdictIgnoringPartial(n) == IF n.failed > 0 THEN "FAILED" ELSE "COMPLETED"

Verdict(n) ==
  IF n.failed > 0 /\ n.succeeded = 0 /\ n.partial = 0 THEN "FAILED"
  ELSE IF n.failed > 0 \/ n.partial > 0 THEN "PARTIAL"
  ELSE "COMPLETED"

\* Faulty: the run is over when nothing is pending.
PhaseByPending(r, st, items) ==
  IF Having(items, "PENDING") = {} THEN "COMPLETED"
  ELSE IF r.phase = "STORE_DISCOVERY" /\ StoresDone(st) THEN "PRODUCT_COLLECTION"
  ELSE r.phase

AdvancedPhase(r, st, items) ==
  IF Open(items) = {} THEN "COMPLETED"
  ELSE IF r.phase = "STORE_DISCOVERY" /\ StoresDone(st) THEN "PRODUCT_COLLECTION"
  ELSE r.phase

AdvancedRun(r, st, due) ==
  LET items == AdvancedItems(r, st, due)
  IN  IF Paused(st)
      THEN [r EXCEPT !.status = "NEEDS_VERIFICATION", !.counts = Counts(st)]
      ELSE [r EXCEPT
              !.paused = FALSE,
              !.phase  = AdvancedPhase(r, st, items),
              !.counts = Counts(items),
              !.status = IF Open(items) = {} THEN Verdict(Counts(items))
                         ELSE IF r.started THEN "RUNNING" ELSE "PENDING"]

\* Faulty: the run is advanced without refreshing its counts.
AdvanceUncounted(d, r, st, due) ==
  /\ run' = [run EXCEPT ![d] = [AdvancedRun(r, st, due) EXCEPT !.counts = r.counts]]
  /\ status' = [status EXCEPT ![d] = AdvancedItems(r, st, due)]

Advance(d, r, st, due) ==
  /\ run' = [run EXCEPT ![d] = AdvancedRun(r, st, due)]
  /\ status' = [status EXCEPT ![d] = AdvancedItems(r, st, due)]

-----------------------------------------------------------------------------
(* Creating the run of a day, and handing out its items.                    *)

\* ensure_browser_collection_run for a day that has no run: the scheduler,
\* the dashboard's button (any date), a heartbeat or a claim (today).
Ensure(d) ==
  /\ run[d].status = "NONE"
  /\ Advance(d, NewRun,
             [t \in Target |-> IF t \in openStores THEN "PENDING" ELSE "NONE"],
             Due(active, valid[d]))
  /\ UNCHANGED <<day, pool, valid, attempts, lease, challenges>>

\* Faulty: one attempt too many.
ExhaustedLate(n) == n > 2

Exhausted(n) == n >= 2

\* Faulty: every item in a worker's hands is taken back, or none ever is.
LostAtOnce(d, t) == status[d][t] = "RUNNING"
NeverLost(d, t)  == FALSE

Lost(d, t) == status[d][t] = "RUNNING" /\ lease[d][t] = "expired"

\* The items of a run after claim_next_item has taken back expired leases.
SweptItems(d) ==
  [t \in Target |-> IF ~Lost(d, t) THEN status[d][t]
                    ELSE IF Exhausted(attempts[d][t]) THEN "FAILED"
                    ELSE "PENDING"]
SweptLeases(d) ==
  [t \in Target |-> IF Lost(d, t) /\ ~Exhausted(attempts[d][t]) THEN "none"
                    ELSE lease[d][t]]

Kind(phase) == IF phase = "STORE_DISCOVERY" THEN Store ELSE Product

\* Faulty: the pause is not looked at.
ClaimableThoughPaused(r, items) == Kind(r.phase) \cap Having(items, "PENDING")

Claimable(r, items) ==
  IF r.status = "NEEDS_VERIFICATION" \/ r.phase = "COMPLETED" THEN {}
  ELSE Kind(r.phase) \cap Having(items, "PENDING")

First(ts) == {t \in ts : \A u \in ts : Position[t] <= Position[u]}

ClaimedRun(r) == [r EXCEPT !.status = "RUNNING", !.started = TRUE]

\* claim_next_item on today's run: expired leases are taken back, the run is
\* advanced, and the first pending item of the phase, if any, is handed out.
\* (The second _advance_run of the code, when nothing is pending, finds the
\* run the first one left and changes nothing.)
Claim ==
  LET st    == SweptItems(day)
      due   == Due(active, valid[day])
      r     == AdvancedRun(run[day], st, due)
      items == AdvancedItems(run[day], st, due)
      free  == Claimable(r, items)
  IN  /\ run[day].status # "NONE"
      /\ \/ /\ free = {}
            /\ Advance(day, run[day], st, due)
            /\ lease' = [lease EXCEPT ![day] = SweptLeases(day)]
            /\ UNCHANGED attempts
         \/ \E t \in First(free) :
              /\ run' = [run EXCEPT ![day] = ClaimedRun(r)]
              /\ status' = [status EXCEPT ![day] = [items EXCEPT ![t] = "RUNNING"]]
              /\ attempts' = [attempts EXCEPT ![day][t] = @ + 1]
              /\ lease' = [lease EXCEPT ![day] =
                             [SweptLeases(day) EXCEPT ![t] = "live"]]
      /\ UNCHANGED <<day, pool, valid, challenges>>

-----------------------------------------------------------------------------
(* What a worker reports about an item.                                     *)

Reportable(d, t) == status[d][t] \in ItemActive

\* finish_item, in the transaction that already holds the observation.
Finish(d, t, result, due) ==
  /\ Advance(d, run[d], [status[d] EXCEPT ![t] = result], due)
  /\ lease' = [lease EXCEPT ![d][t] = "none"]

\* Faulty: any answer counts as collected.
AlwaysSucceeded(sold) == "SUCCEEDED"

ProductResult(sold) == IF sold THEN "SUCCEEDED" ELSE "PARTIAL"

\* POST .../snapshot.  The extension sends no capture time, so the snapshot is
\* dated today, whatever day the item belongs to; it is VALID when the page
\* showed the number sold.
ProductAnswer(d, p) ==
  /\ Reportable(d, p)
  /\ \E sold \in BOOLEAN :
       /\ valid' = [valid EXCEPT ![day] = IF sold THEN @ \cup {p} ELSE @]
       /\ Finish(d, p, ProductResult(sold), Due(active, valid'[d]))
  /\ UNCHANGED <<day, pool, attempts, challenges>>

\* _save_store_observation: products seen on the page are added or, unless
\* they were added by hand, put back; those not seen are dropped.
PoolAfter(s, seen, links) ==
  LET found == {p \in seen : source[p] # "manual"}
      gone  == {p \in Product : StoreOf[p] = s /\ source[p] = "auto" /\ p \notin seen}
  IN  (active \cup found) \ (IF links THEN gone ELSE {})

\* POST .../store-discovery.  "links": the page had at least one product link;
\* links whose URL belongs to another product are skipped, so "seen" may still
\* be empty.  "sold": the products shown with the number sold.
StoreAnswer(d, s) ==
  /\ Reportable(d, s)
  /\ s \in openStores
  /\ \E seen \in SUBSET {p \in Product : StoreOf[p] = s}, links \in BOOLEAN :
       /\ seen # {} => links
       /\ source' = [p \in Product |->
                       IF p \in seen /\ source[p] = "none" THEN "auto" ELSE source[p]]
       /\ active' = PoolAfter(s, seen, links)
       /\ \E sold \in SUBSET seen : valid' = [valid EXCEPT ![day] = @ \cup sold]
       /\ Finish(d, s, IF links THEN "SUCCEEDED" ELSE "FAILED", Due(active', valid'[d]))
  /\ UNCHANGED <<day, openStores, attempts, challenges>>

\* Faulty: a status the rest of the code does not know.
RequeuedMisspelt == "QUEUED"

\* The item's row after a failure that leaves it another attempt.
Requeued == "PENDING"

\* POST .../failure, first attempt: back to the queue, the run not advanced.
FailureRetried(d, t) ==
  /\ Reportable(d, t)
  /\ ~Exhausted(attempts[d][t])
  /\ status' = [status EXCEPT ![d][t] = Requeued]
  /\ lease' = [lease EXCEPT ![d][t] = "none"]
  /\ run' = [run EXCEPT ![d].counts = Counts(status'[d])]
  /\ UNCHANGED <<day, pool, valid, attempts, challenges>>

\* POST .../failure after the last attempt.
FailureFinal(d, t) ==
  /\ Reportable(d, t)
  /\ Exhausted(attempts[d][t])
  /\ Finish(d, t, "FAILED", Due(active, valid[d]))
  /\ UNCHANGED <<day, pool, valid, attempts, challenges>>

\* Faulty: pausing an item leaves its lease running.
LeaseKeptByPaused == "live"

LeaseOfPaused == "none"

\* POST .../challenge: the item, and with it the whole run, waits for a person.
Challenge(d, t) ==
  /\ Reportable(d, t)
  /\ challenges[d][t] < MaxChallenges
  /\ status' = [status EXCEPT ![d][t] = "NEEDS_VERIFICATION"]
  /\ lease' = [lease EXCEPT ![d][t] = LeaseOfPaused]
  /\ run' = [run EXCEPT ![d].status = "NEEDS_VERIFICATION", ![d].paused = TRUE,
                        ![d].counts = Counts(status'[d])]
  /\ challenges' = [challenges EXCEPT ![d][t] = @ + 1]
  /\ UNCHANGED <<day, pool, valid, attempts>>

\* Faulty: resuming gives every item that did not succeed another go.
ReleasedToo(st) ==
  [t \in Target |-> IF st[t] \in {"NEEDS_VERIFICATION", "PARTIAL", "FAILED"}
                    THEN "PENDING" ELSE st[t]]

Released(st) ==
  [t \in Target |-> IF st[t] = "NEEDS_VERIFICATION" THEN "PENDING" ELSE st[t]]

\* Faulty: the reason of the pause is not cleared.
ResumedStillPaused(r) == [r EXCEPT !.status = "RUNNING"]

ResumedRun(r) == [r EXCEPT !.status = "RUNNING", !.paused = FALSE]

\* POST .../runs/{id}/resume: a person says the verification is done.
Resume(d) ==
  /\ run[d].status = "NEEDS_VERIFICATION"
  /\ status' = [status EXCEPT ![d] = Released(status[d])]
  /\ lease' = [lease EXCEPT ![d] = [t \in Target |->
                 IF status[d][t] = "NEEDS_VERIFICATION" THEN "none" ELSE lease[d][t]]]
  /\ run' = [run EXCEPT ![d] = ResumedRun(run[d])]
  /\ UNCHANGED <<day, pool, valid, attempts, challenges>>

-----------------------------------------------------------------------------
(* Time, and the rest of the system: other channels that store snapshots,   *)
(* and people who edit what is monitored.                                   *)

\* Two minutes pass without an answer to a claim.
LeaseExpires(d, t) ==
  /\ lease[d][t] = "live"
  /\ lease' = [lease EXCEPT ![d][t] = "expired"]
  /\ UNCHANGED <<day, pool, valid, run, status, attempts, challenges>>

\* Midnight, Asia/Shanghai.
NewDay ==
  /\ day < LastDay
  /\ day' = day + 1
  /\ UNCHANGED <<pool, valid, run, status, attempts, lease, challenges>>

\* A VALID snapshot from a person's own Chrome, the manual form or HTTP.
SnapshotElsewhere(p) ==
  /\ source[p] # "none"
  /\ valid' = [valid EXCEPT ![day] = @ \cup {p}]
  /\ UNCHANGED <<day, pool, run, status, attempts, lease, challenges>>

\* create_product
AddProduct(p) ==
  /\ source[p] = "none"
  /\ StoreOf[p] \in openStores
  /\ source' = [source EXCEPT ![p] = "manual"]
  /\ active' = active \cup {p}
  /\ UNCHANGED <<day, openStores, valid, run, status, attempts, lease, challenges>>

\* update_product, deactivate_product
SwitchProduct(p) ==
  /\ source[p] # "none"
  /\ active' \in {active \cup {p}, active \ {p}}
  /\ UNCHANGED <<day, source, openStores, valid, run, status, attempts, lease, challenges>>

\* update_store, deactivate_store
SwitchStore(s) ==
  /\ openStores' \in {openStores \cup {s}, openStores \ {s}}
  /\ UNCHANGED <<day, source, active, valid, run, status, attempts, lease, challenges>>

Report(d) ==
  \/ \E p \in Product : ProductAnswer(d, p)
  \/ \E s \in Store : StoreAnswer(d, s)
  \/ \E t \in Target : \/ FailureRetried(d, t)
                       \/ FailureFinal(d, t)
                       \/ Challenge(d, t)

Environment ==
  \/ NewDay
  \/ \E d \in Day, t \in Target : LeaseExpires(d, t)
  \/ \E p \in Product : SnapshotElsewhere(p) \/ AddProduct(p) \/ SwitchProduct(p)
  \/ \E s \in Store : SwitchStore(s)

Next ==
  \/ \E d \in Day : Ensure(d) \/ Report(d) \/ Resume(d)
  \/ Claim
  \/ Environment

Spec == Init /\ [][Next]_vars

\* A Chrome in worker mode polls every half minute, leases run out by the
\* clock, and a person does answer a pause; no answer to a claim is assumed.
Fairness ==
  /\ WF_vars(Claim)
  /\ \A d \in Day : WF_vars(Resume(d))
  /\ \A d \in Day, t \in Target : WF_vars(LeaseExpires(d, t))

FairSpec == Spec /\ Fairness

-----------------------------------------------------------------------------
(* Safety                                                                   *)

\* A run is reported complete exactly when none of its items is pending, with
\* a worker or waiting for a person: no run stays open with nothing to do, none
\* closes on a worker (_advance_run is called by every handler that ends an item).
RunOpenIffWorkLeft ==
  \A d \in Day : run[d].status # "NONE" =>
    (run[d].phase = "COMPLETED" <=>
       \A t \in Target : status[d][t] \notin {"PENDING", "RUNNING", "NEEDS_VERIFICATION"})

\* The final status of a run can be believed: COMPLETED only when every item
\* succeeded, FAILED only when something failed and nothing was collected.
VerdictIsHonest ==
  \A d \in Day :
    /\ run[d].status = "COMPLETED" =>
         \A t \in Target : status[d][t] \in {"NONE", "SUCCEEDED"}
    /\ run[d].status = "FAILED" =>
         /\ \E t \in Target : status[d][t] = "FAILED"
         /\ \A t \in Target : status[d][t] \in {"NONE", "FAILED"}

\* The stored counters that the dashboard shows are those of the items, after
\* every handler, whichever of them calls _refresh_counts and when.
CountsMatchItems ==
  \A d \in Day : run[d].status # "NONE" => run[d].counts = Counts(status[d])

\* status and paused_reason say the same, and an item that waits for a person
\* always has its run paused: otherwise nothing would ask the person to act.
PauseIsVisible ==
  \A d \in Day :
    /\ run[d].paused <=> run[d].status = "NEEDS_VERIFICATION"
    /\ Having(status[d], "NEEDS_VERIFICATION") # {} => run[d].paused

\* Products are queued only after the last store item is over and no store item
\* is reopened then: the day's pool is the one the stores showed.
StoresBeforeProducts ==
  \A d \in Day :
    (\E p \in Product : status[d][p] # "NONE") =>
      \A s \in Store : status[d][s] \in ItemTerminal \cup {"NONE"}

\* An item in a worker's hands has a lease, so that a lost worker is noticed; a
\* lease still ahead is only ever that of an item in a worker's hands.
LeaseGuardsRunning ==
  \A d \in Day, t \in Target :
    /\ status[d][t] = "RUNNING" => lease[d][t] # "none"
    /\ lease[d][t] = "live" => status[d][t] = "RUNNING"

\* An item is tried twice, and once more for each verification page it met
\* (resume_run hands a paused item out again whatever its attempt_count).
AttemptsBounded ==
  \A d \in Day, t \in Target : attempts[d][t] <= 2 + challenges[d][t]

\* A product item marked SUCCEEDED left a VALID snapshot of its product, dated
\* that day or, when the answer came after midnight, a later one.
SuccessHasSnapshot ==
  \A d \in Day, p \in Product :
    status[d][p] = "SUCCEEDED" => \E e \in d .. LastDay : p \in valid[e]

-----------------------------------------------------------------------------
(* What a step may never do                                                 *)

\* An item that is over is never queued, claimed or answered again.
TerminalItemsStay ==
  [][\A d \in Day, t \in Target :
       status[d][t] \in ItemTerminal => status'[d][t] = status[d][t]]_vars

\* A run that is complete stays as it was reported: no late answer, resume,
\* claim or change of the pool reopens it or rewrites its verdict.
CompleteRunStays ==
  [][\A d \in Day :
       run[d].phase = "COMPLETED" => run'[d] = run[d] /\ status'[d] = status[d]]_vars

\* While an item of a run waits for a person, no item of it is handed out.
QuietWhilePaused ==
  [][\A d \in Day : Paused(status[d]) => attempts'[d] = attempts[d]]_vars

\* An item whose lease is ahead is not handed to a second worker.
LiveLeaseIsExclusive ==
  [][\A d \in Day, t \in Target :
       lease[d][t] = "live" => attempts'[d][t] = attempts[d][t]]_vars

\* What an item may still cost: four steps (handed out, lease run out, taken
\* back, listed) for each attempt left, one for each verification page not yet
\* met, and the steps left of the state it is in.
StepsLeft(s, l) ==
  CASE s \in ItemTerminal                   -> 0
    [] s = "PENDING"                        -> 1
    [] s \in {"NONE", "NEEDS_VERIFICATION"} -> 2
    [] s = "RUNNING"                        -> IF l = "live" THEN 4 ELSE 3

EffortOf(s, l, n, c) ==
  4 * (2 + MaxChallenges - n) + (MaxChallenges - c) + StepsLeft(s, l)

Effort(d) ==
  SumFunctionOnSet(
    [t \in Target |->
       EffortOf(status[d][t], lease[d][t], attempts[d][t], challenges[d][t])],
    Target)

\* Retries, taken back leases, pauses and resumes, in whatever order they come,
\* wear a run out: every step that does anything to its items lowers what they
\* may still cost, so that no run keeps workers busy for ever.
EffortRunsDown ==
  [][\A d \in Day :
       \/ UNCHANGED <<status[d], attempts[d], lease[d], challenges[d]>>
       \/ Effort(d)' < Effort(d)]_vars

-----------------------------------------------------------------------------
(* Liveness                                                                 *)

\* Today's run comes to an end, or the day does, even if no worker ever
\* answers a claim.
TodayCompletes ==
  \A d \in Day :
    (day = d /\ run[d].status # "NONE") ~> (run[d].phase = "COMPLETED" \/ day # d)

\* README.md: after a verification, "done, continue the task" on the dashboard.
VerifiedRunContinues ==
  \A d \in Day : run[d].status = "NEEDS_VERIFICATION" ~> run[d].phase = "COMPLETED"

-----------------------------------------------------------------------------
(* The ledger the queue implements                                          *)

WorkStateOf(s) ==
  CASE s = "NONE"               -> "unlisted"
    [] s = "PENDING"            -> "todo"
    [] s = "RUNNING"            -> "doing"
    [] s = "NEEDS_VERIFICATION" -> "held"
    [] OTHER                    -> "done"

Ledger == INSTANCE WorkLedger WITH
  planned <- {d \in Day : run[d].status # "NONE"},
  closed  <- {d \in Day : run[d].status # "NONE" /\ run[d].phase = "COMPLETED"},
  work    <- [d \in Day |-> [t \in Target |-> WorkStateOf(status[d][t])]]

\* Seen without attempts, leases and counters, the queue keeps the promise of
\* WorkLedger.
ImplementsLedger == Ledger!LedgerSpec
=============================================================================
