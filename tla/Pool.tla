-------------------------------- MODULE Pool --------------------------------
(***************************************************************************)
(* The pool of monitored products and what is collected for it on a day:   *)
(* store pages over HTTP (services/store_discovery.py) and from the        *)
(* extension (router._save_store_observation), products added and switched *)
(* by hand, snapshots with their attempts and manual tasks                 *)
(* (services/snapshots.py), the collection passes of scheduler.py and      *)
(* collection_runs.py, and the day's counts the dashboard shows.           *)
(*                                                                         *)
(* A product is a row that may come to exist: a store and an AliExpress    *)
(* id.  Rows of one id in two stores are twins.  URLs are unique among all *)
(* rows; two twins have the same URL or not, according to how each page    *)
(* spelt it, so a new row of an id that another store has may clash.       *)
(***************************************************************************)
EXTENDS Naturals, FiniteSets

CONSTANTS
  Store, Product,
  StoreOf,    \* the store of each product
  IdOf,       \* its AliExpress id
  LastDay,    \* bound on days
  MaxEvents   \* bound on edits, store pages and snapshots

ASSUME StoreOfAssumption == StoreOf \in [Product -> Store]
ASSUME BoundAssumption   == LastDay \in Nat \ {0} /\ MaxEvents \in Nat

VARIABLES
  open,     \* active stores
  status,   \* Product.status, "absent" before the row exists
  found,    \* products whose discovery_source is a store page
  task,     \* ManualCollectionTask.status
  closed,   \* tasks whose completed_at lies on the current day
  log,      \* product -> kinds of snapshot captured on the current day
  run,      \* the day has a browser collection run
  pass,     \* the collection pass under way
  day,
  listed,   \* store -> products of its last page that was taken over (history)
  touched,  \* products switched by a person since that page (history)
  nightly,  \* today's scheduled pass: due, started, ended (history)
  events    \* edits, pages and snapshots so far (bound)

vars == <<open, status, found, task, closed, log, run, pass, day,
          listed, touched, nightly, events>>

\* Snapshots by source and status.  Only the HTTP collector can fail: the other
\* channels bring a number, or a page without it.
Kind == ({"AUTO"} \X {"VALID", "SUSPECT", "FAILED"})
          \cup ({"OTHER"} \X {"VALID", "SUSPECT"})
FailedAuto == <<"AUTO", "FAILED">>

\* run_scheduled_collection and run_collection_cycle: stores still to visit,
\* products still to fetch.
Pass   == [step : {"none", "stores", "products", "fallback"}, scheduled : BOOLEAN,
           stores : SUBSET Store, products : SUBSET Product]
NoPass == [step |-> "none", scheduled |-> FALSE, stores |-> {}, products |-> {}]

TypeOK ==
  /\ open \subseteq Store
  /\ status \in [Product -> {"absent", "active", "inactive"}]
  /\ found \subseteq Product
  /\ task \in [Product -> {"none", "PENDING", "COMPLETED"}]
  /\ closed \subseteq Product
  /\ log \in [Product -> SUBSET Kind]
  /\ run \in BOOLEAN
  /\ pass \in Pass
  /\ day \in 1 .. LastDay
  /\ listed \in [Store -> SUBSET Product]
  /\ touched \subseteq Product
  /\ nightly \in {"due", "started", "ended"}
  /\ events \in 0 .. MaxEvents

Init ==
  /\ open = Store
  /\ status = [p \in Product |-> "absent"]
  /\ found = {}
  /\ task = [p \in Product |-> "none"]
  /\ closed = {}
  /\ log = [p \in Product |-> {}]
  /\ run = FALSE
  /\ pass = NoPass
  /\ day = 1
  /\ listed = [s \in Store |-> {}]
  /\ touched = {}
  /\ nightly = "due"
  /\ events = 0

Of(s)     == {p \in Product : StoreOf[p] = s}
Exists    == {p \in Product : status[p] # "absent"}
Active    == {p \in Product : status[p] = "active"}
Monitored == {p \in Active : StoreOf[p] \in open}
Twins(p)  == {q \in Product \ {p} : IdOf[q] = IdOf[p]}

Has(p, source, statuses) == \E k \in log[p] : k[1] = source /\ k[2] \in statuses
Valid(p)                 == Has(p, "AUTO", {"VALID"}) \/ Has(p, "OTHER", {"VALID"})

Event == events < MaxEvents /\ events' = events + 1

-----------------------------------------------------------------------------
(* Snapshots                                                                *)

\* Faulty: any good result closes the task.
SyncedByAny(was, kind) ==
  CASE kind = FailedAuto -> "PENDING"
    [] kind # FailedAuto /\ was # "none" -> "COMPLETED"
    [] OTHER -> was

\* Faulty: a status the column does not allow.
SyncedMisspelt(was, kind) ==
  CASE kind = FailedAuto -> "PENDING"
    [] kind[1] = "OTHER" /\ was # "none" -> "DONE"
    [] OTHER -> was

\* _sync_manual_task: a failed automatic attempt opens the product's task, a
\* result of another channel closes it.
Synced(was, kind) ==
  CASE kind = FailedAuto -> "PENDING"
    [] kind[1] = "OTHER" /\ was # "none" -> "COMPLETED"
    [] OTHER -> was

\* _save_snapshot_result for the products of kinds, a function to their kinds.
Save(kinds) ==
  LET ps == DOMAIN kinds
  IN  /\ log'  = [p \in Product |-> IF p \in ps THEN log[p] \cup {kinds[p]} ELSE log[p]]
      /\ task' = [p \in Product |-> IF p \in ps THEN Synced(task[p], kinds[p]) ELSE task[p]]
      /\ closed' = (closed \ {p \in ps : kinds[p] = FailedAuto})
                     \cup {p \in ps : kinds[p][1] = "OTHER" /\ task[p] # "none"}

\* A page that shows the products ps, each with its number sold or without.
Shown(source, ps) == [ps -> {source} \X {"VALID", "SUSPECT"}]

-----------------------------------------------------------------------------
(* Store pages                                                              *)

\* Faulty: whatever its source, a product off the page is switched off.
DroppedAll(s, page) == (Of(s) \cap Active) \ page

\* Found products that the page no longer shows.
Dropped(s, page) == (Of(s) \cap found \cap Active) \ page

\* New products of the page whose URL may belong to a row of another store.
Clashing(page) == {p \in page \ Exists : Twins(p) \cap Exists # {}}

\* Faulty: a product that comes back to the page stays switched off.
SwitchedOnNew(page, new) == new

\* Products that are monitored again, or from now on.
SwitchedOn(page, new) == new \cup (page \cap found \cap Exists)

\* The rows after a page of s; skip are the products not taken over.
TakeOver(s, page, skip) ==
  LET new == page \ (Exists \cup skip)
      on  == SwitchedOn(page, new)
  IN  /\ status' = [p \in Product |-> IF p \in on THEN "active"
                                      ELSE IF p \in Dropped(s, page) THEN "inactive"
                                      ELSE status[p]]
      /\ found' = found \cup new
      /\ listed' = [listed EXCEPT ![s] = page]
      /\ touched' = touched \ Of(s)

\* _save_store_observation: products with a foreign URL are left out.
ExtensionPage(s, page) ==
  /\ s \in open /\ page # {}
  /\ Event
  /\ \E skip \in SUBSET Clashing(page) :
       /\ TakeOver(s, page, skip)
       /\ \E kinds \in Shown("OTHER", page \ skip) : Save(kinds)
  /\ UNCHANGED <<open, run, pass, day, nightly>>

\* discover_store_products over HTTP, up to its commit: no page, or one whose
\* products are all new or known.
HttpPage(s, page) ==
  IF page = {}
  THEN UNCHANGED <<status, found, task, closed, log, listed, touched, events>>
  ELSE /\ Event
       /\ TakeOver(s, page, {})
       /\ \E kinds \in Shown("AUTO", page) : Save(kinds)

\* The endpoint; a URL that clashes is an error and leaves nothing behind.
DiscoverStore(s, page) ==
  /\ s \in open /\ page # {}
  /\ HttpPage(s, page)
  /\ UNCHANGED <<open, run, pass, day, nightly>>

-----------------------------------------------------------------------------
(* People and workers                                                       *)

\* create_product, unless its URL clashes.
CreateProduct(p) ==
  /\ StoreOf[p] \in open
  /\ status[p] = "absent"
  /\ Event
  /\ status' = [status EXCEPT ![p] = "active"]
  /\ UNCHANGED <<open, found, task, closed, log, run, pass, day, listed, touched, nightly>>

\* update_product, deactivate_product
SwitchProduct(p) ==
  /\ status[p] # "absent"
  /\ Event
  /\ status' = [status EXCEPT ![p] = IF @ = "active" THEN "inactive" ELSE "active"]
  /\ touched' = touched \cup {p}
  /\ UNCHANGED <<open, found, task, closed, log, run, pass, day, listed, nightly>>

\* update_store, deactivate_store
SwitchStore(s) ==
  /\ Event
  /\ open' = IF s \in open THEN open \ {s} ELSE open \cup {s}
  /\ UNCHANGED <<status, found, task, closed, log, run, pass, day, listed, touched, nightly>>

\* _find_extension_product: the page's id must name one monitored product.
Accepted(p) == p \in Monitored /\ Twins(p) \cap Monitored = {}

\* Product pages read by a person's browser or typed in, or by the worker for
\* an item of the run, whatever became of the product.
Observe(p) ==
  /\ Accepted(p) \/ (run /\ p \in Exists)
  /\ Event
  /\ \E kinds \in Shown("OTHER", {p}) : Save(kinds)
  /\ UNCHANGED <<open, status, found, run, pass, day, listed, touched, nightly>>

\* ensure_browser_collection_run, asked for by a worker or a person.
EnsureRun ==
  /\ ~run
  /\ run' = TRUE
  /\ UNCHANGED <<open, status, found, task, closed, log, pass, day, listed, touched,
                 nightly, events>>

-----------------------------------------------------------------------------
(* Collection passes                                                        *)

\* run_collection_cycle: what is to be fetched, decided once.
Wanted(scheduled) == IF scheduled THEN {p \in Monitored : ~Valid(p)} ELSE Monitored

\* At night; the stores are read once.
ScheduledPass ==
  /\ pass = NoPass /\ nightly = "due"
  /\ pass' = [NoPass EXCEPT !.step = "stores", !.scheduled = TRUE, !.stores = open]
  /\ nightly' = "started"
  /\ UNCHANGED <<open, status, found, task, closed, log, run, day, listed, touched, events>>

\* collect_all_now, and collect_product for one.
ButtonPass(ps) ==
  /\ pass = NoPass
  /\ ps = Wanted(FALSE) \/ \E p \in Active : ps = {p}
  /\ pass' = [NoPass EXCEPT !.step = "products", !.products = ps]
  /\ UNCHANGED <<open, status, found, task, closed, log, run, day, listed, touched,
                 nightly, events>>

PassDiscovers(s, page) ==
  /\ pass.step = "stores" /\ s \in pass.stores
  /\ HttpPage(s, page)
  /\ pass' = [pass EXCEPT !.stores = @ \ {s}]
  /\ UNCHANGED <<open, run, day, nightly>>

PassLists ==
  /\ pass.step = "stores" /\ pass.stores = {}
  /\ pass' = [pass EXCEPT !.step = "products", !.products = Wanted(TRUE)]
  /\ UNCHANGED <<open, status, found, task, closed, log, run, day, listed, touched,
                 nightly, events>>

\* collect_product_snapshot; a collector that throws is a failed attempt.
PassFetches(p) ==
  /\ pass.step = "products" /\ p \in pass.products
  /\ Event
  /\ \E kinds \in [{p} -> {"AUTO"} \X {"VALID", "SUSPECT", "FAILED"}] : Save(kinds)
  /\ pass' = [pass EXCEPT !.products = @ \ {p}]
  /\ UNCHANGED <<open, status, found, run, day, listed, touched, nightly>>

\* Faulty: what cut the pass short also keeps the browser run from being queued.
AfterPassIfDone(done) ==
  IF pass.scheduled /\ done THEN [NoPass EXCEPT !.step = "fallback", !.scheduled = TRUE]
  ELSE NoPass

\* The scheduled job queues the browser run, whether its pass was done or not.
AfterPass(done) ==
  IF pass.scheduled THEN [NoPass EXCEPT !.step = "fallback", !.scheduled = TRUE] ELSE NoPass

PassEnds(done) ==
  /\ pass' = AfterPass(done)
  /\ nightly' = IF pass.scheduled /\ pass' = NoPass THEN "ended" ELSE nightly
  /\ UNCHANGED <<open, status, found, task, closed, log, run, day, listed, touched, events>>

PassDone == pass.step = "products" /\ pass.products = {} /\ PassEnds(TRUE)

\* An exception: a store page with a URL of another store's product, on which
\* the flush fails outside the function's own handler, or any other.
PassAborts == pass.step \in {"stores", "products"} /\ PassEnds(FALSE)

\* ensure_browser_collection_run at the end of the scheduled job.
PassQueues ==
  /\ pass.step = "fallback"
  /\ run' = TRUE
  /\ pass' = NoPass
  /\ nightly' = "ended"
  /\ UNCHANGED <<open, status, found, task, closed, log, day, listed, touched, events>>

\* The process stops, or the database fails when the run is to be queued.
PassCrashes ==
  /\ pass # NoPass
  /\ pass' = NoPass
  /\ UNCHANGED <<open, status, found, task, closed, log, run, day, listed, touched,
                 nightly, events>>

\* The job starts at two in the morning and is over before midnight.
NewDay ==
  /\ day < LastDay /\ pass = NoPass
  /\ day' = day + 1
  /\ log' = [p \in Product |-> {}]
  /\ closed' = {}
  /\ run' = FALSE
  /\ nightly' = "due"
  /\ UNCHANGED <<open, status, found, task, pass, listed, touched, events>>

Next ==
  \/ \E s \in Store : \E page \in SUBSET Of(s) :
       ExtensionPage(s, page) \/ DiscoverStore(s, page) \/ PassDiscovers(s, page)
  \/ \E p \in Product :
       CreateProduct(p) \/ SwitchProduct(p) \/ Observe(p) \/ PassFetches(p)
  \/ \E s \in Store : SwitchStore(s)
  \/ \E ps \in SUBSET Product : ButtonPass(ps)
  \/ EnsureRun \/ ScheduledPass \/ PassLists \/ PassDone \/ PassAborts
  \/ PassQueues \/ PassCrashes \/ NewDay

Spec == Init /\ [][Next]_vars

-----------------------------------------------------------------------------
(* The day's counts (collection_status_today)                               *)

\* Faulty: only the tasks closed today count.
ManualByTasks == closed

ManualCompleted == {p \in Product : Has(p, "OTHER", {"VALID", "SUSPECT"})} \cup closed

-----------------------------------------------------------------------------
(* Properties                                                               *)

\* README.md:113: products found by themselves that left the page are switched
\* off.  However pages of the two channels, failed and aborted ones, edits and
\* crashes follow each other: a found product that nobody switched since is
\* monitored exactly when the last page of its store that was taken over
\* shows it.
PoolIsLastPage ==
  \A p \in found \ touched : p \in Active <=> p \in listed[StoreOf[p]]

\* README.md:113: no store page, HTTP or extension, switches off a product that
\* was added by hand; only a person does.
ManualStays ==
  [][ \A p \in Active \ found : p \notin Active' => p \in touched' ]_vars

\* The manual tasks tell who is waited for: a product whose fetch failed today
\* and that no other channel brought a result for is open for a person, though
\* store pages or later fetches may have succeeded; and a task closed today
\* rests on such a result.
TasksFollowAttempts ==
  \A p \in Product :
    LET byHand == Has(p, "OTHER", {"VALID", "SUSPECT"})
    IN  /\ FailedAuto \in log[p] /\ ~byHand => task[p] = "PENDING"
        /\ p \in closed => task[p] = "COMPLETED" /\ byHand

\* What people completed today stays counted, though a later automatic failure
\* opens the task again.
ManualWorkStaysCounted ==
  [][ day' = day => ManualCompleted \subseteq ManualCompleted' ]_vars

\* scheduler.py, "browser fallback will still be queued": however the nightly
\* pass ended, the day has a browser run for what it left out.
FallbackQueued == nightly = "ended" => run

\* router.py:147 answers an id that several products have with "please use the
\* manual channel": so a product of an active store that waits for a person can
\* be entered there.
PendingCanBeCompleted ==
  \A p \in Monitored : task[p] = "PENDING" => Accepted(p)

=============================================================================
