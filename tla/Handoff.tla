------------------------------- MODULE Handoff -------------------------------
(***************************************************************************)
(* Handing monitored products over to Dianxiaomi: the rows of              *)
(* dianxiaomi_handoffs (app/services/dianxiaomi.py and the endpoints of    *)
(* app/api/router.py) and the Chrome profiles that work on them            *)
(* (pollDianxiaomiHandoffs of extension/background.js, submitLinks of      *)
(* extension/dianxiaomi_bridge.js).                                        *)
(*                                                                         *)
(* No handler locks a row.  A request therefore is two steps: it reads the *)
(* table and decides what to write (the browser's or the person's action), *)
(* and it commits (Commit) only the columns whose value it changed, as     *)
(* SQLAlchemy does.  Overlap says whether two requests may be under way at *)
(* the same time; without it the table behaves as if handlers were atomic. *)
(* SlowBrowser says whether a browser may outlast its ten minute lease     *)
(* (a sleeping laptop) or only lose it by stopping.                        *)
(*                                                                         *)
(* A column is a variable, a row is an id.  error_*, opened_at and         *)
(* completed_at are never read by a handler and are left out.              *)
(***************************************************************************)
EXTENDS Naturals, FiniteSets

CONSTANTS
  Browser,      \* Chrome profiles in worker mode
  Person,       \* people at the dashboard
  Product,      \* monitored products (active, of active stores)
  WorkerId,     \* the worker_id each browser sends
  None,         \* NULL
  Overlap,      \* requests of different actors may be under way together
  SlowBrowser,  \* a browser may still work on a handoff after ten minutes
  MaxHandoffs,  \* bound: rows that are ever inserted
  MaxTroubles   \* bound: crashes, lost reports, page refusals, resumptions

Actor   == Browser \cup Person
Handoff == 1 .. MaxHandoffs
Worker  == {WorkerId[b] : b \in Browser}

ASSUME ActorAssumption   == Browser \cap Person = {}
ASSUME ProductAssumption == IsFiniteSet(Product)
ASSUME WorkerAssumption  == None \notin Product /\ None \notin Worker
ASSUME SwitchAssumption  == Overlap \in BOOLEAN /\ SlowBrowser \in BOOLEAN
ASSUME BoundAssumption   == MaxHandoffs \in Nat /\ MaxTroubles \in Nat

LEASED_HANDOFF_STATUSES == {"CLAIMED", "OPENED"}
ACTIVE_HANDOFF_STATUSES == {"QUEUED", "NEEDS_CONFIRMATION"} \cup LEASED_HANDOFF_STATUSES
Ended  == {"SUCCEEDED", "FAILED", "CANCELED"}
Status == ACTIVE_HANDOFF_STATUSES \cup Ended \cup {"ABSENT"}
Lease  == {"none", "live", "past"}  \* claimed_at: NULL, within ten minutes, older
Phase  == {"idle", "looked", "asking", "claimed", "opening", "opened", "clicked",
           "reporting", "pausing"}

VARIABLES
  last,     \* the last id given to a row
  product,  \* id -> product_id
  status,   \* id -> status ("ABSENT": no such row, or not committed yet)
  claimed,  \* id -> claimed_at
  worker,   \* id -> worker_id
  req,      \* actor -> the request under way: the columns it will write
  phase,    \* browser -> where its poll is ("idle": no poll, dianxiaomiBusy false)
  hold,     \* browser -> the handoffs its poll was given
  need,     \* browser -> dianxiaomiNeedsConfirmation in its storage
  page,     \* browser -> its Dianxiaomi page can be used ("ready") or not
  clicked,  \* handoffs whose link was submitted on the page (history)
  troubles  \* troubles so far

table   == <<status, claimed, worker>>
browser == <<phase, hold, need>>
outside == <<page, clicked, troubles>>
vars    == <<last, product, table, req, browser, outside>>

Partial(S)  == UNION {[T -> S] : T \in SUBSET Handoff}
Request     == [status : Partial(Status), claimed : Partial(Lease),
                worker : Partial(Worker \cup {None}), taken : SUBSET Handoff]

TypeOK ==
  /\ last \in 0 .. MaxHandoffs
  /\ product \in [Handoff -> Product \cup {None}]
  /\ status \in [Handoff -> Status]
  /\ claimed \in [Handoff -> Lease]
  /\ worker \in [Handoff -> Worker \cup {None}]
  /\ req \in [Actor -> Request \cup {None}]
  /\ phase \in [Browser -> Phase]
  /\ hold \in [Browser -> SUBSET Handoff]
  /\ need \in [Browser -> BOOLEAN]
  /\ page \in [Browser -> {"ready", "blocked"}]
  /\ clicked \subseteq Handoff
  /\ troubles \in 0 .. MaxTroubles

Init ==
  /\ last = 0
  /\ product = [h \in Handoff |-> None]
  /\ status = [h \in Handoff |-> "ABSENT"]
  /\ claimed = [h \in Handoff |-> "none"]
  /\ worker = [h \in Handoff |-> None]
  /\ req = [a \in Actor |-> None]
  /\ phase = [b \in Browser |-> "idle"]
  /\ hold = [b \in Browser |-> {}]
  /\ need = [b \in Browser |-> FALSE]
  /\ page \in [Browser -> {"ready", "blocked"}]
  /\ clicked = {}
  /\ troubles = 0

-----------------------------------------------------------------------------
(* Requests                                                                 *)

Nothing == [h \in {} |-> None]

Over(f, g) == [h \in Handoff |-> IF h \in DOMAIN f THEN f[h] ELSE g[h]]

Free(a) == req[a] = None /\ (Overlap \/ \A c \in Actor : req[c] = None)

\* a's handler has read the table and will write r.
Send(a, r) ==
  /\ Free(a)
  /\ req' = [req EXCEPT ![a] = r]
  /\ UNCHANGED table

\* a's transaction commits; what other requests read meanwhile is now stale.
Commit(a) ==
  /\ req[a] # None
  /\ status' = Over(req[a].status, status)
  /\ claimed' = Over(req[a].claimed, claimed)
  /\ worker' = Over(req[a].worker, worker)
  /\ req' = [req EXCEPT ![a] = None]
  /\ UNCHANGED <<last, product>>

Trouble == troubles < MaxTroubles /\ troubles' = troubles + 1

-----------------------------------------------------------------------------
(* A person at the dashboard                                                *)

\* Faulty: a handoff that a browser has taken does not count.
ActiveIfQueued(p) == \E h \in Handoff : product[h] = p /\ status[h] = "QUEUED"

Active(p) == \E h \in Handoff : product[h] = p /\ status[h] \in ACTIVE_HANDOFF_STATUSES

\* create_handoff_batch: one new row for each product that has no active one.
\* Products that are not active are refused as a whole, without a trace.
Create(a, wanted) ==
  LET fresh == {p \in wanted : ~Active(p)}
      ids   == last + 1 .. last + Cardinality(fresh)
  IN  /\ fresh # {}
      /\ last + Cardinality(fresh) <= MaxHandoffs
      /\ last' = last + Cardinality(fresh)
      /\ \E f \in [ids -> fresh] :
           /\ \A p \in fresh : \E h \in ids : f[h] = p
           /\ product' = Over(f, product)
      /\ Send(a, [status |-> [h \in ids |-> "QUEUED"], claimed |-> Nothing,
                  worker |-> Nothing, taken |-> {}])
      /\ UNCHANGED <<browser, outside>>

\* cancel_dianxiaomi_handoff
Cancel(a, h) ==
  /\ status[h] \in ACTIVE_HANDOFF_STATUSES
  /\ Send(a, [status |-> [g \in {h} |-> "CANCELED"], claimed |-> Nothing,
              worker |-> Nothing, taken |-> {}])
  /\ UNCHANGED <<last, product, browser, outside>>

\* Faulty: the other queue's name for what waits.
ResumeAsPending(h) ==
  [status |-> [g \in {h} |-> "PENDING"], claimed |-> Nothing,
   worker |-> [g \in {x \in {h} : worker[x] # None} |-> None], taken |-> {}]

\* claimed_at keeps its value.
ResumeWrites(h) ==
  [status |-> [g \in {h} |-> "QUEUED"], claimed |-> Nothing,
   worker |-> [g \in {x \in {h} : worker[x] # None} |-> None], taken |-> {}]

\* resume_dianxiaomi_handoff
Resume(a, h) ==
  /\ status[h] \in {"NEEDS_CONFIRMATION", "FAILED"}
  /\ Send(a, ResumeWrites(h))
  /\ Trouble
  /\ UNCHANGED <<last, product, browser, page, clicked>>

Answered(a) ==
  /\ Commit(a)
  /\ UNCHANGED <<browser, outside>>

-----------------------------------------------------------------------------
(* A browser's poll                                                         *)

Become(b, p) == phase' = [phase EXCEPT ![b] = p]
Drop(b)      == hold' = [hold EXCEPT ![b] = {}]

\* The poll starts: it lists the handoffs and notes whether one of its own
\* waits for a confirmation.
Look(b) ==
  /\ phase[b] = "idle" /\ req[b] = None
  /\ Become(b, "looked")
  /\ need' = [need EXCEPT ![b] =
       @ \/ \E h \in Handoff : status[h] = "NEEDS_CONFIRMATION" /\ worker[h] = WorkerId[b]]
  /\ UNCHANGED <<last, product, table, req, hold, outside>>

\* A confirmation is due and the page is still not ready: the poll ends.
NotReady(b) ==
  /\ phase[b] = "looked" /\ need[b] /\ page[b] = "blocked"
  /\ Become(b, "idle")
  /\ UNCHANGED <<last, product, table, req, hold, need, outside>>

\* Faulty: every handoff in a browser's hands is taken back, or none ever is.
OutAtOnce == {h \in Handoff : status[h] \in LEASED_HANDOFF_STATUSES}
NeverOut  == {}

Expired ==
  {h \in Handoff : status[h] \in LEASED_HANDOFF_STATUSES /\ claimed[h] = "past"}

\* Handoffs that claim_handoff_batch first puts back into the queue.
PutBack(b) ==
  Expired \cup {h \in Handoff : /\ need[b]
                                /\ status[h] = "NEEDS_CONFIRMATION"
                                /\ worker[h] = WorkerId[b]}

Queue(b) == PutBack(b) \cup {h \in Handoff : status[h] = "QUEUED"}

\* limit 1, by requested_at and id: rows get both in the same order.
Taken(b) == {h \in Queue(b) : \A g \in Queue(b) : h <= g}

\* Faulty: the claim time is cleared, and not set again for what is taken.
ClearedTimes(b) == [h \in {g \in PutBack(b) : claimed[g] # "none"} |-> "none"]

ClaimTimes(b) ==
  [h \in Taken(b) \cup {g \in PutBack(b) : claimed[g] # "none"} |->
     IF h \in Taken(b) THEN "live" ELSE "none"]

\* What claim_handoff_batch writes, its two flushes before the commit included.
ClaimWrites(b) ==
  [status  |-> [h \in PutBack(b) \cup Taken(b) |->
                  IF h \in Taken(b) THEN "CLAIMED" ELSE "QUEUED"],
   claimed |-> ClaimTimes(b),
   worker  |-> [h \in {g \in PutBack(b) : worker[g] # None}
                      \cup {g \in Taken(b) : g \in PutBack(b) \/ worker[g] # WorkerId[b]} |->
                  IF h \in Taken(b) THEN WorkerId[b] ELSE None],
   taken   |-> Taken(b)]

\* The poll claims a handoff; its own paused ones come back into the queue if
\* the page has just been found ready.
Ask(b) ==
  /\ phase[b] = "looked"
  /\ need[b] => page[b] = "ready"
  /\ Become(b, "asking")
  /\ need' = [need EXCEPT ![b] = FALSE]
  /\ Send(b, ClaimWrites(b))
  /\ UNCHANGED <<last, product, hold, outside>>

Given(b) ==
  /\ phase[b] = "asking"
  /\ Commit(b)
  /\ hold' = [hold EXCEPT ![b] = req[b].taken]
  /\ Become(b, IF req[b].taken = {} THEN "idle" ELSE "claimed")
  /\ UNCHANGED <<need, outside>>

\* Faulty: a report is accepted whatever became of the handoff.
AcceptsAny(b, h) == worker[h] \in {None, WorkerId[b]}

Accepts(b, h) ==
  /\ status[h] \in ACTIVE_HANDOFF_STATUSES
  /\ worker[h] \in {None, WorkerId[b]}

\* What update_dianxiaomi_handoff_status writes for a report of b; refused
\* reports (409) write nothing and the extension ignores the refusal.
ReportWrites(b, s) ==
  [status  |-> [h \in {g \in hold[b] : Accepts(b, g) /\ status[g] # s} |-> s],
   claimed |-> Nothing,
   worker  |-> [h \in {g \in hold[b] : Accepts(b, g) /\ worker[g] = None} |-> WorkerId[b]],
   taken   |-> {}]

\* The Dianxiaomi window is there: the handoff is reported OPENED.
Open(b) ==
  /\ phase[b] = "claimed"
  /\ Become(b, "opening")
  /\ Send(b, ReportWrites(b, "OPENED"))
  /\ UNCHANGED <<last, product, hold, need, outside>>

Opened(b) ==
  /\ phase[b] = "opening"
  /\ Commit(b)
  /\ Become(b, "opened")
  /\ UNCHANGED <<hold, need, outside>>

\* submitLinks finds the page ready and clicks its start button.
Click(b) ==
  /\ phase[b] = "opened" /\ page[b] = "ready"
  /\ Become(b, "clicked")
  /\ clicked' = clicked \cup hold[b]
  /\ UNCHANGED <<last, product, table, req, hold, need, page, troubles>>

\* Faulty: a page that could be used counts as a success before the click.
OutcomesEager(b) ==
  {"FAILED", "SUCCEEDED"} \cup (IF page[b] = "blocked" THEN {"NEEDS_CONFIRMATION"} ELSE {})

\* What the poll may report at the end: anything can throw (FAILED), a page
\* that wants a person says so, and only a submitted link can succeed.
Outcomes(b) ==
  {"FAILED"}
    \cup (IF phase[b] # "claimed" /\ page[b] = "blocked" THEN {"NEEDS_CONFIRMATION"} ELSE {})
    \cup (IF phase[b] = "clicked" THEN {"SUCCEEDED"} ELSE {})

Conclude(b, s) ==
  /\ phase[b] \in {"claimed", "opened", "clicked"}
  /\ s \in Outcomes(b)
  /\ Become(b, IF s = "NEEDS_CONFIRMATION" THEN "pausing" ELSE "reporting")
  /\ Send(b, ReportWrites(b, s))
  /\ UNCHANGED <<last, product, hold, need, outside>>

\* The final report is in: the poll ends, and remembers that it waits for a
\* person.
Reported(b) ==
  /\ phase[b] \in {"reporting", "pausing"}
  /\ Commit(b)
  /\ Become(b, "idle") /\ Drop(b)
  /\ need' = [need EXCEPT ![b] = @ \/ phase[b] = "pausing"]
  /\ UNCHANGED outside

-----------------------------------------------------------------------------
(* Troubles                                                                 *)

\* The browser or its service worker stops; what it sent still arrives.
Crash(b) ==
  /\ phase[b] # "idle"
  /\ Become(b, "idle") /\ Drop(b)
  /\ Trouble
  /\ UNCHANGED <<last, product, table, req, need, page, clicked>>

Unheard(b) ==
  /\ phase[b] = "idle"
  /\ Commit(b)
  /\ UNCHANGED <<browser, outside>>

\* A claim or a report gets lost; of lost reports the poll learns nothing.
LoseOpened(b) ==
  /\ phase[b] = "claimed"
  /\ Become(b, "opened")
  /\ Trouble
  /\ UNCHANGED <<last, product, table, req, hold, need, page, clicked>>

LoseAsk(b) ==
  /\ phase[b] = "looked"
  /\ need[b] => page[b] = "ready"
  /\ Become(b, "idle")
  /\ need' = [need EXCEPT ![b] = FALSE]
  /\ Trouble
  /\ UNCHANGED <<last, product, table, req, hold, page, clicked>>

LoseOutcome(b, s) ==
  /\ phase[b] \in {"claimed", "opened", "clicked"}
  /\ s \in Outcomes(b)
  /\ Become(b, "idle") /\ Drop(b)
  /\ need' = [need EXCEPT ![b] = @ \/ s = "NEEDS_CONFIRMATION"]
  /\ Trouble
  /\ UNCHANGED <<last, product, table, req, page, clicked>>

\* The page logs out or wants its agreement confirmed.
PageBlocks(b) ==
  /\ page[b] = "ready"
  /\ page' = [page EXCEPT ![b] = "blocked"]
  /\ Trouble
  /\ UNCHANGED <<last, product, table, req, browser, clicked>>

\* A person does in the window what the page asks for.
PageConfirmed(b) ==
  /\ page[b] = "blocked"
  /\ page' = [page EXCEPT ![b] = "ready"]
  /\ UNCHANGED <<last, product, table, req, browser, clicked, troubles>>

\* Ten minutes have passed since the claim.
LeaseRunsOut(h) ==
  /\ claimed[h] = "live"
  /\ SlowBrowser \/ \A b \in Browser : h \notin hold[b]
  /\ claimed' = [claimed EXCEPT ![h] = "past"]
  /\ UNCHANGED <<last, product, status, worker, req, browser, outside>>

-----------------------------------------------------------------------------
AtDashboard(a) ==
  \/ \E wanted \in SUBSET Product : Create(a, wanted)
  \/ \E h \in Handoff : Cancel(a, h) \/ Resume(a, h)
  \/ Answered(a)

Poll(b) ==
  \/ Look(b) \/ NotReady(b) \/ Ask(b) \/ Given(b)
  \/ Open(b) \/ Opened(b) \/ Click(b)
  \/ \E s \in Status : Conclude(b, s)
  \/ Reported(b)

Environment ==
  \/ \E b \in Browser :
       \/ Crash(b) \/ Unheard(b) \/ LoseAsk(b) \/ LoseOpened(b)
       \/ PageBlocks(b) \/ PageConfirmed(b)
       \/ \E s \in Status : LoseOutcome(b, s)
  \/ \E h \in Handoff : LeaseRunsOut(h)

Next ==
  \/ \E a \in Person : AtDashboard(a)
  \/ \E b \in Browser : Poll(b)
  \/ Environment

Spec == Init /\ [][Next]_vars

\* Chrome's alarm starts polls for ever, requests are answered, each step of a
\* poll ends by itself or times out, leases run out, and a person does what
\* the page asks for.  Strong fairness where Free may be taken away: it stands
\* for handlers that do not wait for each other.
Fairness ==
  /\ \A a \in Person : WF_vars(Answered(a))
  /\ \A b \in Browser :
       /\ WF_vars(Look(b)) /\ WF_vars(NotReady(b)) /\ SF_vars(Ask(b))
       /\ WF_vars(Given(b)) /\ WF_vars(Opened(b)) /\ WF_vars(Reported(b))
       /\ SF_vars(Open(b) \/ \E s \in Status : Conclude(b, s))
       /\ WF_vars(PageConfirmed(b)) /\ WF_vars(Unheard(b))
  /\ \A h \in Handoff : WF_vars(LeaseRunsOut(h))

FairSpec == Spec /\ Fairness

-----------------------------------------------------------------------------
(* Safety                                                                   *)

\* A handoff is in the hands of one browser: with the 409 of the claim endpoint
\* ("already claimed or finished"), no link is worked on twice at a time.
OneBrowserPerHandoff ==
  \A b, c \in Browser : b # c => hold[b] \cap hold[c] = {}

\* A handoff counts as succeeded only after its link was submitted on the page,
\* whatever requests overlapped, came late or were taken over meanwhile.
SucceededWasSubmitted ==
  \A h \in Handoff : status[h] = "SUCCEEDED" => h \in clicked

\* extension/background.js: "claimed tasks are also protected by a lease on the
\* backend": what a browser was given has a claim time, by which it comes back
\* if the browser is never heard of again.
LeaseProtectsClaimed ==
  \A h \in Handoff : status[h] \in LEASED_HANDOFF_STATUSES => claimed[h] # "none"

\* What is over stays over: only a person's resumption reopens a handoff, and
\* only a failed one.
EndedStays ==
  [][\A h \in Handoff :
       status[h] \in {"SUCCEEDED", "CANCELED"} => status'[h] = status[h]]_vars

\* A product is queued once: create_handoff_batch skips products that have an
\* active handoff, so that two of them become active together only when a
\* person requeues a failed one (resume_dianxiaomi_handoff does not look).
QueuedOnce ==
  [][\A g, h \in Handoff :
       /\ g # h /\ product'[g] = product'[h]
       /\ {status'[g], status'[h]} \subseteq ACTIVE_HANDOFF_STATUSES
       => \/ {status[g], status[h]} \subseteq ACTIVE_HANDOFF_STATUSES
          \/ "FAILED" \in {status[g], status[h]}]_vars

-----------------------------------------------------------------------------
(* Liveness                                                                 *)

\* Every handoff comes to an end though browsers crash, reports get lost and
\* pages ask for a person.
EveryHandoffEnds ==
  \A h \in Handoff : status[h] \in ACTIVE_HANDOFF_STATUSES ~> status[h] \in Ended

-----------------------------------------------------------------------------
(* The ledger the handoff queue implements                                  *)

StageOf(s) ==
  CASE s = "ABSENT"                  -> "absent"
    [] s \in ACTIVE_HANDOFF_STATUSES -> "open"
    [] s = "SUCCEEDED"               -> "succeeded"
    [] s = "FAILED"                  -> "failed"
    [] s = "CANCELED"                -> "canceled"

Ledger == INSTANCE HandoffLedger WITH
  stage     <- [h \in Handoff |-> StageOf(status[h])],
  held      <- hold,
  submitted <- clicked

\* Seen without requests, leases and worker ids, the table and the browsers
\* keep the promise of HandoffLedger.
ImplementsLedger == Ledger!LedgerSpec
=============================================================================
