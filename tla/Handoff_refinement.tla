------------------------- MODULE Handoff_refinement -------------------------
(***************************************************************************)
(* The handoff queue implements HandoffLedger, for requests that do not    *)
(* overlap and browsers that keep within their lease: every step of        *)
(* Handoff is, seen through the refinement mapping, one step of the ledger *)
(* or nothing.  Only commits change the ledger's stages; what a commit     *)
(* writes was decided when its request was sent, so the proof carries what *)
(* each request under way is about to do.                                  *)
(***************************************************************************)
EXTENDS Handoff_proofs

\* A browser holds nothing before it was given something.
EmptyHands ==
  \A b \in Browser : phase[b] \in {"idle", "looked", "asking"} => hold[b] = {}

OneEach(S) == \A g, h \in S : g = h

OneHeld == \A b \in Browser : OneEach(hold[b])

(* What a request r of a will do to the ledger when it commits. *)

Orders(a, r) ==
  /\ a \in Person
  /\ \A h \in DOMAIN r.status : status[h] = "ABSENT" /\ r.status[h] = "QUEUED"

Cancels(a, r) ==
  /\ a \in Person
  /\ \E h \in Handoff : /\ DOMAIN r.status = {h}
                        /\ status[h] \in ACTIVE_HANDOFF_STATUSES
                        /\ r.status[h] = "CANCELED"

Reopens(a, r) ==
  /\ a \in Person
  /\ \E h \in Handoff : /\ DOMAIN r.status = {h}
                        /\ status[h] = "FAILED"
                        /\ r.status[h] = "QUEUED"

Settles(a, r) ==
  /\ a \in Browser /\ r.taken = {}
  /\ \E h \in Handoff : /\ DOMAIN r.status = {h}
                        /\ status[h] \in ACTIVE_HANDOFF_STATUSES
                        /\ r.status[h] \in {"SUCCEEDED", "FAILED"}
                        /\ hold[a] \subseteq {h}

Keeps(a, r) ==
  /\ \A h \in DOMAIN r.status : /\ status[h] \in ACTIVE_HANDOFF_STATUSES
                                /\ r.status[h] \in ACTIVE_HANDOFF_STATUSES
  /\ OneEach(r.taken)
  /\ \A h \in r.taken : status[h] \in ACTIVE_HANDOFF_STATUSES

Does(a, r) ==
  Orders(a, r) \/ Cancels(a, r) \/ Reopens(a, r) \/ Settles(a, r) \/ Keeps(a, r)

\* What the refinement needs on top of the invariants already proved.
Desk ==
  /\ EmptyHands
  /\ OneHeld
  /\ \A a \in Actor : req[a] # None => Does(a, req[a])

DeskInv == SerialInv /\ Submitted /\ Desk

-----------------------------------------------------------------------------
(* Requests under way                                                       *)

\* A step that leaves the table and the requests alone.
LEMMA QuietDoes ==
  ASSUME SerialInv, OneHeld, \A a \in Actor : req[a] # None => Does(a, req[a]),
         UNCHANGED <<status, req>>, \A b \in Browser : hold'[b] \subseteq hold[b]
  PROVE  OneHeld' /\ \A a \in Actor : req'[a] # None => Does(a, req[a])'
<1>1. OneHeld'
  BY DEF OneHeld, OneEach
<1>2. ASSUME NEW a \in Actor, req'[a] # None PROVE Does(a, req[a])'
  <2>1. Does(a, req[a])
    BY <1>2
  <2> QED BY <2>1 DEF Does, Orders, Cancels, Reopens, Settles, Keeps
<1> QED BY <1>1, <1>2

\* After a commit no request is under way.
LEMMA CommitDoes ==
  ASSUME SerialInv, NEW a \in Actor, Commit(a)
  PROVE  \A c \in Actor : req'[c] = None
BY DEF SerialInv, OneRequest, Commit, TypeOK

\* A request is sent when none is under way.
LEMMA SendDoes ==
  ASSUME SerialInv, OneHeld, EmptyHands, ~Overlap, NEW a \in Actor, NEW r, Send(a, r),
         Does(a, r), UNCHANGED hold,
         \A b \in Browser : phase'[b] \in {"idle", "looked", "asking"} =>
                              phase[b] \in {"idle", "looked", "asking"}
  PROVE  OneHeld' /\ EmptyHands' /\ \A c \in Actor : req'[c] # None => Does(c, req[c])'
<1>1. status' = status
  BY DEF Send, table
<1>2. \A c \in Actor : req'[c] = IF c = a THEN r ELSE None
  BY DEF Send, Free, SerialInv, TypeOK
<1>3. Does(a, r)'
  BY <1>1 DEF Does, Orders, Cancels, Reopens, Settles, Keeps
<1> QED BY <1>2, <1>3 DEF OneHeld, EmptyHands

-----------------------------------------------------------------------------
(* What each request does                                                   *)

LEMMA CreateOrders ==
  ASSUME SerialInv, NEW a \in Person, NEW wanted \in SUBSET Product, Create(a, wanted)
  PROVE  \E r : Send(a, r) /\ Does(a, r)
<1> DEFINE n == Cardinality({p \in wanted : ~Active(p)})
<1>1. PICK r : r = [status |-> [h \in last + 1 .. last + n |-> "QUEUED"],
                    claimed |-> Nothing, worker |-> Nothing, taken |-> {}]
  OBVIOUS
<1>2. Send(a, r) /\ last + n <= MaxHandoffs
  BY <1>1 DEF Create
<1>3. n \in Nat /\ last \in Nat
  BY ProductAssumption, FS_Subset, FS_CardinalityType DEF SerialInv, TypeOK
<1>4. DOMAIN r.status = last + 1 .. last + n /\ \A h \in DOMAIN r.status : r.status[h] = "QUEUED"
  BY <1>1
<1> HIDE DEF n
<1>5. \A h \in last + 1 .. last + n : status[h] = "ABSENT"
  BY <1>2, <1>3, BoundAssumption DEF SerialInv, IdsInOrder, Handoff
<1>6. Orders(a, r)
  BY <1>4, <1>5 DEF Orders
<1> QED BY <1>2, <1>6 DEF Does

LEMMA ClaimKeeps ==
  ASSUME SerialInv, NEW b \in Browser
  PROVE  Keeps(b, ClaimWrites(b))
<1>1. \A h \in Queue(b) : status[h] \in ACTIVE_HANDOFF_STATUSES
  BY DEF Queue, PutBack, Expired, ACTIVE_HANDOFF_STATUSES
<1>2. PutBack(b) \subseteq Queue(b) /\ Taken(b) \subseteq Queue(b)
  BY DEF Queue, Taken
<1>3. OneEach(Taken(b))
  <2>1. Queue(b) \subseteq Int
    BY DEF Queue, PutBack, Expired, Handoff
  <2> QED BY <2>1 DEF Taken, OneEach
<1>4. /\ DOMAIN ClaimWrites(b).status = PutBack(b) \cup Taken(b)
      /\ \A h \in DOMAIN ClaimWrites(b).status : ClaimWrites(b).status[h] \in {"CLAIMED", "QUEUED"}
      /\ ClaimWrites(b).taken = Taken(b)
  BY DEF ClaimWrites
<1> QED
  BY <1>1, <1>2, <1>3, <1>4 DEF Keeps, ACTIVE_HANDOFF_STATUSES, LEASED_HANDOFF_STATUSES

\* A browser holds one handoff, and reports on nothing else.
LEMMA ReportDoes ==
  ASSUME SerialInv, OneHeld, NEW b \in Browser,
         NEW s \in {"OPENED", "NEEDS_CONFIRMATION", "SUCCEEDED", "FAILED"}
  PROVE  Does(b, ReportWrites(b, s))
<1>1. PICK r : r = ReportWrites(b, s)
  OBVIOUS
<1>2. /\ r.taken = {}
      /\ DOMAIN r.status \subseteq hold[b]
      /\ \A h \in DOMAIN r.status : status[h] \in ACTIVE_HANDOFF_STATUSES /\ r.status[h] = s
  BY <1>1 DEF ReportWrites, Accepts
<1>3. hold[b] \subseteq Handoff /\ OneEach(hold[b])
  BY DEF SerialInv, TypeOK, OneHeld
<1>4. CASE s \in ACTIVE_HANDOFF_STATUSES \/ DOMAIN r.status = {}
  BY <1>1, <1>2, <1>4 DEF Does, Keeps, OneEach
<1>5. CASE s \notin ACTIVE_HANDOFF_STATUSES /\ DOMAIN r.status # {}
  <2>1. PICK h \in DOMAIN r.status : TRUE
    BY <1>5
  <2>2. h \in Handoff /\ hold[b] \subseteq {h} /\ DOMAIN r.status = {h}
    BY <1>2, <1>3, <2>1 DEF OneEach
  <2>3. s \in {"SUCCEEDED", "FAILED"}
    BY <1>5 DEF ACTIVE_HANDOFF_STATUSES, LEASED_HANDOFF_STATUSES
  <2> QED BY <1>1, <1>2, <2>1, <2>2, <2>3 DEF Does, Settles
<1> QED BY <1>4, <1>5

-----------------------------------------------------------------------------
(* The invariant                                                            *)

LEMMA PersonDesk ==
  ASSUME SerialInv, Desk, ~Overlap, NEW a \in Person, AtDashboard(a)
  PROVE  Desk'
<1>0. a \in Actor
  BY DEF Actor
<1>1. ASSUME NEW r, Send(a, r), Does(a, r), UNCHANGED browser
      PROVE  Desk'
  BY <1>0, <1>1, SendDoes DEF Desk, browser
<1>2. ASSUME NEW wanted \in SUBSET Product, Create(a, wanted)
      PROVE  Desk'
  <2>1. UNCHANGED browser
    BY <1>2 DEF Create
  <2> QED BY <1>1, <1>2, <2>1, CreateOrders
<1>3. ASSUME NEW h \in Handoff, Cancel(a, h)
      PROVE  Desk'
  <2>1. PICK r : r = [status |-> [g \in {h} |-> "CANCELED"], claimed |-> Nothing,
                      worker |-> Nothing, taken |-> {}]
    OBVIOUS
  <2>2. /\ Send(a, r) /\ UNCHANGED browser /\ status[h] \in ACTIVE_HANDOFF_STATUSES
        /\ DOMAIN r.status = {h} /\ r.status[h] = "CANCELED"
    BY <1>3, <2>1 DEF Cancel
  <2>3. Does(a, r)
    BY <2>2 DEF Does, Cancels
  <2> QED BY <1>1, <2>2, <2>3
<1>4. ASSUME NEW h \in Handoff, Resume(a, h)
      PROVE  Desk'
  <2>1. PICK r : r = ResumeWrites(h)
    OBVIOUS
  <2>2. /\ Send(a, r) /\ UNCHANGED browser /\ status[h] \in {"NEEDS_CONFIRMATION", "FAILED"}
    BY <1>4, <2>1 DEF Resume
  <2>3. DOMAIN r.status = {h} /\ r.status[h] = "QUEUED" /\ r.taken = {}
    BY <2>1 DEF ResumeWrites
  <2>4. Reopens(a, r) \/ Keeps(a, r)
    BY <2>2, <2>3 DEF Reopens, Keeps, OneEach, ACTIVE_HANDOFF_STATUSES
  <2> QED BY <1>1, <2>2, <2>4 DEF Does
<1>5. CASE Answered(a)
  <2>1. \A c \in Actor : req'[c] = None
    BY <1>0, <1>5, CommitDoes DEF Answered
  <2> QED BY <1>5, <2>1 DEF Answered, browser, Desk, EmptyHands, OneHeld
<1> QED BY <1>2, <1>3, <1>4, <1>5 DEF AtDashboard

LEMMA PollDesk ==
  ASSUME SerialInv, Desk, ~Overlap, NEW b \in Browser, Poll(b)
  PROVE  Desk'
<1>0. b \in Actor
  BY DEF Actor
<1>1. ASSUME UNCHANGED <<status, req, hold>>,
             \A c \in Browser : phase'[c] \in {"idle", "looked", "asking"} =>
                                  phase[c] \in {"idle", "looked", "asking"}
      PROVE  Desk'
  <2>1. EmptyHands'
    BY <1>1 DEF Desk, EmptyHands
  <2> QED BY <1>1, <2>1, QuietDoes DEF Desk
<1>2. ASSUME NEW r, Send(b, r), Does(b, r), UNCHANGED hold,
             \A c \in Browser : phase'[c] \in {"idle", "looked", "asking"} =>
                                  phase[c] \in {"idle", "looked", "asking"}
      PROVE  Desk'
  BY <1>0, <1>2, SendDoes DEF Desk
<1>3. ASSUME Commit(b), OneHeld', EmptyHands'
      PROVE  Desk'
  BY <1>0, <1>3, CommitDoes DEF Desk
<1>4. CASE Look(b) \/ NotReady(b) \/ Click(b)
  BY <1>1, <1>4 DEF Look, NotReady, Click, Become, table, SerialInv, TypeOK
<1>5. CASE Ask(b)
  <2>1. Does(b, ClaimWrites(b))
    BY ClaimKeeps DEF Does
  <2> QED BY <1>2, <1>5, <2>1 DEF Ask, Become, SerialInv, TypeOK
<1>6. CASE Given(b)
  <2>1. /\ Commit(b) /\ phase[b] = "asking" /\ req[b] # None
        /\ hold' = [hold EXCEPT ![b] = req[b].taken]
        /\ phase' = [phase EXCEPT ![b] = IF req[b].taken = {} THEN "idle" ELSE "claimed"]
    BY <1>6 DEF Given, Become, Commit
  <2>2. Does(b, req[b])
    BY <1>0, <2>1 DEF Desk
  <2>3. OneEach(req[b].taken)
    BY <2>2, ActorAssumption DEF Does, Orders, Cancels, Reopens, Settles, Keeps, OneEach
  <2>4. /\ hold'[b] = req[b].taken
        /\ \A c \in Browser : c # b => hold'[c] = hold[c] /\ phase'[c] = phase[c]
        /\ phase'[b] = IF req[b].taken = {} THEN "idle" ELSE "claimed"
    BY <2>1 DEF SerialInv, TypeOK
  <2>5. OneHeld'
    BY <2>3, <2>4 DEF Desk, OneHeld, OneEach
  <2>6. EmptyHands'
    BY <2>4 DEF Desk, EmptyHands
  <2> QED BY <1>3, <2>1, <2>5, <2>6
<1>7. CASE Open(b)
  <2>1. Does(b, ReportWrites(b, "OPENED"))
    BY ReportDoes DEF Desk
  <2> QED BY <1>2, <1>7, <2>1 DEF Open, Become, SerialInv, TypeOK
<1>8. CASE Opened(b)
  <2>1. EmptyHands' /\ OneHeld'
    BY <1>8 DEF Opened, Become, SerialInv, TypeOK, Desk, EmptyHands, OneHeld
  <2> QED BY <1>3, <1>8, <2>1 DEF Opened
<1>9. ASSUME NEW s \in Status, Conclude(b, s) PROVE Desk'
  <2>1. s \in {"OPENED", "NEEDS_CONFIRMATION", "SUCCEEDED", "FAILED"}
    BY <1>9 DEF Conclude, Outcomes
  <2>2. Does(b, ReportWrites(b, s))
    BY <2>1, ReportDoes DEF Desk
  <2> QED BY <1>2, <1>9, <2>2 DEF Conclude, Become, SerialInv, TypeOK
<1>10. CASE Reported(b)
  <2>1. EmptyHands' /\ OneHeld'
    BY <1>10 DEF Reported, Become, Drop, SerialInv, TypeOK, Desk, EmptyHands, OneHeld, OneEach
  <2> QED BY <1>3, <1>10, <2>1 DEF Reported
<1> QED BY <1>4, <1>5, <1>6, <1>7, <1>8, <1>9, <1>10 DEF Poll

LEMMA EnvironmentDesk ==
  ASSUME SerialInv, Desk, Environment
  PROVE  Desk'
<1>1. ASSUME UNCHANGED <<status, req>>, EmptyHands',
             \A c \in Browser : hold'[c] \subseteq hold[c]
      PROVE  Desk'
  BY <1>1, QuietDoes DEF Desk
<1>2. ASSUME NEW b \in Browser, Crash(b) \/ \E s \in Status : LoseOutcome(b, s)
      PROVE  Desk'
  <2>1. /\ UNCHANGED <<status, req>>
        /\ phase' = [phase EXCEPT ![b] = "idle"] /\ hold' = [hold EXCEPT ![b] = {}]
    BY <1>2 DEF Crash, LoseOutcome, Become, Drop, table
  <2>2. EmptyHands' /\ \A c \in Browser : hold'[c] \subseteq hold[c]
    BY <2>1 DEF SerialInv, TypeOK, Desk, EmptyHands
  <2> QED BY <1>1, <2>1, <2>2
<1>3. ASSUME NEW b \in Browser,
             LoseAsk(b) \/ LoseOpened(b) \/ PageBlocks(b) \/ PageConfirmed(b)
      PROVE  Desk'
  <2>1. UNCHANGED <<status, req, hold>>
    BY <1>3 DEF LoseAsk, LoseOpened, PageBlocks, PageConfirmed, table, browser
  <2>2. EmptyHands'
    BY <1>3 DEF LoseAsk, LoseOpened, PageBlocks, PageConfirmed, Become, browser,
       SerialInv, TypeOK, Desk, EmptyHands
  <2> QED BY <1>1, <2>1, <2>2
<1>4. ASSUME NEW b \in Browser, Unheard(b)
      PROVE  Desk'
  <2>1. \A c \in Actor : req'[c] = None
    BY <1>4, CommitDoes DEF Unheard, Actor
  <2> QED BY <1>4, <2>1 DEF Unheard, browser, Desk, EmptyHands, OneHeld
<1>5. ASSUME NEW h \in Handoff, LeaseRunsOut(h)
      PROVE  Desk'
  BY <1>1, <1>5 DEF LeaseRunsOut, browser, Desk, EmptyHands
<1> QED BY <1>2, <1>3, <1>4, <1>5 DEF Environment

LEMMA DeskStep ==
  ASSUME ~Overlap
  PROVE  SerialInv /\ Desk /\ [Next]_vars => Desk'
<1> SUFFICES ASSUME SerialInv, Desk, [Next]_vars PROVE Desk'
  OBVIOUS
<1>1. CASE UNCHANGED vars
  <2>1. UNCHANGED <<status, req, hold, phase>>
    BY <1>1 DEF vars, table, browser
  <2> QED BY <2>1, QuietDoes DEF Desk, EmptyHands
<1>2. CASE \E a \in Person : AtDashboard(a)
  BY <1>2, PersonDesk
<1>3. CASE \E b \in Browser : Poll(b)
  BY <1>3, PollDesk
<1>4. CASE Environment
  BY <1>4, EnvironmentDesk
<1> QED BY <1>1, <1>2, <1>3, <1>4 DEF Next

\* A browser holds one handoff at most, and what a request under way will do
\* is still what it decided to do.
THEOREM DeskInvariance ==
  ASSUME ~Overlap, ~SlowBrowser
  PROVE  Spec => []DeskInv
<1>1. Init => Desk
  BY DEF Init, Desk, EmptyHands, OneHeld, OneEach
<1>2. SerialInv /\ Desk /\ [Next]_vars => Desk'
  BY DeskStep
<1>3. SerialInv /\ Submitted /\ Desk => DeskInv
  BY DEF DeskInv
<1> QED BY <1>1, <1>2, <1>3, SerialInvariance, SubmittedInvariance, PTL DEF Spec

-----------------------------------------------------------------------------
(* The steps of the ledger                                                  *)

LEMMA Stages ==
  ASSUME NEW s \in Status
  PROVE  /\ StageOf(s) = "absent" <=> s = "ABSENT"
         /\ StageOf(s) = "open" <=> s \in ACTIVE_HANDOFF_STATUSES
         /\ StageOf(s) = "succeeded" <=> s = "SUCCEEDED"
         /\ StageOf(s) = "failed" <=> s = "FAILED"
         /\ StageOf(s) = "canceled" <=> s = "CANCELED"
BY DEF StageOf, Status, Ended, ACTIVE_HANDOFF_STATUSES, LEASED_HANDOFF_STATUSES

\* The ledger's step, in the words of the queue.
Step == [Ledger!LedgerNext]_(Ledger!ledgerVars)

LEMMA SameStages ==
  ASSUME \A h \in Handoff : StageOf(status'[h]) = StageOf(status[h])
  PROVE  [h \in Handoff |-> StageOf(status[h])]' = [h \in Handoff |-> StageOf(status[h])]
OBVIOUS

\* Nothing that the ledger shows changes.
LEMMA Stutters ==
  ASSUME \A h \in Handoff : StageOf(status'[h]) = StageOf(status[h]),
         UNCHANGED <<hold, clicked>>
  PROVE  Step
BY SameStages DEF Step, Ledger!ledgerVars

LEMMA LetsGo ==
  ASSUME \A h \in Handoff : StageOf(status'[h]) = StageOf(status[h]), NEW b \in Browser,
         hold' = [hold EXCEPT ![b] = {}], UNCHANGED clicked
  PROVE  Step
<1>1. Ledger!LetGo(b)
  BY SameStages DEF Ledger!LetGo
<1> QED BY <1>1 DEF Step, Ledger!LedgerNext

\* What a commit leaves in the table.
LEMMA CommitWrites ==
  ASSUME DeskInv, NEW a \in Actor, Commit(a)
  PROVE  /\ RequestFits(a, req[a]) /\ Does(a, req[a])
         /\ DOMAIN req[a].status \subseteq Handoff /\ req[a].taken \subseteq Handoff
         /\ \A h \in DOMAIN req[a].status : req[a].status[h] \in Status
         /\ \A h \in Handoff : /\ status[h] \in Status
                              /\ status'[h] = IF h \in DOMAIN req[a].status
                                             THEN req[a].status[h] ELSE status[h]
<1>1. req[a] # None /\ TypeOK
  BY DEF Commit, DeskInv, SerialInv
<1>2. RequestFits(a, req[a]) /\ Does(a, req[a])
  BY <1>1 DEF DeskInv, SerialInv, Desk
<1> QED BY <1>1, <1>2, RequestElim, PartialElim DEF Commit, Over, TypeOK

\* A commit by someone who keeps what he holds, or is done with it.
LEMMA CommitRefines ==
  ASSUME DeskInv, NEW a \in Actor, Commit(a), UNCHANGED clicked,
         \/ hold' = hold /\ (a \in Browser => phase[a] \notin {"reporting", "pausing"})
         \/ a \in Browser /\ hold' = [hold EXCEPT ![a] = {}]
  PROVE  Step
<1> DEFINE new == DOMAIN req[a].status
<1>0. hold \in [Browser -> SUBSET Handoff]
  BY DEF DeskInv, SerialInv, TypeOK
<1>1. /\ RequestFits(a, req[a]) /\ Does(a, req[a]) /\ new \subseteq Handoff
      /\ \A h \in new : req[a].status[h] \in Status
      /\ \A h \in Handoff : /\ status[h] \in Status
                           /\ status'[h] = IF h \in new THEN req[a].status[h] ELSE status[h]
  BY CommitWrites
<1>2. CASE Orders(a, req[a])
  <2>1. hold' = hold
    BY <1>2, ActorAssumption DEF Orders
  <2>2. \A h \in Handoff : StageOf(status'[h]) = IF h \in new THEN "open" ELSE StageOf(status[h])
    <3>1. StageOf("QUEUED") = "open"
      BY DEF StageOf, ACTIVE_HANDOFF_STATUSES
    <3> QED BY <1>1, <1>2, <3>1 DEF Orders
  <2>3. \A h \in new : StageOf(status[h]) = "absent"
    BY <1>1, <1>2, Stages DEF Orders
  <2>4. Ledger!Order(new)
    BY <1>1, <2>1, <2>2, <2>3 DEF Ledger!Order
  <2> QED BY <1>1, <2>4 DEF Step, Ledger!LedgerNext
<1>3. CASE Cancels(a, req[a])
  <2>1. hold' = hold
    BY <1>3, ActorAssumption DEF Cancels
  <2>2. PICK h \in Handoff : /\ new = {h} /\ status[h] \in ACTIVE_HANDOFF_STATUSES
                            /\ req[a].status[h] = "CANCELED"
    BY <1>3 DEF Cancels
  <2>3. StageOf(status[h]) = "open" /\ StageOf(status'[h]) = "canceled"
    BY <1>1, <2>2, Stages
  <2>4. \A g \in Handoff : g # h => status'[g] = status[g]
    BY <1>1, <2>2
  <2>5. Ledger!Cancel(h)
    BY <2>1, <2>3, <2>4 DEF Ledger!Cancel
  <2> QED BY <2>5 DEF Step, Ledger!LedgerNext
<1>4. CASE Reopens(a, req[a])
  <2>1. hold' = hold
    BY <1>4, ActorAssumption DEF Reopens
  <2>2. PICK h \in Handoff : /\ new = {h} /\ status[h] = "FAILED"
                            /\ req[a].status[h] = "QUEUED"
    BY <1>4 DEF Reopens
  <2>3. StageOf(status[h]) = "failed" /\ StageOf(status'[h]) = "open"
    BY <1>1, <2>2 DEF StageOf, ACTIVE_HANDOFF_STATUSES, LEASED_HANDOFF_STATUSES
  <2>4. \A g \in Handoff : g # h => status'[g] = status[g]
    BY <1>1, <2>2
  <2>5. Ledger!Unheld(h)
    BY <2>2, NotHeld DEF Ledger!Unheld, LEASED_HANDOFF_STATUSES, DeskInv
  <2>6. Ledger!Reopen(h)
    BY <2>1, <2>3, <2>4, <2>5 DEF Ledger!Reopen
  <2> QED BY <2>6 DEF Step, Ledger!LedgerNext
<1>5. CASE Settles(a, req[a])
  <2>2. PICK h \in Handoff : /\ new = {h} /\ status[h] \in ACTIVE_HANDOFF_STATUSES
                            /\ req[a].status[h] \in {"SUCCEEDED", "FAILED"}
                            /\ hold[a] \subseteq {h}
    BY <1>5 DEF Settles
  <2>3. /\ StageOf(status[h]) = "open"
        /\ StageOf(status'[h]) = "succeeded" <=> req[a].status[h] = "SUCCEEDED"
        /\ StageOf(status'[h]) \in {"succeeded", "failed"}
    BY <1>1, <2>2, Stages
  <2>4. \A g \in Handoff : g # h => status'[g] = status[g]
    BY <1>1, <2>2
  <2>5. StageOf(status'[h]) = "succeeded" => h \in clicked
    BY <2>2, <2>3 DEF DeskInv, Submitted, Commit
  <2>6. \A c \in Browser : h \in hold[c] => c = a /\ phase[c] \in {"reporting", "pausing"}
    BY <1>1, <2>2 DEF RequestFits
  <2>7. hold' = [c \in Browser |-> hold[c] \ {h}]
    <3>1. CASE hold' = hold /\ (a \in Browser => phase[a] \notin {"reporting", "pausing"})
      <4>1. \A c \in Browser : hold[c] \ {h} = hold[c]
        BY <2>6, <3>1
      <4> QED BY <1>0, <3>1, <4>1
    <3>2. CASE a \in Browser /\ hold' = [hold EXCEPT ![a] = {}]
      <4>1. \A c \in Browser : hold[c] \ {h} = IF c = a THEN {} ELSE hold[c]
        BY <2>2, <2>6
      <4> QED BY <1>0, <3>2, <4>1
    <3> QED BY <3>1, <3>2
  <2>8. Ledger!Settle(h, StageOf(status'[h]))
    BY <2>3, <2>4, <2>5, <2>7 DEF Ledger!Settle
  <2> QED BY <2>3, <2>8 DEF Step, Ledger!LedgerNext
<1>6. CASE Keeps(a, req[a])
  <2>1. \A h \in Handoff : StageOf(status'[h]) = StageOf(status[h])
    <3> SUFFICES ASSUME NEW h \in Handoff PROVE StageOf(status'[h]) = StageOf(status[h])
      OBVIOUS
    <3>1. CASE h \in new
      <4>1. status[h] \in ACTIVE_HANDOFF_STATUSES /\ status'[h] \in ACTIVE_HANDOFF_STATUSES
        BY <1>1, <1>6, <3>1 DEF Keeps
      <4> QED BY <1>1, <3>1, <4>1, Stages
    <3>2. CASE h \notin new
      BY <1>1, <3>2
    <3> QED BY <3>1, <3>2
  <2> QED BY <2>1, Stutters, LetsGo
<1> QED BY <1>1, <1>2, <1>3, <1>4, <1>5, <1>6 DEF Does

\* A browser is given a handoff.
LEMMA GivenRefines ==
  ASSUME DeskInv, NEW b \in Browser, Given(b)
  PROVE  Step
<1>0. b \in Actor /\ hold \in [Browser -> SUBSET Handoff]
  BY DEF Actor, DeskInv, SerialInv, TypeOK
<1>1. /\ Commit(b) /\ phase[b] = "asking" /\ UNCHANGED clicked
      /\ hold' = [hold EXCEPT ![b] = req[b].taken]
  BY DEF Given, outside
<1>2. hold[b] = {}
  BY <1>1 DEF DeskInv, Desk, EmptyHands
<1>3. CASE req[b].taken = {}
  BY <1>0, <1>1, <1>3, CommitRefines
<1>4. CASE req[b].taken # {}
  <2>1. PICK h \in req[b].taken : TRUE
    BY <1>4
  <2>2. /\ RequestFits(b, req[b]) /\ Does(b, req[b]) /\ h \in Handoff
        /\ \A g \in DOMAIN req[b].status : req[b].status[g] \in Status
        /\ \A g \in Handoff :
             /\ status[g] \in Status
             /\ status'[g] = IF g \in DOMAIN req[b].status THEN req[b].status[g] ELSE status[g]
    BY <1>0, <1>1, CommitWrites
  <2>3. Keeps(b, req[b])
    BY <1>4, <2>2, ActorAssumption DEF Does, Orders, Cancels, Reopens, Settles
  <2>4. hold' = [hold EXCEPT ![b] = {h}]
    <3>1. req[b].taken = {h}
      BY <2>3 DEF Keeps, OneEach
    <3> QED BY <1>1, <3>1
  <2>5. \A g \in Handoff : StageOf(status'[g]) = StageOf(status[g])
    <3> SUFFICES ASSUME NEW g \in Handoff PROVE StageOf(status'[g]) = StageOf(status[g])
      OBVIOUS
    <3>1. CASE g \in DOMAIN req[b].status
      <4>1. status[g] \in ACTIVE_HANDOFF_STATUSES /\ status'[g] \in ACTIVE_HANDOFF_STATUSES
        BY <2>2, <2>3, <3>1 DEF Keeps
      <4> QED BY <2>2, <3>1, <4>1, Stages
    <3>2. CASE g \notin DOMAIN req[b].status
      BY <2>2, <3>2
    <3> QED BY <3>1, <3>2
  <2>6. StageOf(status[h]) = "open"
    BY <2>2, <2>3, Stages DEF Keeps
  <2>7. Ledger!Unheld(h)
    BY <2>2 DEF RequestFits, Ledger!Unheld
  <2>8. Ledger!Take(b, h)
    BY <1>1, <1>2, <2>2, <2>4, <2>5, <2>6, <2>7, SameStages DEF Ledger!Take
  <2> QED BY <2>2, <2>8 DEF Step, Ledger!LedgerNext
<1> QED BY <1>3, <1>4

LEMMA StepRefines == DeskInv /\ [Next]_vars => Step
<1> SUFFICES ASSUME DeskInv, [Next]_vars PROVE Step
  OBVIOUS
<1>0. Browser \subseteq Actor /\ Person \subseteq Actor /\ Browser \cap Person = {}
  BY ActorAssumption DEF Actor
<1>1. ASSUME UNCHANGED <<status, hold, clicked>>
      PROVE  Step
  BY <1>1, Stutters
<1>2. ASSUME UNCHANGED <<status, clicked>>, NEW b \in Browser, hold' = [hold EXCEPT ![b] = {}]
      PROVE  Step
  BY <1>2, LetsGo
<1>3. CASE UNCHANGED vars
  BY <1>1, <1>3 DEF vars, table, browser, outside
<1>4. ASSUME NEW a \in Person, AtDashboard(a)
      PROVE  Step
  <2>1. ASSUME NEW wanted \in SUBSET Product, Create(a, wanted)
        PROVE  Step
    BY <1>1, <2>1 DEF Create, Send, table, browser, outside
  <2>2. ASSUME NEW h \in Handoff, Cancel(a, h) \/ Resume(a, h)
        PROVE  Step
    BY <1>1, <2>2 DEF Cancel, Resume, Send, table, browser, outside
  <2>3. CASE Answered(a)
    BY <1>0, <2>3, CommitRefines DEF Answered, browser, outside
  <2> QED BY <1>4, <2>1, <2>2, <2>3 DEF AtDashboard
<1>5. ASSUME NEW b \in Browser, Poll(b)
      PROVE  Step
  <2>1. CASE Look(b) \/ NotReady(b)
    BY <1>1, <2>1 DEF Look, NotReady, table, outside
  <2>2. CASE Ask(b) \/ Open(b) \/ (\E s \in Status : Conclude(b, s))
    BY <1>1, <2>2 DEF Ask, Open, Conclude, Send, table, outside
  <2>3. CASE Given(b)
    BY <2>3, GivenRefines
  <2>4. CASE Opened(b)
    BY <1>0, <2>4, CommitRefines DEF Opened, outside
  <2>5. CASE Click(b)
    <3>1. Ledger!Submit(b)
      BY <2>5 DEF Click, table, Ledger!Submit
    <3> QED BY <3>1 DEF Step, Ledger!LedgerNext
  <2>6. CASE Reported(b)
    BY <1>0, <2>6, CommitRefines DEF Reported, Drop, outside
  <2> QED BY <1>5, <2>1, <2>2, <2>3, <2>4, <2>5, <2>6 DEF Poll
<1>6. CASE Environment
  <2>1. ASSUME NEW b \in Browser, Crash(b) \/ \E s \in Status : LoseOutcome(b, s)
        PROVE  Step
    BY <1>2, <2>1 DEF Crash, LoseOutcome, Drop, table
  <2>2. ASSUME NEW b \in Browser,
               LoseAsk(b) \/ LoseOpened(b) \/ PageBlocks(b) \/ PageConfirmed(b)
        PROVE  Step
    BY <1>1, <2>2 DEF LoseAsk, LoseOpened, PageBlocks, PageConfirmed, table, browser
  <2>3. ASSUME NEW b \in Browser, Unheard(b)
        PROVE  Step
    BY <1>0, <2>3, CommitRefines DEF Unheard, browser, outside
  <2>4. ASSUME NEW h \in Handoff, LeaseRunsOut(h)
        PROVE  Step
    BY <1>1, <2>4 DEF LeaseRunsOut, browser, outside
  <2> QED BY <1>6, <2>1, <2>2, <2>3, <2>4 DEF Environment
<1> QED BY <1>3, <1>4, <1>5, <1>6 DEF Next

\* Requests, leases, lost reports and crashed browsers taken away, handing over
\* is what HandoffLedger says: one handoff to a browser, one browser to a
\* handoff, success only after a submission, and what is over stays over.
THEOREM Refinement ==
  ASSUME ~Overlap, ~SlowBrowser
  PROVE  Spec => ImplementsLedger
<1>1. Init => Ledger!LedgerInit
  <2> SUFFICES ASSUME Init PROVE Ledger!LedgerInit
    OBVIOUS
  <2>1. \A h \in Handoff : StageOf(status[h]) = "absent"
    <3>1. "ABSENT" \in Status
      BY DEF Status
    <3> QED BY <3>1, Stages DEF Init
  <2> QED BY <2>1 DEF Init, Ledger!LedgerInit
<1>2. DeskInv /\ [Next]_vars => [Ledger!LedgerNext]_(Ledger!ledgerVars)
  BY StepRefines DEF Step
<1> QED BY <1>1, <1>2, DeskInvariance, PTL DEF Spec, ImplementsLedger, Ledger!LedgerSpec

-----------------------------------------------------------------------------
(* A product is queued once                                                 *)

\* A row about to be inserted is the only one of its product that is active or
\* about to be inserted.
Apart(r) ==
  \A h \in DOMAIN r.status : status[h] = "ABSENT" =>
    \A g \in Handoff : g # h /\ product[g] = product[h] =>
      status[g] \notin ACTIVE_HANDOFF_STATUSES /\ g \notin DOMAIN r.status

NewApart == \A a \in Actor : req[a] # None => Apart(req[a])

\* Each product of a batch gets one row: as many rows as products, none left out.
LEMMA CreateApart ==
  ASSUME SerialInv, NEW a \in Person, NEW wanted \in SUBSET Product, Create(a, wanted)
  PROVE  \E r : Send(a, r) /\ Apart(r)'
<1> DEFINE fresh == {p \in wanted : ~Active(p)}
           n     == Cardinality(fresh)
           ids   == last + 1 .. last + n
<1>1. PICK r : r = [status |-> [h \in ids |-> "QUEUED"], claimed |-> Nothing,
                    worker |-> Nothing, taken |-> {}]
  OBVIOUS
<1>2. Send(a, r) /\ status' = status /\ DOMAIN r.status = ids
  BY <1>1 DEF Create, Send, table
<1>3. PICK f \in [ids -> fresh] : /\ \A p \in fresh : \E h \in ids : f[h] = p
                                 /\ product' = Over(f, product)
  BY DEF Create
<1>4. \A p \in fresh : ~Active(p)
  OBVIOUS
<1>5. IsFiniteSet(fresh) /\ n \in Nat /\ last \in Nat
  BY ProductAssumption, FS_Subset, FS_CardinalityType DEF SerialInv, TypeOK
<1> HIDE DEF fresh
<1>6. f \in Injection(ids, fresh)
  <2>1. IsFiniteSet(ids) /\ Cardinality(ids) = n
    <3> HIDE DEF n
    <3>1. PICK lo, hi : lo = last + 1 /\ hi = last + n
      OBVIOUS
    <3>2. lo \in Int /\ hi \in Int
      BY <1>5, <3>1
    <3>3. /\ IsFiniteSet(lo .. hi)
          /\ Cardinality(lo .. hi) = IF lo > hi THEN 0 ELSE hi - lo + 1
      BY <3>2, FS_Interval
    <3> QED BY <1>5, <3>1, <3>3
  <2>2. f \in Surjection(ids, fresh)
    BY <1>3 DEF Surjection
  <2> QED BY <2>1, <2>2, FS_SurjSameCardinalityImpliesInj
<1>7. \A g, h \in ids : f[g] = f[h] => g = h
  BY <1>6 DEF Injection, IsInjective
<1> HIDE DEF ids
<1>8. \A h \in Handoff : product'[h] = IF h \in ids THEN f[h] ELSE product[h]
  BY <1>3 DEF Over
<1>9. ids \subseteq Handoff
  <2>1. last + n <= MaxHandoffs
    BY DEF Create, fresh
  <2> QED BY <1>5, <2>1, BoundAssumption DEF ids, Handoff
<1>10. Apart(r)'
  <2> SUFFICES ASSUME NEW h \in ids, NEW g \in Handoff, g # h, product'[g] = product'[h]
               PROVE  status[g] \notin ACTIVE_HANDOFF_STATUSES /\ g \notin ids
    BY <1>2 DEF Apart
  <2>1. product'[h] = f[h] /\ f[h] \in fresh
    BY <1>3, <1>8, <1>9
  <2>2. g \notin ids
    BY <1>7, <1>8, <2>1
  <2> QED BY <1>4, <1>8, <2>1, <2>2 DEF Active
<1> QED BY <1>2, <1>10

\* Requests about rows that exist insert none.
LEMMA OldApart ==
  ASSUME NEW r, NEW Old \in SUBSET Handoff, DOMAIN r.status \subseteq Old,
         \A h \in Old : status[h] # "ABSENT"
  PROVE  Apart(r)
BY DEF Apart

LEMMA SendApart ==
  ASSUME SerialInv, ~Overlap, NEW a \in Actor, NEW r, Send(a, r), Apart(r)'
  PROVE  NewApart'
<1>1. \A c \in Actor : req'[c] = IF c = a THEN r ELSE None
  BY DEF Send, Free, SerialInv, TypeOK
<1> QED BY <1>1 DEF NewApart

LEMMA ApartStep ==
  ASSUME ~Overlap
  PROVE  SerialInv /\ NewApart /\ [Next]_vars => NewApart'
<1> SUFFICES ASSUME SerialInv, NewApart, [Next]_vars PROVE NewApart'
  OBVIOUS
<1>0. Browser \subseteq Actor /\ Person \subseteq Actor
  BY DEF Actor
<1>1. ASSUME UNCHANGED <<status, product, req>>
      PROVE  NewApart'
  BY <1>1 DEF NewApart, Apart
<1>2. ASSUME NEW a \in Actor, Commit(a)
      PROVE  NewApart'
  BY <1>2, CommitDoes DEF NewApart
<1>3. ASSUME NEW a \in Actor, NEW r, Send(a, r), UNCHANGED product, Apart(r)
      PROVE  NewApart'
  <2>1. Apart(r)'
    BY <1>3 DEF Apart, Send, table
  <2> QED BY <1>3, <2>1, SendApart
<1>4. CASE UNCHANGED vars
  BY <1>1, <1>4 DEF vars, table
<1>5. ASSUME NEW a \in Person, AtDashboard(a)
      PROVE  NewApart'
  <2>1. ASSUME NEW wanted \in SUBSET Product, Create(a, wanted)
        PROVE  NewApart'
    BY <1>0, <2>1, CreateApart, SendApart
  <2>2. ASSUME NEW h \in Handoff, Cancel(a, h)
        PROVE  NewApart'
    <3>1. PICK r : r = [status |-> [g \in {h} |-> "CANCELED"], claimed |-> Nothing,
                        worker |-> Nothing, taken |-> {}]
      OBVIOUS
    <3>2. Apart(r)
      BY <2>2, <3>1
      DEF Cancel, Apart, ACTIVE_HANDOFF_STATUSES, LEASED_HANDOFF_STATUSES
    <3> QED BY <1>0, <1>3, <2>2, <3>1, <3>2 DEF Cancel
  <2>3. ASSUME NEW h \in Handoff, Resume(a, h)
        PROVE  NewApart'
    <3>1. Apart(ResumeWrites(h))
      BY <2>3 DEF Resume, Apart, ResumeWrites
    <3> QED BY <1>0, <1>3, <2>3, <3>1 DEF Resume
  <2>4. CASE Answered(a)
    BY <1>0, <1>2, <2>4 DEF Answered
  <2> QED BY <1>5, <2>1, <2>2, <2>3, <2>4 DEF AtDashboard
<1>6. ASSUME NEW b \in Browser, Poll(b)
      PROVE  NewApart'
  <2>1. CASE Look(b) \/ NotReady(b) \/ Click(b)
    BY <1>1, <2>1 DEF Look, NotReady, Click, table
  <2>2. CASE Ask(b)
    <3>1. \A h \in Queue(b) : status[h] # "ABSENT"
      BY DEF Queue, PutBack, Expired, LEASED_HANDOFF_STATUSES
    <3>2. DOMAIN ClaimWrites(b).status \subseteq Queue(b) /\ Queue(b) \subseteq Handoff
      BY DEF ClaimWrites, Queue, Taken, PutBack, Expired
    <3>3. Apart(ClaimWrites(b))
      BY <3>1, <3>2, OldApart
    <3> QED BY <1>0, <1>3, <2>2, <3>3 DEF Ask
  <2>3. ASSUME NEW s, Send(b, ReportWrites(b, s)), UNCHANGED product
        PROVE  NewApart'
    <3>1. Apart(ReportWrites(b, s))
      BY DEF Apart, ReportWrites, Accepts, ACTIVE_HANDOFF_STATUSES, LEASED_HANDOFF_STATUSES
    <3> QED BY <1>0, <1>3, <2>3, <3>1
  <2>4. CASE Open(b) \/ (\E s \in Status : Conclude(b, s))
    BY <2>3, <2>4 DEF Open, Conclude
  <2>5. CASE Given(b) \/ Opened(b) \/ Reported(b)
    BY <1>0, <1>2, <2>5 DEF Given, Opened, Reported
  <2> QED BY <1>6, <2>1, <2>2, <2>4, <2>5 DEF Poll
<1>7. CASE Environment
  <2>1. ASSUME NEW b \in Browser, Unheard(b)
        PROVE  NewApart'
    BY <1>0, <1>2, <2>1 DEF Unheard
  <2>2. ASSUME NEW b \in Browser,
               \/ Crash(b) \/ LoseAsk(b) \/ LoseOpened(b) \/ PageBlocks(b) \/ PageConfirmed(b)
               \/ \E s \in Status : LoseOutcome(b, s)
        PROVE  NewApart'
    BY <1>1, <2>2
    DEF Crash, LoseAsk, LoseOpened, PageBlocks, PageConfirmed, LoseOutcome, table
  <2>3. ASSUME NEW h \in Handoff, LeaseRunsOut(h)
        PROVE  NewApart'
    BY <1>1, <2>3 DEF LeaseRunsOut
  <2> QED BY <1>7, <2>1, <2>2, <2>3 DEF Environment
<1> QED BY <1>4, <1>5, <1>6, <1>7 DEF Next

\* What a commit activates: the rows of a batch, and a failed handoff.
LEMMA Activates ==
  ASSUME DeskInv, NewApart, NEW a \in Actor, Commit(a), NEW g \in Handoff, NEW h \in Handoff,
         g # h, product[g] = product[h],
         status'[g] \in ACTIVE_HANDOFF_STATUSES, status'[h] \in ACTIVE_HANDOFF_STATUSES,
         status[h] \notin ACTIVE_HANDOFF_STATUSES
  PROVE  status[h] = "FAILED"
<1>1. /\ Does(a, req[a])
      /\ status'[g] = IF g \in DOMAIN req[a].status THEN req[a].status[g] ELSE status[g]
      /\ status'[h] = IF h \in DOMAIN req[a].status THEN req[a].status[h] ELSE status[h]
  BY CommitWrites
<1>2. h \in DOMAIN req[a].status /\ req[a].status[h] \in ACTIVE_HANDOFF_STATUSES
  BY <1>1
<1>3. ~Cancels(a, req[a]) /\ ~Settles(a, req[a]) /\ ~Keeps(a, req[a])
  BY <1>2 DEF Cancels, Settles, Keeps, ACTIVE_HANDOFF_STATUSES, LEASED_HANDOFF_STATUSES
<1>4. CASE Orders(a, req[a])
  <2>1. status[h] = "ABSENT"
    BY <1>2, <1>4 DEF Orders
  <2>2. status[g] \notin ACTIVE_HANDOFF_STATUSES /\ g \notin DOMAIN req[a].status
    BY <1>2, <2>1 DEF NewApart, Apart, Commit
  <2> QED BY <1>1, <2>2
<1>5. CASE Reopens(a, req[a])
  BY <1>2, <1>5 DEF Reopens
<1> QED BY <1>1, <1>3, <1>4, <1>5 DEF Does

\* Two handoffs of one product become active together only when a failed one is
\* requeued, however claims, reports, leases and cancellations alternate.
THEOREM QueuedOnceHolds ==
  ASSUME ~Overlap, ~SlowBrowser
  PROVE  Spec => QueuedOnce
<1>1. Init => NewApart
  BY DEF Init, NewApart
<1>2. SerialInv /\ NewApart /\ [Next]_vars => NewApart'
  BY ApartStep
<1>3. DeskInv /\ NewApart /\ [Next]_vars =>
        \A g, h \in Handoff :
          /\ g # h /\ product'[g] = product'[h]
          /\ {status'[g], status'[h]} \subseteq ACTIVE_HANDOFF_STATUSES
          => \/ {status[g], status[h]} \subseteq ACTIVE_HANDOFF_STATUSES
             \/ "FAILED" \in {status[g], status[h]}
  <2> SUFFICES ASSUME DeskInv, NewApart, [Next]_vars, NEW g \in Handoff, NEW h \in Handoff,
                      g # h, product'[g] = product'[h],
                      status'[g] \in ACTIVE_HANDOFF_STATUSES,
                      status'[h] \in ACTIVE_HANDOFF_STATUSES
               PROVE  \/ {status[g], status[h]} \subseteq ACTIVE_HANDOFF_STATUSES
                      \/ "FAILED" \in {status[g], status[h]}
    OBVIOUS
  <2>1. ASSUME NEW a \in Actor, Commit(a)
        PROVE  \/ {status[g], status[h]} \subseteq ACTIVE_HANDOFF_STATUSES
               \/ "FAILED" \in {status[g], status[h]}
    <3>1. product[g] = product[h]
      BY <2>1 DEF Commit
    <3> QED BY <2>1, <3>1, Activates
  <2>2. CASE UNCHANGED status
    BY <2>2
  <2>3. UNCHANGED status \/ \E a \in Actor : Commit(a)
    <3>1. ASSUME NEW a \in Person, AtDashboard(a)
          PROVE  UNCHANGED status \/ Commit(a)
      BY <3>1 DEF AtDashboard, Create, Cancel, Resume, Answered, Send, table
    <3>2. ASSUME NEW b \in Browser, Poll(b)
          PROVE  UNCHANGED status \/ Commit(b)
      BY <3>2
      DEF Poll, Look, NotReady, Ask, Given, Open, Opened, Click, Conclude, Reported, Send, table
    <3>3. CASE Environment
      BY <3>3
      DEF Environment, Crash, Unheard, LoseAsk, LoseOpened, LoseOutcome, PageBlocks,
          PageConfirmed, LeaseRunsOut, table, Actor
    <3> QED BY <3>1, <3>2, <3>3 DEF Next, vars, table, Actor
  <2> QED BY <2>1, <2>2, <2>3
<1>4. DeskInv => SerialInv
  BY DEF DeskInv
<1> QED BY <1>1, <1>2, <1>3, <1>4, DeskInvariance, PTL DEF Spec, QueuedOnce
=============================================================================
