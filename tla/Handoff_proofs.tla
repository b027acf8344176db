--------------------------- MODULE Handoff_proofs ---------------------------
(***************************************************************************)
(* Proofs about Handoff.  Type correctness and SucceededWasSubmitted hold  *)
(* for all constants.  That a handoff is in one browser's hands, has a     *)
(* lease there, and stays ended once it is, are proved for requests that   *)
(* do not overlap and browsers that keep within their lease: the other     *)
(* cases are refuted by TLC.                                               *)
(***************************************************************************)
EXTENDS Handoff, FiniteSetTheorems, TLAPS

-----------------------------------------------------------------------------
(* What requests write                                                      *)

\* A function on some handoffs is a set of column changes.
LEMMA PartialIntro ==
  ASSUME NEW S, NEW T \in SUBSET Handoff, NEW f \in [T -> S]
  PROVE  f \in Partial(S)
BY DEF Partial

\* What a set of column changes is, for use without its definition.
LEMMA PartialElim ==
  ASSUME NEW S, NEW f \in Partial(S)
  PROVE  /\ DOMAIN f \subseteq Handoff
         /\ \A h \in DOMAIN f : f[h] \in S
BY DEF Partial

\* Writing some rows of a column leaves a column of the same type.
LEMMA OverTyped ==
  ASSUME NEW S, NEW f \in Partial(S), NEW g \in [Handoff -> S]
  PROVE  Over(f, g) \in [Handoff -> S]
BY PartialElim DEF Over

LEMMA NothingTyped == \A S : Nothing \in Partial(S)
<1> TAKE S
<1>1. Nothing \in [{} -> S]
  BY DEF Nothing
<1> QED BY <1>1, PartialIntro

\* A request that was sent and not answered.
LEMMA RequestElim ==
  ASSUME TypeOK, NEW a \in Actor, req[a] # None
  PROVE  /\ req[a] \in Request
         /\ req[a].status \in Partial(Status)
         /\ req[a].claimed \in Partial(Lease)
         /\ req[a].worker \in Partial(Worker \cup {None})
         /\ req[a].taken \subseteq Handoff
BY DEF TypeOK, Request

LEMMA ClaimTyped ==
  ASSUME TypeOK, NEW b \in Browser
  PROVE  ClaimWrites(b) \in Request
<1>1. PutBack(b) \subseteq Handoff /\ Taken(b) \subseteq Handoff
  BY DEF PutBack, Expired, Taken, Queue
<1>2. ClaimWrites(b).status \in Partial(Status)
  <2> DEFINE T == PutBack(b) \cup Taken(b)
             f == [h \in T |-> IF h \in Taken(b) THEN "CLAIMED" ELSE "QUEUED"]
  <2>1. f \in [T -> Status] /\ T \in SUBSET Handoff
    BY <1>1 DEF Status, ACTIVE_HANDOFF_STATUSES, LEASED_HANDOFF_STATUSES
  <2> QED BY <2>1, PartialIntro DEF ClaimWrites
<1>3. ClaimWrites(b).claimed \in Partial(Lease)
  <2> DEFINE T == Taken(b) \cup {g \in PutBack(b) : claimed[g] # "none"}
             f == [h \in T |-> IF h \in Taken(b) THEN "live" ELSE "none"]
  <2>1. f \in [T -> Lease] /\ T \in SUBSET Handoff
    BY <1>1 DEF Lease
  <2> QED BY <2>1, PartialIntro DEF ClaimWrites, ClaimTimes
<1>4. ClaimWrites(b).worker \in Partial(Worker \cup {None})
  <2> DEFINE T == {g \in PutBack(b) : worker[g] # None}
                    \cup {g \in Taken(b) : g \in PutBack(b) \/ worker[g] # WorkerId[b]}
             f == [h \in T |-> IF h \in Taken(b) THEN WorkerId[b] ELSE None]
  <2>1. f \in [T -> Worker \cup {None}] /\ T \in SUBSET Handoff
    BY <1>1 DEF Worker
  <2> QED BY <2>1, PartialIntro DEF ClaimWrites
<1> QED BY <1>1, <1>2, <1>3, <1>4 DEF ClaimWrites, Request

LEMMA ReportTyped ==
  ASSUME TypeOK, NEW b \in Browser, NEW s \in Status
  PROVE  ReportWrites(b, s) \in Request
<1>1. hold[b] \subseteq Handoff
  BY DEF TypeOK
<1>2. ReportWrites(b, s).status \in Partial(Status)
  <2> DEFINE T == {g \in hold[b] : Accepts(b, g) /\ status[g] # s}
  <2>1. [h \in T |-> s] \in [T -> Status] /\ T \in SUBSET Handoff
    BY <1>1
  <2> QED BY <2>1, PartialIntro DEF ReportWrites
<1>3. ReportWrites(b, s).worker \in Partial(Worker \cup {None})
  <2> DEFINE T == {g \in hold[b] : Accepts(b, g) /\ worker[g] = None}
  <2>1. [h \in T |-> WorkerId[b]] \in [T -> Worker \cup {None}] /\ T \in SUBSET Handoff
    BY <1>1 DEF Worker
  <2> QED BY <2>1, PartialIntro DEF ReportWrites
<1> QED BY <1>2, <1>3, NothingTyped DEF ReportWrites, Request

LEMMA ResumeTyped ==
  ASSUME TypeOK, NEW h \in Handoff
  PROVE  ResumeWrites(h) \in Request
<1>1. ResumeWrites(h).status \in Partial(Status)
  <2>1. [g \in {h} |-> "QUEUED"] \in [{h} -> Status]
    BY DEF Status, ACTIVE_HANDOFF_STATUSES
  <2> QED BY <2>1, PartialIntro DEF ResumeWrites
<1>2. ResumeWrites(h).worker \in Partial(Worker \cup {None})
  <2> DEFINE T == {x \in {h} : worker[x] # None}
  <2>1. [g \in T |-> None] \in [T -> Worker \cup {None}] /\ T \in SUBSET Handoff
    OBVIOUS
  <2> QED BY <2>1, PartialIntro DEF ResumeWrites
<1> QED BY <1>1, <1>2, NothingTyped DEF ResumeWrites, Request

\* A request that only sets the status of some handoffs.
LEMMA StatusOnlyTyped ==
  ASSUME NEW T \in SUBSET Handoff, NEW s \in Status
  PROVE  [status |-> [h \in T |-> s], claimed |-> Nothing, worker |-> Nothing,
          taken |-> {}] \in Request
<1>1. [h \in T |-> s] \in Partial(Status)
  BY PartialIntro
<1> QED BY <1>1, NothingTyped DEF Request

-----------------------------------------------------------------------------
(* Type correctness                                                         *)

LEMMA SendTyped ==
  ASSUME TypeOK, NEW a \in Actor, NEW r \in Request, Send(a, r)
  PROVE  /\ status' \in [Handoff -> Status]
         /\ claimed' \in [Handoff -> Lease]
         /\ worker' \in [Handoff -> Worker \cup {None}]
         /\ req' \in [Actor -> Request \cup {None}]
BY DEF TypeOK, Send, table

LEMMA CommitTyped ==
  ASSUME TypeOK, NEW a \in Actor, Commit(a)
  PROVE  /\ last' \in 0 .. MaxHandoffs
         /\ product' \in [Handoff -> Product \cup {None}]
         /\ status' \in [Handoff -> Status]
         /\ claimed' \in [Handoff -> Lease]
         /\ worker' \in [Handoff -> Worker \cup {None}]
         /\ req' \in [Actor -> Request \cup {None}]
         /\ req[a].taken \subseteq Handoff
<1>1. req[a] # None
  BY DEF Commit
<1>2. status' \in [Handoff -> Status]
  BY <1>1, RequestElim, OverTyped DEF Commit, TypeOK
<1>3. claimed' \in [Handoff -> Lease]
  BY <1>1, RequestElim, OverTyped DEF Commit, TypeOK
<1>4. worker' \in [Handoff -> Worker \cup {None}]
  BY <1>1, RequestElim, OverTyped DEF Commit, TypeOK
<1> QED BY <1>1, <1>2, <1>3, <1>4, RequestElim DEF Commit, TypeOK

LEMMA CreateTyped ==
  ASSUME TypeOK, NEW a \in Person, NEW wanted \in SUBSET Product, Create(a, wanted)
  PROVE  TypeOK'
<1> DEFINE fresh == {p \in wanted : ~Active(p)}
           n     == Cardinality(fresh)
           ids   == last + 1 .. last + n
           r     == [status |-> [h \in ids |-> "QUEUED"], claimed |-> Nothing,
                     worker |-> Nothing, taken |-> {}]
<1>1. n \in Nat /\ fresh \subseteq Product
  BY ProductAssumption, FS_Subset, FS_CardinalityType
<1>2. last + n <= MaxHandoffs /\ last' = last + n /\ Send(a, r)
  BY DEF Create
<1>3. PICK f \in [ids -> fresh] : product' = Over(f, product)
  BY DEF Create
<1> HIDE DEF n, fresh
<1>4. ids \subseteq Handoff
  BY <1>1, <1>2, BoundAssumption DEF TypeOK, Handoff
<1>5. last' \in 0 .. MaxHandoffs
  BY <1>1, <1>2, BoundAssumption DEF TypeOK
<1>6. product' \in [Handoff -> Product \cup {None}]
  <2>1. f \in [ids -> Product \cup {None}]
    BY <1>1, <1>3
  <2>2. f \in Partial(Product \cup {None})
    BY <1>4, <2>1, PartialIntro
  <2> QED BY <1>3, <2>2, OverTyped DEF TypeOK
<1>7. r \in Request
  BY <1>4, StatusOnlyTyped DEF Status, ACTIVE_HANDOFF_STATUSES
<1>8. a \in Actor
  BY DEF Actor
<1> QED
  BY <1>2, <1>5, <1>6, <1>7, <1>8, SendTyped DEF Create, TypeOK, browser, outside

\* No step breaks a type.
LEMMA TypeStep == TypeOK /\ [Next]_vars => TypeOK'
<1> SUFFICES ASSUME TypeOK, [Next]_vars PROVE TypeOK'
  OBVIOUS
<1>0. Person \subseteq Actor /\ Browser \subseteq Actor
  BY DEF Actor
<1>1. CASE UNCHANGED vars
  BY <1>1 DEF vars, table, browser, outside, TypeOK
<1>2. ASSUME NEW a \in Person, AtDashboard(a) PROVE TypeOK'
  <2>1. ASSUME NEW wanted \in SUBSET Product, Create(a, wanted) PROVE TypeOK'
    BY <2>1, CreateTyped
  <2>2. ASSUME NEW h \in Handoff, Cancel(a, h) PROVE TypeOK'
    <3>1. {h} \in SUBSET Handoff /\ "CANCELED" \in Status
      BY DEF Status, Ended
    <3> QED BY <1>0, <2>2, <3>1, StatusOnlyTyped, SendTyped
               DEF Cancel, TypeOK, browser, outside
  <2>3. ASSUME NEW h \in Handoff, Resume(a, h) PROVE TypeOK'
    BY <1>0, <2>3, ResumeTyped, SendTyped, BoundAssumption
       DEF Resume, Trouble, TypeOK, browser
  <2>4. CASE Answered(a)
    BY <1>0, <2>4, CommitTyped DEF Answered, TypeOK, browser, outside
  <2> QED BY <1>2, <2>1, <2>2, <2>3, <2>4 DEF AtDashboard
<1>3. ASSUME NEW b \in Browser, Poll(b) PROVE TypeOK'
  <2>1. CASE Look(b)
    BY <2>1 DEF Look, Become, Phase, TypeOK, table, outside
  <2>2. CASE NotReady(b)
    BY <2>2 DEF NotReady, Become, Phase, TypeOK, table, outside
  <2>3. CASE Ask(b)
    BY <1>0, <2>3, ClaimTyped, SendTyped DEF Ask, Become, Phase, TypeOK, outside
  <2>4. CASE Given(b)
    BY <1>0, <2>4, CommitTyped DEF Given, Become, Phase, TypeOK, outside
  <2>5. CASE Open(b)
    <3>1. "OPENED" \in Status
      BY DEF Status, ACTIVE_HANDOFF_STATUSES, LEASED_HANDOFF_STATUSES
    <3> QED BY <1>0, <2>5, <3>1, ReportTyped, SendTyped
               DEF Open, Become, Phase, TypeOK, outside
  <2>6. CASE Opened(b)
    BY <1>0, <2>6, CommitTyped DEF Opened, Become, Phase, TypeOK, outside
  <2>7. CASE Click(b)
    BY <2>7 DEF Click, Become, Phase, TypeOK, table
  <2>8. ASSUME NEW s \in Status, Conclude(b, s) PROVE TypeOK'
    BY <1>0, <2>8, ReportTyped, SendTyped DEF Conclude, Become, Phase, TypeOK, outside
  <2>9. CASE Reported(b)
    BY <1>0, <2>9, CommitTyped DEF Reported, Become, Drop, Phase, TypeOK, outside
  <2> QED BY <1>3, <2>1, <2>2, <2>3, <2>4, <2>5, <2>6, <2>7, <2>8, <2>9 DEF Poll
<1>4. CASE Environment
  <2>1. ASSUME NEW b \in Browser, Crash(b) PROVE TypeOK'
    BY <2>1, BoundAssumption DEF Crash, Become, Drop, Trouble, Phase, TypeOK, table
  <2>2. ASSUME NEW b \in Browser, Unheard(b) PROVE TypeOK'
    BY <1>0, <2>2, CommitTyped DEF Unheard, TypeOK, browser, outside
  <2>3. ASSUME NEW b \in Browser, LoseAsk(b) PROVE TypeOK'
    BY <2>3, BoundAssumption DEF LoseAsk, Become, Trouble, Phase, TypeOK, table
  <2>4. ASSUME NEW b \in Browser, LoseOpened(b) PROVE TypeOK'
    BY <2>4, BoundAssumption DEF LoseOpened, Become, Trouble, Phase, TypeOK, table
  <2>5. ASSUME NEW b \in Browser, NEW s \in Status, LoseOutcome(b, s) PROVE TypeOK'
    BY <2>5, BoundAssumption DEF LoseOutcome, Become, Drop, Trouble, Phase, TypeOK, table
  <2>6. ASSUME NEW b \in Browser, PageBlocks(b) PROVE TypeOK'
    BY <2>6, BoundAssumption DEF PageBlocks, Trouble, TypeOK, table, browser
  <2>7. ASSUME NEW b \in Browser, PageConfirmed(b) PROVE TypeOK'
    BY <2>7 DEF PageConfirmed, TypeOK, table, browser
  <2>8. ASSUME NEW h \in Handoff, LeaseRunsOut(h) PROVE TypeOK'
    BY <2>8 DEF LeaseRunsOut, Lease, TypeOK, browser, outside
  <2> QED BY <1>4, <2>1, <2>2, <2>3, <2>4, <2>5, <2>6, <2>7, <2>8 DEF Environment
<1> QED BY <1>1, <1>2, <1>3, <1>4 DEF Next

\* Every reachable state is well typed: each request writes statuses, claim
\* times and worker ids that the table admits, and to existing ids only.
THEOREM TypeCorrect == Spec => []TypeOK
<1>1. Init => TypeOK
  <2> SUFFICES ASSUME Init PROVE TypeOK
    OBVIOUS
  <2> QED BY BoundAssumption DEF Init, TypeOK, Status, Lease, Phase
<1> QED BY <1>1, TypeStep, PTL DEF Spec
-----------------------------------------------------------------------------
(* Success means a submitted link                                           *)

\* What is written as SUCCEEDED, is about to be, or may soon be reported so,
\* was clicked.
Submitted ==
  /\ SucceededWasSubmitted
  /\ \A a \in Actor : req[a] # None =>
       \A h \in DOMAIN req[a].status : req[a].status[h] = "SUCCEEDED" => h \in clicked
  /\ \A b \in Browser : phase[b] = "clicked" => hold[b] \subseteq clicked

LEMMA SubmittedCommit ==
  ASSUME TypeOK, Submitted, NEW a \in Actor, Commit(a), UNCHANGED clicked
  PROVE  /\ SucceededWasSubmitted'
         /\ \A c \in Actor : req'[c] # None =>
              \A h \in DOMAIN req'[c].status : req'[c].status[h] = "SUCCEEDED" => h \in clicked'
<1>1. SucceededWasSubmitted'
  BY DEF Submitted, SucceededWasSubmitted, Commit, Over
<1>2. \A c \in Actor : req'[c] \in {req[c], None}
  BY DEF Commit, TypeOK
<1> QED BY <1>1, <1>2 DEF Submitted

LEMMA SubmittedSend ==
  ASSUME TypeOK, Submitted, NEW a \in Actor, NEW r, Send(a, r), UNCHANGED clicked,
         \A h \in DOMAIN r.status : r.status[h] = "SUCCEEDED" => h \in clicked
  PROVE  /\ SucceededWasSubmitted'
         /\ \A c \in Actor : req'[c] # None =>
              \A h \in DOMAIN req'[c].status : req'[c].status[h] = "SUCCEEDED" => h \in clicked'
<1>1. SucceededWasSubmitted'
  BY DEF Submitted, SucceededWasSubmitted, Send, table
<1>2. \A c \in Actor : req'[c] \in {req[c], r} /\ (req'[c] = r \/ req'[c] = req[c])
  BY DEF Send, TypeOK
<1> QED BY <1>1, <1>2 DEF Submitted

\* Steps that leave the table and the requests alone.
LEMMA SubmittedQuiet ==
  ASSUME Submitted, UNCHANGED <<table, req>>, clicked \subseteq clicked'
  PROVE  /\ SucceededWasSubmitted'
         /\ \A c \in Actor : req'[c] # None =>
              \A h \in DOMAIN req'[c].status : req'[c].status[h] = "SUCCEEDED" => h \in clicked'
BY DEF Submitted, SucceededWasSubmitted, table

LEMMA SubmittedInvariance == Spec => []Submitted
<1>1. Init => Submitted
  BY DEF Init, Submitted, SucceededWasSubmitted
<1>2. TypeOK /\ Submitted /\ [Next]_vars => Submitted'
  <2> SUFFICES ASSUME TypeOK, Submitted, [Next]_vars PROVE Submitted'
    OBVIOUS
  <2>0. Person \subseteq Actor /\ Browser \subseteq Actor
    BY DEF Actor
  <2>1. CASE UNCHANGED vars
    BY <2>1, SubmittedQuiet DEF vars, browser, outside, Submitted
  <2>2. ASSUME NEW a \in Person, AtDashboard(a) PROVE Submitted'
    <3>1. ASSUME NEW wanted \in SUBSET Product, Create(a, wanted) PROVE Submitted'
      <4> DEFINE n == Cardinality({p \in wanted : ~Active(p)})
                 r == [status |-> [h \in last + 1 .. last + n |-> "QUEUED"],
                       claimed |-> Nothing, worker |-> Nothing, taken |-> {}]
      <4>1. Send(a, r) /\ UNCHANGED <<browser, outside>>
        BY <3>1 DEF Create
      <4>2. \A h \in DOMAIN r.status : r.status[h] # "SUCCEEDED"
        OBVIOUS
      <4> HIDE DEF r
      <4> QED BY <2>0, <4>1, <4>2, SubmittedSend DEF Submitted, browser, outside
    <3>2. ASSUME NEW h \in Handoff, Cancel(a, h) PROVE Submitted'
      BY <2>0, <3>2, SubmittedSend DEF Cancel, Submitted, browser, outside
    <3>3. ASSUME NEW h \in Handoff, Resume(a, h) PROVE Submitted'
      BY <2>0, <3>3, SubmittedSend DEF Resume, ResumeWrites, Submitted, browser
    <3>4. CASE Answered(a)
      BY <2>0, <3>4, SubmittedCommit DEF Answered, Submitted, browser, outside
    <3> QED BY <2>2, <3>1, <3>2, <3>3, <3>4 DEF AtDashboard
  <2>3. ASSUME NEW b \in Browser, Poll(b) PROVE Submitted'
    <3>1. CASE Look(b)
      BY <3>1, SubmittedQuiet DEF Look, Become, Submitted, TypeOK, outside
    <3>2. CASE NotReady(b)
      BY <3>2, SubmittedQuiet DEF NotReady, Become, Submitted, TypeOK, outside
    <3>3. CASE Ask(b)
      <4>1. \A h \in DOMAIN ClaimWrites(b).status : ClaimWrites(b).status[h] # "SUCCEEDED"
        BY DEF ClaimWrites
      <4> QED BY <2>0, <3>3, <4>1, SubmittedSend DEF Ask, Become, Submitted, TypeOK, outside
    <3>4. CASE Given(b)
      BY <2>0, <3>4, SubmittedCommit DEF Given, Become, Submitted, TypeOK, outside
    <3>5. CASE Open(b)
      <4>1. \A h \in DOMAIN ReportWrites(b, "OPENED").status :
              ReportWrites(b, "OPENED").status[h] # "SUCCEEDED"
        BY DEF ReportWrites
      <4> QED BY <2>0, <3>5, <4>1, SubmittedSend DEF Open, Become, Submitted, TypeOK, outside
    <3>6. CASE Opened(b)
      BY <2>0, <3>6, SubmittedCommit DEF Opened, Become, Submitted, TypeOK, outside
    <3>7. CASE Click(b)
      BY <3>7, SubmittedQuiet DEF Click, Become, Submitted, TypeOK
    <3>8. ASSUME NEW s \in Status, Conclude(b, s) PROVE Submitted'
      <4>1. \A h \in DOMAIN ReportWrites(b, s).status :
              ReportWrites(b, s).status[h] = "SUCCEEDED" => h \in clicked
        <5>1. s = "SUCCEEDED" => phase[b] = "clicked"
          BY <3>8 DEF Conclude, Outcomes
        <5> QED BY <5>1 DEF ReportWrites, Submitted
      <4> QED BY <2>0, <3>8, <4>1, SubmittedSend DEF Conclude, Become, Submitted, TypeOK, outside
    <3>9. CASE Reported(b)
      BY <2>0, <3>9, SubmittedCommit DEF Reported, Become, Drop, Submitted, TypeOK, outside
    <3> QED BY <2>3, <3>1, <3>2, <3>3, <3>4, <3>5, <3>6, <3>7, <3>8, <3>9 DEF Poll
  <2>4. CASE Environment
    <3>1. ASSUME NEW b \in Browser, Crash(b) PROVE Submitted'
      BY <3>1, SubmittedQuiet DEF Crash, Become, Drop, Submitted, TypeOK
    <3>2. ASSUME NEW b \in Browser, Unheard(b) PROVE Submitted'
      BY <2>0, <3>2, SubmittedCommit DEF Unheard, Submitted, browser, outside
    <3>3. ASSUME NEW b \in Browser, LoseAsk(b) PROVE Submitted'
      BY <3>3, SubmittedQuiet DEF LoseAsk, Become, Submitted, TypeOK
    <3>4. ASSUME NEW b \in Browser, LoseOpened(b) PROVE Submitted'
      BY <3>4, SubmittedQuiet DEF LoseOpened, Become, Submitted, TypeOK
    <3>5. ASSUME NEW b \in Browser, NEW s \in Status, LoseOutcome(b, s) PROVE Submitted'
      BY <3>5, SubmittedQuiet DEF LoseOutcome, Become, Drop, Submitted, TypeOK
    <3>6. ASSUME NEW b \in Browser, PageBlocks(b) PROVE Submitted'
      BY <3>6, SubmittedQuiet DEF PageBlocks, Submitted, browser
    <3>7. ASSUME NEW b \in Browser, PageConfirmed(b) PROVE Submitted'
      BY <3>7, SubmittedQuiet DEF PageConfirmed, Submitted, browser
    <3>8. ASSUME NEW h \in Handoff, LeaseRunsOut(h) PROVE Submitted'
      BY <3>8 DEF LeaseRunsOut, Submitted, SucceededWasSubmitted, browser, outside
    <3> QED BY <2>4, <3>1, <3>2, <3>3, <3>4, <3>5, <3>6, <3>7, <3>8 DEF Environment
  <2> QED BY <2>1, <2>2, <2>3, <2>4 DEF Next
<1> QED BY <1>1, <1>2, TypeCorrect, PTL DEF Spec

\* A handoff that counts as succeeded was submitted, for any number of browsers
\* and people, overlapping requests and leases that run out at any time.
THEOREM SucceededWasSubmittedHolds == Spec => []SucceededWasSubmitted
<1>1. Submitted => SucceededWasSubmitted
  BY DEF Submitted
<1> QED BY <1>1, SubmittedInvariance, PTL
-----------------------------------------------------------------------------
(* Requests one after the other, browsers within their lease                *)

\* An id that was not given out has no row.
IdsInOrder == \A h \in Handoff : h > last => status[h] = "ABSENT"

OneRequest == \A a, c \in Actor : req[a] # None /\ req[c] # None => a = c

\* What a browser holds has a live lease, and was not taken from it: at most a
\* person canceled it.
HoldersGuarded ==
  \A b \in Browser : \A h \in hold[b] :
    claimed[h] = "live" /\ status[h] \in LEASED_HANDOFF_STATUSES \cup {"CANCELED"}

\* The effect of a request r of a on the handoffs that are held, leased or over.
\* Columns are cleared only for handoffs nobody holds; a held handoff is
\* canceled by a person, opened by its holder, or let go with the same report.
RequestFits(a, r) ==
  /\ \A h \in DOMAIN r.status :
       /\ h <= last
       /\ status[h] \notin {"SUCCEEDED", "CANCELED"}
       /\ r.status[h] \in LEASED_HANDOFF_STATUSES =>
            IF h \in DOMAIN r.claimed THEN r.claimed[h] = "live" ELSE claimed[h] # "none"
       /\ \A c \in Browser : h \in hold[c] =>
            \/ r.status[h] = "CANCELED"
            \/ c = a /\ phase[c] = "opening" /\ r.status[h] = "OPENED"
            \/ c = a /\ phase[c] \in {"reporting", "pausing"}
  /\ \A h \in DOMAIN r.claimed :
       /\ \A c \in Browser : h \notin hold[c]
       /\ r.claimed[h] = "live" \/ (h \in DOMAIN r.status /\ r.status[h] = "QUEUED")
  /\ \A h \in r.taken :
       /\ h \in DOMAIN r.status /\ r.status[h] = "CLAIMED"
       /\ h \in DOMAIN r.claimed /\ r.claimed[h] = "live"

SerialInv ==
  /\ TypeOK
  /\ IdsInOrder
  /\ OneRequest
  /\ OneBrowserPerHandoff
  /\ HoldersGuarded
  /\ LeaseProtectsClaimed
  /\ \A a \in Actor : req[a] # None => RequestFits(a, req[a])

\* What is over stays over in a step.
EndedKept ==
  \A h \in Handoff : status[h] \in {"SUCCEEDED", "CANCELED"} => status'[h] = status[h]

\* A step that leaves the table and the requests alone; browsers let go of what
\* they hold, or keep it and do not leave a phase in which they report.
Quiet ==
  /\ UNCHANGED <<last, table, req>>
  /\ \A b \in Browser :
       /\ hold'[b] \subseteq hold[b]
       /\ hold'[b] = {} \/ phase'[b] = phase[b]
            \/ phase[b] \notin {"opening", "reporting", "pausing"}

LEMMA QuietKeeps ==
  ASSUME SerialInv, TypeOK', Quiet
  PROVE  SerialInv' /\ EndedKept
<1>1. status' = status /\ claimed' = claimed /\ worker' = worker /\ req' = req
      /\ last' = last
  BY DEF Quiet, table
<1>2. \A b \in Browser : hold'[b] \subseteq hold[b]
  BY DEF Quiet
<1>3. IdsInOrder' /\ OneRequest' /\ OneBrowserPerHandoff' /\ HoldersGuarded' /\ LeaseProtectsClaimed'
  BY <1>1, <1>2 DEF SerialInv, IdsInOrder, OneRequest, OneBrowserPerHandoff, HoldersGuarded,
     LeaseProtectsClaimed
<1>4. ASSUME NEW a \in Actor, req'[a] # None PROVE RequestFits(a, req[a])'
  <2>1. RequestFits(a, req[a])
    BY <1>1, <1>4 DEF SerialInv
  <2>2. ASSUME NEW h \in DOMAIN req[a].status, NEW c \in Browser, h \in hold'[c]
        PROVE  \/ req[a].status[h] = "CANCELED"
               \/ c = a /\ phase'[c] = "opening" /\ req[a].status[h] = "OPENED"
               \/ c = a /\ phase'[c] \in {"reporting", "pausing"}
    BY <1>2, <2>1, <2>2 DEF RequestFits, Quiet
  <2> QED BY <1>1, <1>2, <2>1, <2>2 DEF RequestFits
<1> QED BY <1>1, <1>3, <1>4 DEF SerialInv, EndedKept

\* After a commit no request is under way.
LEMMA CommitKeeps ==
  ASSUME SerialInv, TypeOK', NEW a \in Actor, Commit(a),
         OneBrowserPerHandoff', HoldersGuarded'
  PROVE  SerialInv' /\ EndedKept
<1>1. RequestFits(a, req[a])
  BY DEF SerialInv, Commit
<1>2. \A c \in Actor : req'[c] = None
  BY DEF SerialInv, OneRequest, Commit, TypeOK
<1>3. LeaseProtectsClaimed'
  <2> SUFFICES ASSUME NEW h \in Handoff, status'[h] \in LEASED_HANDOFF_STATUSES
               PROVE  claimed'[h] # "none"
    BY DEF LeaseProtectsClaimed
  <2>1. CASE h \in DOMAIN req[a].status
    BY <1>1, <2>1 DEF Commit, Over, RequestFits
  <2>2. CASE h \notin DOMAIN req[a].status
    <3>1. status[h] \in LEASED_HANDOFF_STATUSES
      BY <2>2 DEF Commit, Over
    <3>2. claimed[h] # "none"
      BY <3>1 DEF SerialInv, LeaseProtectsClaimed
    <3> QED BY <1>1, <2>2, <3>2 DEF Commit, Over, RequestFits
  <2> QED BY <2>1, <2>2
<1>4. EndedKept
  BY <1>1 DEF EndedKept, RequestFits, Commit, Over
<1>5. IdsInOrder'
  <2> SUFFICES ASSUME NEW h \in Handoff, h > last PROVE status'[h] = "ABSENT"
    BY DEF IdsInOrder, Commit
  <2>1. status[h] = "ABSENT"
    BY DEF SerialInv, IdsInOrder
  <2>2. last \in Int /\ h \in Int
    BY DEF SerialInv, TypeOK, Handoff
  <2>3. h \notin DOMAIN req[a].status
    BY <1>1, <2>2 DEF RequestFits
  <2> QED BY <2>1, <2>3 DEF Commit, Over
<1> QED BY <1>2, <1>3, <1>4, <1>5 DEF SerialInv, OneRequest

\* What a commit does to the handoffs that other browsers hold.
LEMMA CommitSpares ==
  ASSUME SerialInv, NEW a \in Actor, Commit(a), NEW c \in Browser, NEW h \in hold[c],
         c # a \/ phase[c] \notin {"reporting", "pausing"}
  PROVE  claimed'[h] = "live" /\ status'[h] \in LEASED_HANDOFF_STATUSES \cup {"CANCELED"}
<1>1. RequestFits(a, req[a]) /\ h \in Handoff
  BY DEF SerialInv, Commit, TypeOK
<1>2. claimed[h] = "live" /\ status[h] \in LEASED_HANDOFF_STATUSES \cup {"CANCELED"}
  BY DEF SerialInv, HoldersGuarded
<1>3. claimed'[h] = "live"
  BY <1>1, <1>2 DEF Commit, Over, RequestFits
<1>4. status'[h] \in LEASED_HANDOFF_STATUSES \cup {"CANCELED"}
  <2>1. CASE h \in DOMAIN req[a].status
    <3>1. req[a].status[h] \in {"CANCELED", "OPENED"}
      BY <1>1, <2>1 DEF RequestFits
    <3> QED BY <1>1, <2>1, <3>1 DEF Commit, Over, LEASED_HANDOFF_STATUSES
  <2>2. CASE h \notin DOMAIN req[a].status
    BY <1>1, <1>2, <2>2 DEF Commit, Over
  <2> QED BY <2>1, <2>2
<1> QED BY <1>3, <1>4

\* Requests are sent when none is under way; what fits then fits until the commit.
LEMMA SendKeeps ==
  ASSUME SerialInv, TypeOK', ~Overlap, NEW a \in Actor, NEW r, Send(a, r),
         UNCHANGED hold, last <= last', RequestFits(a, r)'
  PROVE  SerialInv' /\ EndedKept
<1>1. status' = status /\ claimed' = claimed /\ worker' = worker
  BY DEF Send, table
<1>2. \A c \in Actor : req[c] = None
  BY DEF Send, Free
<1>3. \A c \in Actor : req'[c] = IF c = a THEN r ELSE None
  BY <1>2 DEF Send, SerialInv, TypeOK
<1>4. OneRequest'
  BY <1>3 DEF OneRequest
<1>5. OneBrowserPerHandoff' /\ HoldersGuarded' /\ LeaseProtectsClaimed'
  BY <1>1 DEF SerialInv, OneBrowserPerHandoff, HoldersGuarded, LeaseProtectsClaimed
<1>6. ASSUME NEW c \in Actor, req'[c] # None PROVE RequestFits(c, req[c])'
  BY <1>3, <1>6 DEF RequestFits
<1>7. IdsInOrder'
  <2>1. last \in Int /\ last' \in Int /\ Handoff \subseteq Int
    BY DEF SerialInv, TypeOK, Handoff
  <2> QED BY <1>1, <2>1 DEF SerialInv, IdsInOrder
<1> QED BY <1>1, <1>4, <1>5, <1>6, <1>7 DEF SerialInv, EndedKept
\* The ids of a committed row were given out.
LEMMA Known ==
  ASSUME SerialInv, NEW h \in Handoff, status[h] # "ABSENT"
  PROVE  h <= last
BY DEF SerialInv, IdsInOrder, TypeOK, Handoff

\* A request that claims nothing and writes no claim time, and sets only the
\* status of handoffs that nobody holds, or cancels them.
LEMMA StatusFits ==
  ASSUME SerialInv, TypeOK', NEW a \in Actor, NEW r, r.claimed = Nothing, r.taken = {},
         UNCHANGED <<table, hold, phase>>,
         \A h \in DOMAIN r.status :
           /\ h <= last'
           /\ status[h] \notin {"SUCCEEDED", "CANCELED"}
           /\ r.status[h] \notin LEASED_HANDOFF_STATUSES
           /\ (\A c \in Browser : h \notin hold[c]) \/ r.status[h] = "CANCELED"
  PROVE  RequestFits(a, r)'
<1>1. DOMAIN Nothing = {}
  BY DEF Nothing
<1> QED BY <1>1 DEF RequestFits, table

\* Nobody holds a handoff that is neither leased nor canceled.
LEMMA NotHeld ==
  ASSUME SerialInv, NEW h \in Handoff,
         status[h] \notin LEASED_HANDOFF_STATUSES \cup {"CANCELED"}
  PROVE  \A c \in Browser : h \notin hold[c]
BY DEF SerialInv, HoldersGuarded

\* The steps of people at the dashboard.
LEMMA PersonKeeps ==
  ASSUME SerialInv, TypeOK', ~Overlap, NEW a \in Person, AtDashboard(a)
  PROVE  SerialInv' /\ EndedKept
<1>0. a \in Actor /\ a \notin Browser
  BY ActorAssumption DEF Actor
<1>1. ASSUME NEW wanted \in SUBSET Product, Create(a, wanted)
      PROVE  SerialInv' /\ EndedKept
  <2> DEFINE n == Cardinality({p \in wanted : ~Active(p)})
  <2>0. PICK r : r = [status |-> [h \in last + 1 .. last + n |-> "QUEUED"],
                      claimed |-> Nothing, worker |-> Nothing, taken |-> {}]
    OBVIOUS
  <2>1. Send(a, r) /\ UNCHANGED <<browser, outside>> /\ last' = last + n
    BY <1>1, <2>0 DEF Create
  <2>2. n \in Nat
    BY ProductAssumption, FS_Subset, FS_CardinalityType
  <2> HIDE DEF n
  <2>3. last \in Nat /\ last' <= MaxHandoffs
    BY <1>1 DEF SerialInv, TypeOK, Create
  <2>4. ASSUME NEW h \in last + 1 .. last + n
        PROVE  h \in Handoff /\ h <= last' /\ status[h] = "ABSENT"
    BY <2>1, <2>2, <2>3, BoundAssumption DEF SerialInv, IdsInOrder, Handoff
  <2>5. \A h \in last + 1 .. last + n : \A c \in Browser : h \notin hold[c]
    BY <2>4, NotHeld DEF LEASED_HANDOFF_STATUSES
  <2>6. DOMAIN r.status = last + 1 .. last + n /\ r.claimed = Nothing /\ r.taken = {}
    BY <2>0
  <2>7. \A h \in DOMAIN r.status : r.status[h] = "QUEUED"
    BY <2>0
  <2>8. RequestFits(a, r)'
    BY <1>0, <2>1, <2>4, <2>5, <2>6, <2>7, StatusFits
       DEF LEASED_HANDOFF_STATUSES, Send, browser
  <2>9. last <= last'
    BY <2>1, <2>2, <2>3
  <2> QED BY <1>0, <2>1, <2>8, <2>9, SendKeeps DEF browser
<1>2. ASSUME NEW h \in Handoff, Cancel(a, h)
      PROVE  SerialInv' /\ EndedKept
  <2>0. PICK r : r = [status |-> [g \in {h} |-> "CANCELED"], claimed |-> Nothing,
                      worker |-> Nothing, taken |-> {}]
    OBVIOUS
  <2>1. Send(a, r) /\ UNCHANGED <<last, browser>> /\ status[h] \in ACTIVE_HANDOFF_STATUSES
    BY <1>2, <2>0 DEF Cancel
  <2>2. DOMAIN r.status = {h} /\ r.status[h] = "CANCELED" /\ r.claimed = Nothing /\ r.taken = {}
    BY <2>0
  <2>3. h <= last /\ status[h] \notin {"SUCCEEDED", "CANCELED"}
    BY <2>1, Known DEF ACTIVE_HANDOFF_STATUSES, LEASED_HANDOFF_STATUSES
  <2>4. RequestFits(a, r)'
    BY <1>0, <2>1, <2>2, <2>3, StatusFits DEF LEASED_HANDOFF_STATUSES, Send, browser
  <2> QED BY <1>0, <2>1, <2>4, SendKeeps DEF browser, SerialInv, TypeOK
<1>3. ASSUME NEW h \in Handoff, Resume(a, h)
      PROVE  SerialInv' /\ EndedKept
  <2>0. PICK r : r = ResumeWrites(h)
    OBVIOUS
  <2>1. Send(a, r) /\ UNCHANGED <<last, browser>> /\ status[h] \in {"NEEDS_CONFIRMATION", "FAILED"}
    BY <1>3, <2>0 DEF Resume
  <2>2. DOMAIN r.status = {h} /\ r.status[h] = "QUEUED" /\ r.claimed = Nothing /\ r.taken = {}
    BY <2>0 DEF ResumeWrites
  <2>3. h <= last /\ status[h] \notin {"SUCCEEDED", "CANCELED"}
    BY <2>1, Known
  <2>4. \A c \in Browser : h \notin hold[c]
    BY <2>1, NotHeld DEF LEASED_HANDOFF_STATUSES
  <2>5. RequestFits(a, r)'
    BY <1>0, <2>1, <2>2, <2>3, <2>4, StatusFits DEF LEASED_HANDOFF_STATUSES, Send, browser
  <2> QED BY <1>0, <2>1, <2>5, SendKeeps DEF browser, SerialInv, TypeOK
<1>4. CASE Answered(a)
  <2>1. Commit(a) /\ hold' = hold
    BY <1>4 DEF Answered, browser
  <2>2. HoldersGuarded'
    BY <1>0, <2>1, CommitSpares DEF HoldersGuarded
  <2>3. OneBrowserPerHandoff'
    BY <2>1 DEF SerialInv, OneBrowserPerHandoff
  <2> QED BY <1>0, <2>1, <2>2, <2>3, CommitKeeps
<1> QED BY <1>1, <1>2, <1>3, <1>4 DEF AtDashboard
\* A claim writes only to handoffs that nobody holds.
LEMMA AskKeeps ==
  ASSUME SerialInv, TypeOK', ~Overlap, NEW b \in Browser, Ask(b)
  PROVE  SerialInv' /\ EndedKept
<1>0. b \in Actor
  BY DEF Actor
<1>1. PICK r : r = ClaimWrites(b)
  OBVIOUS
<1>2. Send(b, r) /\ UNCHANGED <<last, hold, table>>
  BY <1>1 DEF Ask, Send
<1>3. ASSUME NEW h \in Queue(b)
      PROVE  /\ h \in Handoff /\ h <= last
             /\ status[h] \notin {"SUCCEEDED", "CANCELED"}
             /\ \A c \in Browser : h \notin hold[c]
  <2>1. h \in Handoff
    BY DEF Queue, PutBack, Expired
  <2>2. CASE h \in Expired
    BY <2>1, <2>2, Known DEF Expired, LEASED_HANDOFF_STATUSES, SerialInv, HoldersGuarded
  <2>3. CASE status[h] \in {"QUEUED", "NEEDS_CONFIRMATION"}
    BY <2>1, <2>3, Known, NotHeld DEF LEASED_HANDOFF_STATUSES
  <2> QED BY <2>2, <2>3 DEF Queue, PutBack
<1>4. /\ PutBack(b) \subseteq Queue(b)
      /\ Taken(b) \subseteq Queue(b)
  BY DEF Queue, Taken
<1>5. /\ DOMAIN r.status = PutBack(b) \cup Taken(b)
      /\ \A h \in DOMAIN r.status : r.status[h] = IF h \in Taken(b) THEN "CLAIMED" ELSE "QUEUED"
      /\ Taken(b) \subseteq DOMAIN r.claimed
      /\ DOMAIN r.claimed \subseteq PutBack(b) \cup Taken(b)
      /\ \A h \in DOMAIN r.claimed : r.claimed[h] = IF h \in Taken(b) THEN "live" ELSE "none"
      /\ r.taken = Taken(b)
  BY <1>1 DEF ClaimWrites, ClaimTimes
<1>6. RequestFits(b, r)'
  <2>1. status' = status /\ claimed' = claimed /\ last' = last /\ hold' = hold
    BY <1>2 DEF table
  <2> QED BY <1>3, <1>4, <1>5, <2>1 DEF RequestFits, LEASED_HANDOFF_STATUSES
<1> QED BY <1>0, <1>2, <1>6, SendKeeps DEF SerialInv, TypeOK

\* A report writes only to what its browser alone holds.
LEMMA ReportKeeps ==
  ASSUME SerialInv, TypeOK', ~Overlap, NEW b \in Browser, NEW s \in Status,
         Send(b, ReportWrites(b, s)), UNCHANGED <<last, hold>>,
         \/ s = "OPENED" /\ phase'[b] = "opening"
         \/ s \notin LEASED_HANDOFF_STATUSES /\ phase'[b] \in {"reporting", "pausing"}
  PROVE  SerialInv' /\ EndedKept
<1>0. b \in Actor
  BY DEF Actor
<1>1. PICK r : r = ReportWrites(b, s)
  OBVIOUS
<1>2. Send(b, r) /\ UNCHANGED table
  BY <1>1 DEF Send
<1>3. /\ DOMAIN r.status \subseteq hold[b]
      /\ \A h \in DOMAIN r.status : Accepts(b, h) /\ r.status[h] = s
      /\ DOMAIN r.claimed = {} /\ r.taken = {}
  BY <1>1 DEF ReportWrites, Nothing
<1>4. ASSUME NEW h \in DOMAIN r.status
      PROVE  /\ h <= last /\ claimed[h] = "live"
             /\ status[h] \notin {"SUCCEEDED", "CANCELED"}
             /\ \A c \in Browser : h \in hold[c] => c = b
  <2>1. h \in hold[b] /\ h \in Handoff
    BY <1>3 DEF SerialInv, TypeOK
  <2>2. status[h] \in ACTIVE_HANDOFF_STATUSES
    BY <1>3 DEF Accepts
  <2>3. status[h] \notin {"ABSENT", "SUCCEEDED", "CANCELED"}
    BY <2>2 DEF ACTIVE_HANDOFF_STATUSES, LEASED_HANDOFF_STATUSES
  <2>4. h <= last
    BY <2>1, <2>3, Known
  <2>5. claimed[h] = "live" /\ \A c \in Browser : h \in hold[c] => c = b
    BY <2>1 DEF SerialInv, HoldersGuarded, OneBrowserPerHandoff
  <2> QED BY <2>3, <2>4, <2>5
<1>5. RequestFits(b, r)'
  <2>1. status' = status /\ claimed' = claimed /\ last' = last /\ hold' = hold
    BY <1>2 DEF table
  <2> QED BY <1>3, <1>4, <2>1 DEF RequestFits
<1> QED BY <1>0, <1>2, <1>5, SendKeeps DEF SerialInv, TypeOK

\* The steps of a browser's poll.
LEMMA PollKeeps ==
  ASSUME SerialInv, TypeOK', ~Overlap, NEW b \in Browser, Poll(b)
  PROVE  SerialInv' /\ EndedKept
<1>0. b \in Actor
  BY DEF Actor
<1>1. CASE Look(b)
  <2>1. Quiet
    BY <1>1 DEF Look, Become, Quiet, SerialInv, TypeOK
  <2> QED BY <2>1, QuietKeeps
<1>2. CASE NotReady(b)
  <2>1. Quiet
    BY <1>2 DEF NotReady, Become, Quiet, SerialInv, TypeOK
  <2> QED BY <2>1, QuietKeeps
<1>3. CASE Ask(b)
  BY <1>3, AskKeeps
<1>4. CASE Given(b)
  <2>1. Commit(b) /\ phase[b] = "asking" /\ hold' = [hold EXCEPT ![b] = req[b].taken]
    BY <1>4 DEF Given
  <2>2. RequestFits(b, req[b])
    BY <1>0, <2>1 DEF Commit, SerialInv
  <2>3. hold'[b] = req[b].taken /\ \A c \in Browser : c # b => hold'[c] = hold[c]
    BY <2>1 DEF SerialInv, TypeOK
  <2>4. OneBrowserPerHandoff'
    <3>1. \A c \in Browser : req[b].taken \cap hold[c] = {}
      BY <2>2 DEF RequestFits
    <3> QED BY <2>3, <3>1 DEF SerialInv, OneBrowserPerHandoff
  <2>5. HoldersGuarded'
    <3> SUFFICES ASSUME NEW c \in Browser, NEW h \in hold'[c]
                 PROVE  /\ claimed'[h] = "live"
                        /\ status'[h] \in LEASED_HANDOFF_STATUSES \cup {"CANCELED"}
      BY DEF HoldersGuarded
    <3>1. CASE c = b
      <4>1. h \in req[b].taken /\ h \in Handoff
        BY <2>3, <3>1 DEF TypeOK
      <4> QED BY <2>1, <2>2, <4>1 DEF RequestFits, Commit, Over, LEASED_HANDOFF_STATUSES
    <3>2. CASE c # b
      BY <1>0, <2>1, <2>3, <3>2, CommitSpares
    <3> QED BY <3>1, <3>2
  <2> QED BY <1>0, <2>1, <2>4, <2>5, CommitKeeps
<1>5. CASE Open(b)
  <2>1. "OPENED" \in Status /\ phase'[b] = "opening"
    BY <1>5 DEF Open, Become, SerialInv, TypeOK, Status, ACTIVE_HANDOFF_STATUSES,
       LEASED_HANDOFF_STATUSES
  <2> QED BY <1>5, <2>1, ReportKeeps DEF Open
<1>6. CASE Opened(b)
  <2>1. Commit(b) /\ phase[b] = "opening" /\ hold' = hold
    BY <1>6 DEF Opened
  <2>2. HoldersGuarded'
    BY <1>0, <2>1, CommitSpares DEF HoldersGuarded
  <2>3. OneBrowserPerHandoff'
    BY <2>1 DEF SerialInv, OneBrowserPerHandoff
  <2> QED BY <1>0, <2>1, <2>2, <2>3, CommitKeeps
<1>7. CASE Click(b)
  <2>1. Quiet
    BY <1>7 DEF Click, Become, Quiet, SerialInv, TypeOK
  <2> QED BY <2>1, QuietKeeps
<1>8. ASSUME NEW s \in Status, Conclude(b, s) PROVE SerialInv' /\ EndedKept
  <2>1. s \notin LEASED_HANDOFF_STATUSES
    BY <1>8 DEF Conclude, Outcomes, LEASED_HANDOFF_STATUSES
  <2>2. phase'[b] \in {"reporting", "pausing"}
    BY <1>8 DEF Conclude, Become, SerialInv, TypeOK
  <2> QED BY <1>8, <2>1, <2>2, ReportKeeps DEF Conclude
<1>9. CASE Reported(b)
  <2>1. Commit(b) /\ hold' = [hold EXCEPT ![b] = {}]
    BY <1>9 DEF Reported, Drop
  <2>2. hold'[b] = {} /\ \A c \in Browser : c # b => hold'[c] = hold[c]
    BY <2>1 DEF SerialInv, TypeOK
  <2>3. OneBrowserPerHandoff'
    BY <2>2 DEF SerialInv, OneBrowserPerHandoff
  <2>4. HoldersGuarded'
    BY <1>0, <2>1, <2>2, CommitSpares DEF HoldersGuarded
  <2> QED BY <1>0, <2>1, <2>3, <2>4, CommitKeeps
<1> QED BY <1>1, <1>2, <1>3, <1>4, <1>5, <1>6, <1>7, <1>8, <1>9 DEF Poll
\* Troubles and the passing of time.
LEMMA EnvironmentKeeps ==
  ASSUME SerialInv, TypeOK', ~SlowBrowser, Environment
  PROVE  SerialInv' /\ EndedKept
<1>1. ASSUME NEW b \in Browser,
             Crash(b) \/ LoseAsk(b) \/ LoseOpened(b) \/ PageBlocks(b) \/ PageConfirmed(b)
      PROVE  SerialInv' /\ EndedKept
  <2>1. Quiet
    BY <1>1 DEF Crash, LoseAsk, LoseOpened, PageBlocks, PageConfirmed, Become, Drop,
       Quiet, browser, SerialInv, TypeOK
  <2> QED BY <2>1, QuietKeeps
<1>2. ASSUME NEW b \in Browser, NEW s \in Status, LoseOutcome(b, s)
      PROVE  SerialInv' /\ EndedKept
  <2>1. Quiet
    BY <1>2 DEF LoseOutcome, Become, Drop, Quiet, SerialInv, TypeOK
  <2> QED BY <2>1, QuietKeeps
<1>3. ASSUME NEW b \in Browser, Unheard(b)
      PROVE  SerialInv' /\ EndedKept
  <2>1. Commit(b) /\ phase[b] = "idle" /\ hold' = hold /\ b \in Actor
    BY <1>3 DEF Unheard, browser, Actor
  <2>2. HoldersGuarded'
    BY <2>1, CommitSpares DEF HoldersGuarded
  <2>3. OneBrowserPerHandoff'
    BY <2>1 DEF SerialInv, OneBrowserPerHandoff
  <2> QED BY <2>1, <2>2, <2>3, CommitKeeps
<1>4. ASSUME NEW h \in Handoff, LeaseRunsOut(h)
      PROVE  SerialInv' /\ EndedKept
  <2>1. /\ status' = status /\ req' = req /\ hold' = hold /\ phase' = phase /\ last' = last
        /\ \A g \in Handoff : claimed'[g] = IF g = h THEN "past" ELSE claimed[g]
        /\ \A b \in Browser : h \notin hold[b]
    BY <1>4 DEF LeaseRunsOut, browser, SerialInv, TypeOK
  <2>2. /\ IdsInOrder' /\ OneRequest' /\ OneBrowserPerHandoff' /\ LeaseProtectsClaimed'
        /\ EndedKept
    BY <2>1 DEF SerialInv, IdsInOrder, OneRequest, OneBrowserPerHandoff,
       LeaseProtectsClaimed, EndedKept
  <2>3. HoldersGuarded'
    BY <2>1 DEF SerialInv, HoldersGuarded, TypeOK
  <2>4. ASSUME NEW a \in Actor, req'[a] # None PROVE RequestFits(a, req[a])'
    <3>1. RequestFits(a, req[a])
      BY <2>1, <2>4 DEF SerialInv
    <3>2. DOMAIN req[a].status \subseteq Handoff
      BY <2>1, <2>4, RequestElim, PartialElim DEF SerialInv
    <3>3. \A g \in DOMAIN req[a].status : claimed[g] # "none" => claimed'[g] # "none"
      BY <2>1, <3>2
    <3> QED BY <2>1, <3>1, <3>3 DEF RequestFits
  <2> QED BY <2>2, <2>3, <2>4 DEF SerialInv
<1> QED BY <1>1, <1>2, <1>3, <1>4 DEF Environment

LEMMA SerialStep ==
  ASSUME ~Overlap, ~SlowBrowser
  PROVE  SerialInv /\ [Next]_vars => SerialInv' /\ EndedKept
<1> SUFFICES ASSUME SerialInv, [Next]_vars PROVE SerialInv' /\ EndedKept
  OBVIOUS
<1>1. TypeOK'
  BY TypeStep DEF SerialInv
<1>2. CASE UNCHANGED vars
  <2>1. Quiet
    BY <1>2 DEF Quiet, vars, browser
  <2> QED BY <1>1, <2>1, QuietKeeps
<1>3. CASE \E a \in Person : AtDashboard(a)
  BY <1>1, <1>3, PersonKeeps
<1>4. CASE \E b \in Browser : Poll(b)
  BY <1>1, <1>4, PollKeeps
<1>5. CASE Environment
  BY <1>1, <1>5, EnvironmentKeeps
<1> QED BY <1>2, <1>3, <1>4, <1>5 DEF Next

\* The inductive invariant behind the three theorems below.
THEOREM SerialInvariance ==
  ASSUME ~Overlap, ~SlowBrowser
  PROVE  Spec => []SerialInv
<1>1. Init => SerialInv
  <2> SUFFICES ASSUME Init PROVE SerialInv
    OBVIOUS
  <2>1. TypeOK
    BY BoundAssumption DEF Init, TypeOK, Status, Lease, Phase
  <2>2. \A a \in Actor : req[a] = None
    BY DEF Init
  <2>3. \A h \in Handoff : status[h] = "ABSENT"
    BY DEF Init
  <2>4. \A b \in Browser : hold[b] = {}
    BY DEF Init
  <2> QED
    BY <2>1, <2>2, <2>3, <2>4 DEF SerialInv, IdsInOrder, OneRequest, HoldersGuarded,
       OneBrowserPerHandoff, LeaseProtectsClaimed, LEASED_HANDOFF_STATUSES
<1>2. SerialInv /\ [Next]_vars => SerialInv'
  BY SerialStep
<1> QED BY <1>1, <1>2, PTL DEF Spec

\* No handoff is in the hands of two browsers, however many there are, whatever
\* they share as their worker id, and whatever crashes or gets lost.
THEOREM OneBrowserPerHandoffHolds ==
  ASSUME ~Overlap, ~SlowBrowser
  PROVE  Spec => []OneBrowserPerHandoff
<1>1. SerialInv => OneBrowserPerHandoff
  BY DEF SerialInv
<1> QED BY <1>1, SerialInvariance, PTL

\* Every handoff that was given to a browser has a claim time to come back by.
THEOREM LeaseProtectsClaimedHolds ==
  ASSUME ~Overlap, ~SlowBrowser
  PROVE  Spec => []LeaseProtectsClaimed
<1>1. SerialInv => LeaseProtectsClaimed
  BY DEF SerialInv
<1> QED BY <1>1, SerialInvariance, PTL

\* No late report, claim or resumption reopens a handoff that succeeded or was
\* canceled.
THEOREM EndedStaysHolds ==
  ASSUME ~Overlap, ~SlowBrowser
  PROVE  Spec => EndedStays
<1>1. SerialInv /\ [Next]_vars =>
        [\A h \in Handoff :
           status[h] \in {"SUCCEEDED", "CANCELED"} => status'[h] = status[h]]_vars
  BY SerialStep DEF EndedKept
<1> QED BY <1>1, SerialInvariance, PTL DEF Spec, EndedStays
=============================================================================
