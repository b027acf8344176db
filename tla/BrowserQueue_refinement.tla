---------------------- MODULE BrowserQueue_refinement ----------------------
(***************************************************************************)
(* The queue implements WorkLedger: every step of BrowserQueue is, seen    *)
(* through the refinement mapping, a planning of a day, a legal move of    *)
(* its work, or nothing.                                                   *)
(***************************************************************************)
EXTENDS BrowserQueue_proofs

LEMMA SameSets == Ledger!Target = Target /\ Ledger!Day = Day
  BY DEF Ledger!Target, Ledger!Day, Target, Day

LEMMA WorkStates ==
  ASSUME NEW s \in ItemStatus \cup {"NONE"}
  PROVE  /\ WorkStateOf(s) \in Ledger!WorkState
         /\ WorkStateOf(s) = "unlisted" <=> s = "NONE"
         /\ WorkStateOf(s) = "todo" <=> s = "PENDING"
         /\ WorkStateOf(s) = "doing" <=> s = "RUNNING"
         /\ WorkStateOf(s) = "held" <=> s = "NEEDS_VERIFICATION"
         /\ WorkStateOf(s) = "done" <=> s \in ItemTerminal
  BY DEF WorkStateOf, Ledger!WorkState, ItemStatus, ItemActive, ItemTerminal

LEMMA UnfinishedIsOpen ==
  ASSUME NEW st \in StatusRow
  PROVE  Ledger!Unfinished([t \in Target |-> WorkStateOf(st[t])]) = Open(st)
<1>1. ASSUME NEW t \in Target
      PROVE  WorkStateOf(st[t]) \in {"todo", "doing", "held"} <=>
               st[t] # "NONE" /\ st[t] \notin ItemTerminal
  <2>1. st[t] \in ItemStatus \cup {"NONE"}
    BY DEF StatusRow
  <2> QED BY <2>1, WorkStates DEF ItemStatus, ItemActive, ItemTerminal
<1> QED BY <1>1, SameSets DEF Ledger!Unfinished, Open

LEMMA InitRefines == Init => Ledger!LedgerInit
<1> SUFFICES ASSUME Init
             PROVE  Ledger!LedgerInit
  OBVIOUS
<1>1. \A d \in Day : run[d].status = "NONE"
  BY DEF Init, NoRun
<1>2. [d \in Day |-> [t \in Target |-> WorkStateOf(status[d][t])]]
        = [d \in Day |-> [t \in Target |-> "unlisted"]]
  <2>1. \A d \in Day, t \in Target : WorkStateOf(status[d][t]) = "unlisted"
    BY DEF Init, WorkStateOf
  <2> QED BY <2>1
<1> QED BY <1>1, <1>2, SameSets DEF Ledger!LedgerInit

-----------------------------------------------------------------------------
(***************************************************************************)
(* Steps that work on one day's run.  Progressing collects what has to be  *)
(* shown of each of them; ProgressRefines turns it into the ledger's step. *)
(***************************************************************************)
Starts(d, t) == status[d][t] # "RUNNING" /\ status'[d][t] = "RUNNING"

Progressing(d) ==
  /\ run[d].status # "NONE" /\ run[d].phase # "COMPLETED" /\ run'[d].status # "NONE"
  /\ \A e \in Day : e # d => run'[e] = run[e] /\ status'[e] = status[e]
  /\ \A t \in Target : status[d][t] = "NONE" /\ status'[d][t] # "NONE" =>
       /\ t \in Product /\ run[d].phase = "STORE_DISCOVERY"
       /\ StoresDone(status'[d])
  /\ \A t, u \in Target : Starts(d, t) /\ Starts(d, u) => t = u
  /\ \A t \in Target : Starts(d, t) => ~Paused(status'[d])

LEMMA ProgressRefines ==
  ASSUME IInv, IInv', ItemsMove, NEW d \in Day, Progressing(d)
  PROVE  Ledger!Progress(d)
<1> DEFINE old == [t \in Target |-> WorkStateOf(status[d][t])]
           new == [t \in Target |-> WorkStateOf(status'[d][t])]
           wrk == [e \in Day |-> [t \in Target |-> WorkStateOf(status[e][t])]]
<1>1. /\ status \in [Day -> StatusRow] /\ status' \in [Day -> StatusRow]
      /\ Fits(run[d], status[d]) /\ Fits(run'[d], status'[d])
  BY DEF IInv, TypeOK, RunsFit, StatusRow
<1>2. wrk[d] = old /\ wrk'[d] = new
  OBVIOUS
<1>3. wrk' \in [Day -> [Target -> Ledger!WorkState]]
  <2>1. ASSUME NEW e \in Day, NEW t \in Target
        PROVE  WorkStateOf(status'[e][t]) \in Ledger!WorkState
    <3>1. status'[e][t] \in ItemStatus \cup {"NONE"}
      BY <1>1 DEF StatusRow
    <3> QED BY <3>1, WorkStates
  <2> QED BY <2>1
<1>4. \A e \in Day \ {d} : wrk'[e] = wrk[e]
  BY DEF Progressing
<1>5. /\ Ledger!Unfinished(old) = Open(status[d])
      /\ Ledger!Unfinished(new) = Open(status'[d])
  BY <1>1, UnfinishedIsOpen
<1>6. ASSUME NEW t \in Target
      PROVE  /\ old[t] = WorkStateOf(status[d][t])
             /\ new[t] = WorkStateOf(status'[d][t])
             /\ status[d][t] \in ItemStatus \cup {"NONE"}
             /\ status'[d][t] \in ItemStatus \cup {"NONE"}
             /\ ItemMove(d, t)
  BY <1>1 DEF StatusRow, ItemsMove
<1> HIDE DEF old, new, wrk
<1>7. \A t \in Target : <<old[t], new[t]>> \in Ledger!Moves \/ Ledger!Listed(old, new, t)
  <2> SUFFICES ASSUME NEW t \in Target
               PROVE  <<old[t], new[t]>> \in Ledger!Moves \/ Ledger!Listed(old, new, t)
    OBVIOUS
  <2>1. CASE status'[d][t] = status[d][t]
    <3>1. old[t] = new[t] /\ old[t] \in Ledger!WorkState
      BY <1>6, <2>1, WorkStates
    <3> QED BY <3>1 DEF Ledger!Moves, Ledger!WorkState
  <2>2. CASE status[d][t] = "NONE" /\ status'[d][t] # "NONE"
    <3>1. /\ t \in Product /\ run[d].phase = "STORE_DISCOVERY"
          /\ StoresDone(status'[d])
      BY <2>2 DEF Progressing
    <3>2. ~StoresDone(status[d])
      BY <1>1, <3>1 DEF Fits, Progressing
    <3>3. Ledger!ListsProducts(old, new)
      BY <1>5, <3>1, <3>2 DEF Ledger!ListsProducts, StoresDone
    <3>4. status'[d][t] \in {"PENDING", "RUNNING"}
      BY <1>6, <2>2
      DEF ItemMove, MoveNone, MoveListed, MoveLapse, MoveTakenBack, MoveGivenUp,
          MoveHandedOut, MoveEnded, MoveRetried, MoveHeld, MoveReleased,
          SameStatus, ItemActive
    <3>5. old[t] = "unlisted" /\ new[t] \in {"todo", "doing"}
      BY <1>6, <2>2, <3>4, WorkStates
    <3> QED BY <3>1, <3>3, <3>5 DEF Ledger!Listed
  <2>3. CASE status[d][t] # "NONE" /\ status'[d][t] # status[d][t]
    <3>1. \/ status[d][t] = "RUNNING" /\ status'[d][t] = "PENDING"
          \/ status[d][t] = "RUNNING" /\ status'[d][t] \in ItemTerminal
          \/ status[d][t] = "RUNNING" /\ status'[d][t] = "NEEDS_VERIFICATION"
          \/ status[d][t] = "PENDING" /\ status'[d][t] = "RUNNING"
          \/ status[d][t] = "NEEDS_VERIFICATION" /\ status'[d][t] = "PENDING"
          \/ status[d][t] = "NEEDS_VERIFICATION" /\ status'[d][t] \in ItemTerminal
      BY <1>6, <2>3
      DEF ItemMove, MoveNone, MoveListed, MoveLapse, MoveTakenBack, MoveGivenUp,
          MoveHandedOut, MoveEnded, MoveRetried, MoveHeld, MoveReleased,
          SameStatus, ItemActive, ItemTerminal
    <3>2. <<old[t], new[t]>> \in {<<"doing", "todo">>, <<"doing", "done">>,
             <<"doing", "held">>, <<"todo", "doing">>, <<"held", "todo">>,
             <<"held", "done">>}
      BY <1>6, <3>1, WorkStates
    <3> QED BY <3>2 DEF Ledger!Moves
  <2> QED BY <2>1, <2>2, <2>3
<1>8. \A t \in Ledger!Started(old, new) : t \in Target /\ Starts(d, t)
  <2> SUFFICES ASSUME NEW t \in Target, new[t] = "doing", old[t] # "doing"
               PROVE  Starts(d, t)
    BY SameSets DEF Ledger!Started
  <2> QED BY <1>6, WorkStates DEF Starts
<1>9. \A t, u \in Ledger!Started(old, new) : t = u
  BY <1>8 DEF Progressing
<1>10. Ledger!Started(old, new) # {} => \A t \in Target : new[t] # "held"
  <2> SUFFICES ASSUME NEW t \in Ledger!Started(old, new), NEW u \in Target
               PROVE  new[u] # "held"
    OBVIOUS
  <2>1. ~Paused(status'[d])
    BY <1>8 DEF Progressing
  <2>2. status'[d][u] # "NEEDS_VERIFICATION"
    BY <2>1 DEF Paused, Having
  <2> QED BY <1>6, <2>2, WorkStates
<1>11. Ledger!LegalStep(wrk[d], wrk'[d])
  BY <1>2, <1>7, <1>9, <1>10, SameSets DEF Ledger!LegalStep
<1> DEFINE Closed == {e \in Day : run[e].status # "NONE" /\ run[e].phase = "COMPLETED"}
<1>12. Closed' = IF Ledger!Unfinished(wrk'[d]) = {} THEN Closed \cup {d} ELSE Closed
  <2>1. run'[d].phase = "COMPLETED" <=> Ledger!Unfinished(wrk'[d]) = {}
    BY <1>1, <1>2, <1>5 DEF Fits, Progressing
  <2>2. \A e \in Day : e # d => run'[e] = run[e]
    BY DEF Progressing
  <2>3. run[d].phase # "COMPLETED" /\ run'[d].status # "NONE"
    BY DEF Progressing
  <2> HIDE DEF wrk
  <2> QED BY <2>1, <2>2, <2>3
<1>13. {e \in Day : run[e].status # "NONE"}' = {e \in Day : run[e].status # "NONE"}
  BY DEF Progressing
<1> QED
  BY <1>3, <1>4, <1>11, <1>12, <1>13, SameSets DEF Ledger!Progress, wrk, Progressing

\* Advancing a run lists products only, once, with no store unfinished.
LEMMA AdvanceLists ==
  ASSUME NEW r, NEW st \in StatusRow, NEW due \in SUBSET Product, NEW t \in Target,
         st[t] = "NONE", AdvancedItems(r, st, due)[t] # "NONE"
  PROVE  /\ t \in Product /\ r.phase = "STORE_DISCOVERY"
         /\ StoresDone(AdvancedItems(r, st, due))
<1>1. /\ r.phase = "STORE_DISCOVERY" /\ StoresDone(st)
      /\ AdvancedItems(r, st, due) =
           [u \in Target |-> IF u \in due /\ st[u] = "NONE" THEN "PENDING" ELSE st[u]]
  BY DEF AdvancedItems
<1>2. t \in Product
  BY <1>1
<1>3. \A s \in Store : AdvancedItems(r, st, due)[s] = st[s]
  BY <1>1, KindAssumption DEF Target
<1>4. StoresDone(AdvancedItems(r, st, due))
  BY <1>1, <1>3 DEF StoresDone, Open, Target
<1> QED BY <1>1, <1>2, <1>4

LEMMA FinishProgress ==
  ASSUME IInv, NEW d \in Day, NEW t \in Target, NEW due \in SUBSET Product,
         NEW result \in {"SUCCEEDED", "PARTIAL", "FAILED"},
         Reportable(d, t), Finish(d, t, result, due)
  PROVE  Progressing(d)
<1> DEFINE st == [status[d] EXCEPT ![t] = result]
<1>1. /\ TypeOK /\ Fits(run[d], status[d]) /\ run[d] \in RunRow /\ st \in StatusRow
  BY DEF IInv, TypeOK, RunsFit, StatusRow, ItemStatus, ItemTerminal
<1>2. run[d].status # "NONE" /\ run[d].phase # "COMPLETED"
  BY <1>1 DEF Fits, Reportable, ItemActive, Open, ItemTerminal
<1>3. /\ run' = [run EXCEPT ![d] = AdvancedRun(run[d], st, due)]
      /\ status' = [status EXCEPT ![d] = AdvancedItems(run[d], st, due)]
  BY DEF Finish, Advance
<1>4. /\ status'[d] = AdvancedItems(run[d], st, due)
      /\ run'[d] = AdvancedRun(run[d], st, due)
      /\ \A e \in Day : e # d => run'[e] = run[e] /\ status'[e] = status[e]
  BY <1>1, <1>3 DEF TypeOK
<1>5. \A u \in Target : st[u] = IF u = t THEN result ELSE status[d][u]
  BY <1>1 DEF TypeOK
<1> HIDE DEF st
<1>6. run'[d].status # "NONE"
  <2>1. Verdict(Counts(AdvancedItems(run[d], st, due))) # "NONE"
    BY DEF Verdict
  <2> QED BY <1>1, <1>4, <2>1 DEF AdvancedRun, RunRow
<1>7. ASSUME NEW u \in Target, status[d][u] = "NONE", status'[d][u] # "NONE"
      PROVE  /\ u \in Product /\ run[d].phase = "STORE_DISCOVERY"
             /\ StoresDone(status'[d])
  <2>1. u # t
    BY <1>7 DEF Reportable, ItemActive
  <2>2. st[u] = "NONE" /\ AdvancedItems(run[d], st, due)[u] # "NONE"
    BY <1>4, <1>5, <1>7, <2>1
  <2>3. /\ u \in Product /\ run[d].phase = "STORE_DISCOVERY"
        /\ StoresDone(AdvancedItems(run[d], st, due))
    BY <1>1, <2>2, AdvanceLists
  <2> QED BY <1>4, <2>3
<1>8. ASSUME NEW u \in Target
      PROVE  ~Starts(d, u)
  <2>1. \/ AdvancedItems(run[d], st, due)[u] = st[u]
        \/ AdvancedItems(run[d], st, due)[u] = "PENDING"
    BY <1>1, AdvancedItem
  <2> QED BY <1>4, <1>5, <2>1 DEF Starts
<1> QED BY <1>2, <1>4, <1>6, <1>7, <1>8 DEF Progressing

LEMMA ClaimProgress ==
  ASSUME IInv, Claim, run[day].phase # "COMPLETED"
  PROVE  Progressing(day)
<1> DEFINE st    == SweptItems(day)
           due   == Due(active, valid[day])
           r     == AdvancedRun(run[day], st, due)
           items == AdvancedItems(run[day], st, due)
           free  == Claimable(r, items)
<1>1. /\ TypeOK /\ day \in Day /\ run[day] \in RunRow /\ st \in StatusRow
      /\ due \in SUBSET Product /\ Fits(run[day], status[day])
      /\ run[day].status # "NONE"
  BY SweptType, DueType DEF IInv, TypeOK, RunsFit, Claim
<1>2. \A u \in Target : /\ st[u] = "NONE" <=> status[day][u] = "NONE"
                        /\ st[u] = "RUNNING" => status[day][u] = "RUNNING"
  BY DEF SweptItems, Lost
<1>3. /\ r.status # "NONE" /\ r \in RunRow /\ items \in StatusRow
  <2> HIDE DEF st, due
  <2>1. Verdict(Counts(items)) # "NONE"
    BY DEF Verdict
  <2> QED BY <1>1, <2>1, AdvanceType DEF AdvancedRun, RunRow
<1>4. ASSUME NEW u \in Target, status[day][u] = "NONE", items[u] # "NONE"
      PROVE  /\ u \in Product /\ run[day].phase = "STORE_DISCOVERY"
             /\ StoresDone(items)
  <2> HIDE DEF st, due
  <2> QED BY <1>1, <1>2, <1>4, AdvanceLists
<1>5. ASSUME NEW u \in Target
      PROVE  items[u] = "RUNNING" => status[day][u] = "RUNNING"
  <2> HIDE DEF st, due
  <2>1. items[u] = st[u] \/ items[u] = "PENDING"
    BY <1>1, AdvancedItem
  <2> QED BY <1>2, <2>1
<1>6. CASE Advance(day, run[day], st, due)
  <2>1. /\ status'[day] = items /\ run'[day] = r
        /\ \A e \in Day : e # day => run'[e] = run[e] /\ status'[e] = status[e]
    BY <1>1, <1>6 DEF Advance, TypeOK
  <2> HIDE DEF r, items
  <2>2. \A u \in Target : ~Starts(day, u)
    BY <1>5, <2>1 DEF Starts
  <2> QED BY <1>1, <1>3, <1>4, <2>1, <2>2 DEF Progressing
<1>7. ASSUME NEW t \in First(free),
             run' = [run EXCEPT ![day] = ClaimedRun(r)],
             status' = [status EXCEPT ![day] = [items EXCEPT ![t] = "RUNNING"]]
      PROVE  Progressing(day)
  <2>1. /\ t \in Target /\ t \in Kind(r.phase) /\ items[t] = "PENDING"
        /\ r.status # "NEEDS_VERIFICATION"
    BY DEF First, Claimable, Having
  <2>2. /\ status'[day] = [items EXCEPT ![t] = "RUNNING"]
        /\ run'[day] = ClaimedRun(r)
        /\ \A e \in Day : e # day => run'[e] = run[e] /\ status'[e] = status[e]
    BY <1>1, <1>7 DEF TypeOK
  <2>3. ~Paused(items)
    <3>1. CASE Paused(st)
      <4>1. r.status = "NEEDS_VERIFICATION"
        <5> HIDE DEF st, due
        <5> QED BY <1>1, <3>1 DEF AdvancedRun, RunRow
      <4> QED BY <2>1, <4>1
    <3>2. CASE ~Paused(st)
      <4> HIDE DEF st, due
      <4>1. \A u \in Target : items[u] = st[u] \/ items[u] = "PENDING"
        BY <1>1, AdvancedItem
      <4> QED BY <3>2, <4>1 DEF Paused, Having
    <3> QED BY <3>1, <3>2
  <2> HIDE DEF r, items, free
  <2>4. \A u \in Target : status'[day][u] = IF u = t THEN "RUNNING" ELSE items[u]
    BY <1>3, <2>2 DEF StatusRow
  <2>5. run'[day].status # "NONE"
    BY <1>3, <2>2 DEF ClaimedRun, RunRow
  <2>6. ASSUME NEW u \in Target, Starts(day, u)
        PROVE  u = t
    BY <1>5, <2>4, <2>6 DEF Starts
  <2>7. ~Paused(status'[day])
    BY <2>3, <2>4 DEF Paused, Having
  <2>8. ASSUME NEW u \in Target, status[day][u] = "NONE", status'[day][u] # "NONE"
        PROVE  /\ u \in Product /\ run[day].phase = "STORE_DISCOVERY"
               /\ StoresDone(status'[day])
    <3>1. items[u] # "NONE"
      BY <2>1, <2>4, <2>8
    <3>2. /\ u \in Product /\ run[day].phase = "STORE_DISCOVERY"
          /\ StoresDone(items)
      BY <1>4, <2>8, <3>1
    <3>3. Open(status'[day]) = Open(items)
      BY <2>1, <2>4 DEF Open, ItemTerminal
    <3> QED BY <3>2, <3>3 DEF StoresDone
  <2> QED BY <1>1, <2>2, <2>5, <2>6, <2>7, <2>8 DEF Progressing
<1> QED BY <1>6, <1>7 DEF Claim

LEMMA EnsurePlans ==
  ASSUME IInv, IInv', NEW d \in Day, Ensure(d)
  PROVE  Ledger!Plan(d)
<1> DEFINE st  == [t \in Target |-> IF t \in openStores THEN "PENDING" ELSE "NONE"]
           due == Due(active, valid[d])
           wrk == [e \in Day |-> [t \in Target |-> WorkStateOf(status[e][t])]]
           closed == {e \in Day : run[e].status # "NONE" /\ run[e].phase = "COMPLETED"}
           planned == {e \in Day : run[e].status # "NONE"}
           new == [t \in Target |-> IF t \in openStores THEN "todo" ELSE "unlisted"]
<1>1. /\ TypeOK /\ st \in StatusRow /\ due \in SUBSET Product
      /\ run[d].status = "NONE" /\ Fits(run'[d], status'[d])
  BY DueType DEF IInv, TypeOK, RunsFit, StatusRow, ItemStatus, Ensure
<1>2. /\ run'[d] = AdvancedRun(NewRun, st, due)
      /\ status'[d] = AdvancedItems(NewRun, st, due)
      /\ \A e \in Day : e # d => run'[e] = run[e] /\ status'[e] = status[e]
  BY <1>1 DEF Ensure, Advance, TypeOK
<1>3. ~Paused(st)
  BY DEF Paused, Having
<1>4. AdvancedItems(NewRun, st, due) = st
  <2>1. CASE openStores = {}
    <3>1. due = {}
      BY <2>1 DEF Due
    <3> HIDE DEF st, due
    <3>2. st \in [Target -> ItemStatus \cup {"NONE"}]
      BY <1>1 DEF StatusRow
    <3> QED BY <3>1, <3>2 DEF AdvancedItems
  <2>2. CASE openStores # {}
    <3>1. PICK s \in Store : s \in openStores
      BY <1>1, <2>2 DEF TypeOK
    <3>2. s \in Open(st)
      BY <3>1 DEF Open, ItemTerminal, Target
    <3>3. ~StoresDone(st)
      BY <3>1, <3>2 DEF StoresDone
    <3> QED BY <3>3 DEF AdvancedItems
  <2> QED BY <2>1, <2>2
<1>5. run'[d].status # "NONE"
  <2> HIDE DEF st, due
  <2>1. Verdict(Counts(AdvancedItems(NewRun, st, due))) # "NONE"
    BY DEF Verdict
  <2>2. NewRun \in RunRow
    BY DEF NewRun, NoRun, RunRow, RunStatus, Phase, CountRow
  <2> QED BY <1>2, <2>1, <2>2 DEF AdvancedRun, RunRow
<1>6. run'[d].phase = "COMPLETED" <=> openStores = {}
  <2>1. Open(st) = {} <=> openStores = {}
    BY <1>1 DEF Open, ItemTerminal, Target, TypeOK
  <2> QED BY <1>1, <1>2, <1>4, <1>5, <2>1 DEF Fits
<1>7. wrk' = [wrk EXCEPT ![d] = new]
  <2>1. \A t \in Target : WorkStateOf(status'[d][t]) = new[t]
    BY <1>2, <1>4 DEF WorkStateOf
  <2>2. wrk'[d] = new
    BY <2>1
  <2>3. \A e \in Day : e # d => wrk'[e] = wrk[e]
    BY <1>2
  <2> HIDE DEF new
  <2> QED BY <2>2, <2>3
<1>8. planned' = planned \cup {d} /\ d \notin planned
  BY <1>1, <1>2, <1>5
<1>9. closed' = IF openStores = {} THEN closed \cup {d} ELSE closed
  BY <1>1, <1>2, <1>5, <1>6
<1>10. openStores \in SUBSET Store
  BY <1>1 DEF TypeOK
<1> HIDE DEF wrk, closed, planned
<1>11. \E s \in SUBSET Store :
         /\ wrk' = [wrk EXCEPT ![d] =
                      [t \in Ledger!Target |-> IF t \in s THEN "todo" ELSE "unlisted"]]
         /\ closed' = IF s = {} THEN closed \cup {d} ELSE closed
  BY <1>7, <1>9, <1>10, SameSets
<1> QED BY <1>8, <1>11 DEF Ledger!Plan, wrk, closed, planned

\* A failure, a verification page or a resume moves items of one run.
LEMMA OthersProgress ==
  ASSUME IInv, NEW d \in Day,
         \/ \E t \in Target : FailureRetried(d, t) \/ Challenge(d, t)
         \/ Resume(d)
  PROVE  Progressing(d)
<1>1. TypeOK /\ Fits(run[d], status[d]) /\ run[d] \in RunRow
  BY DEF IInv, TypeOK, RunsFit
<1>2. ASSUME NEW t \in Target, FailureRetried(d, t) \/ Challenge(d, t)
      PROVE  Progressing(d)
  <2>1. status[d][t] \in ItemActive
    BY <1>2 DEF FailureRetried, Challenge, Reportable
  <2>2. run[d].status # "NONE" /\ run[d].phase # "COMPLETED"
    BY <1>1, <2>1 DEF Fits, Open, ItemActive, ItemTerminal
  <2>3. /\ \A e \in Day : e # d => run'[e] = run[e] /\ status'[e] = status[e]
        /\ \A u \in Target : u # t => status'[d][u] = status[d][u]
        /\ status'[d][t] # "RUNNING"
    BY <1>1, <1>2 DEF FailureRetried, Requeued, Challenge, TypeOK
  <2>4. run'[d].status # "NONE"
    BY <1>1, <1>2, <2>2 DEF FailureRetried, Challenge, TypeOK, RunRow
  <2>5. status[d][t] # "NONE" /\ \A u \in Target : ~Starts(d, u)
    BY <2>1, <2>3 DEF Starts, ItemActive
  <2> QED BY <2>2, <2>3, <2>4, <2>5 DEF Progressing
<1>3. CASE Resume(d)
  <2>1. run[d].status # "NONE" /\ run[d].phase # "COMPLETED"
    BY <1>1, <1>3 DEF Resume, Fits, Final
  <2>2. /\ \A e \in Day : e # d => run'[e] = run[e] /\ status'[e] = status[e]
        /\ status'[d] = Released(status[d]) /\ run'[d] = ResumedRun(run[d])
    BY <1>1, <1>3 DEF Resume, TypeOK
  <2>3. run'[d].status # "NONE"
    BY <1>1, <2>2 DEF ResumedRun, RunRow
  <2>4. \A u \in Target : status'[d][u] = status[d][u] \/ status[d][u] = "NEEDS_VERIFICATION"
    BY <2>2 DEF Released
  <2>5. \A u \in Target : status'[d][u] # "RUNNING" \/ status[d][u] = "RUNNING"
    BY <2>2 DEF Released
  <2> QED BY <2>1, <2>2, <2>3, <2>4, <2>5 DEF Progressing, Starts
<1> QED BY <1>2, <1>3

-----------------------------------------------------------------------------

LEMMA StepRefines == IInv /\ IInv' /\ [Next]_vars => [Ledger!LedgerNext]_(Ledger!ledgerVars)
<1> SUFFICES ASSUME IInv, IInv', [Next]_vars
             PROVE  Ledger!LedgerNext \/ UNCHANGED Ledger!ledgerVars
  OBVIOUS
<1>1. ItemsMove
  BY EveryStepMoves DEF IInv
<1>2. ASSUME NEW d \in Day, Progressing(d)
      PROVE  Ledger!LedgerNext
  <2>1. Ledger!Progress(d)
    BY <1>1, <1>2, ProgressRefines
  <2> QED BY <2>1, SameSets DEF Ledger!LedgerNext
<1>3. CASE UNCHANGED <<run, status>>
  BY <1>3 DEF Ledger!ledgerVars
<1>4. ASSUME NEW d \in Day, Ensure(d)
      PROVE  Ledger!LedgerNext
  <2>1. Ledger!Plan(d)
    BY <1>4, EnsurePlans
  <2> QED BY <2>1, SameSets DEF Ledger!LedgerNext
<1>5. ASSUME Claim
      PROVE  Ledger!LedgerNext \/ UNCHANGED Ledger!ledgerVars
  <2>1. day \in Day
    BY DEF IInv, TypeOK
  <2>2. CASE run[day].phase # "COMPLETED"
    BY <1>2, <1>5, <2>1, <2>2, ClaimProgress
  <2>3. CASE run[day].phase = "COMPLETED"
    <3>1. run'[day] = run[day] /\ status'[day] = status[day]
      BY <2>1, <2>3, CompleteRunStep
    <3>2. \A e \in Day : e # day => run'[e] = run[e] /\ status'[e] = status[e]
      BY <1>5 DEF Claim, Advance, IInv, TypeOK
    <3>3. \A e \in Day : run'[e] = run[e] /\ status'[e] = status[e]
      BY <3>1, <3>2
    <3> QED BY <3>3 DEF Ledger!ledgerVars
  <2> QED BY <2>2, <2>3
<1>6. ASSUME NEW d \in Day, NEW p \in Product, ProductAnswer(d, p)
      PROVE  Progressing(d)
  <2>1. PICK sold \in BOOLEAN : Finish(d, p, ProductResult(sold), Due(active, valid'[d]))
    BY <1>6 DEF ProductAnswer
  <2>2. /\ Reportable(d, p) /\ p \in Target
        /\ ProductResult(sold) \in {"SUCCEEDED", "PARTIAL", "FAILED"}
        /\ Due(active, valid'[d]) \in SUBSET Product
    BY <1>6, DueType DEF ProductAnswer, ProductResult, Target, IInv, TypeOK
  <2> QED BY <2>1, <2>2, FinishProgress
<1>7. ASSUME NEW d \in Day, NEW s \in Store, StoreAnswer(d, s)
      PROVE  Progressing(d)
  <2>1. PICK links \in BOOLEAN :
          Finish(d, s, IF links THEN "SUCCEEDED" ELSE "FAILED", Due(active', valid'[d]))
    BY <1>7 DEF StoreAnswer
  <2>2. /\ Reportable(d, s) /\ s \in Target
        /\ (IF links THEN "SUCCEEDED" ELSE "FAILED") \in {"SUCCEEDED", "PARTIAL", "FAILED"}
        /\ Due(active', valid'[d]) \in SUBSET Product
    BY <1>7, DueType DEF StoreAnswer, Target, IInv, TypeOK
  <2> QED BY <2>1, <2>2, FinishProgress
<1>8. ASSUME NEW d \in Day, NEW t \in Target, FailureFinal(d, t)
      PROVE  Progressing(d)
  <2>1. /\ Reportable(d, t) /\ Finish(d, t, "FAILED", Due(active, valid[d]))
        /\ Due(active, valid[d]) \in SUBSET Product
    BY <1>8, DueType DEF FailureFinal, IInv, TypeOK
  <2> QED BY <2>1, FinishProgress
<1>9. CASE Environment
  BY <1>3, <1>9
  DEF Environment, LeaseExpires, NewDay, SnapshotElsewhere, AddProduct, SwitchProduct, SwitchStore
<1>10. CASE UNCHANGED vars
  BY <1>3, <1>10 DEF vars
<1> QED
  BY <1>2, <1>4, <1>5, <1>6, <1>7, <1>8, <1>9, <1>10, OthersProgress DEF Next, Report

\* The queue keeps the promise of WorkLedger: work is listed once, handed out
\* one item at a time and never during a pause, and a day is closed exactly
\* when all its work is done.
THEOREM Refinement == Spec => ImplementsLedger
<1>1. Spec => []IInv
  BY Invariance
<1> QED
  BY <1>1, InitRefines, StepRefines, PTL DEF Spec, ImplementsLedger, Ledger!LedgerSpec
=============================================================================
