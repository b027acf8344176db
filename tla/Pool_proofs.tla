----------------------------- MODULE Pool_proofs -----------------------------
(***************************************************************************)
(* Proofs about Pool, for any stores and products, twins included: its     *)
(* types and every property the runs check.                                *)
(***************************************************************************)
EXTENDS Pool, TLAPS

\* A product found on a page has a row.
FoundExist == found \subseteq Exists

IInv ==
  /\ TypeOK
  /\ FoundExist
  /\ PoolIsLastPage
  /\ TasksFollowAttempts
  /\ FallbackQueued

ByHand(p) == Has(p, "OTHER", {"VALID", "SUSPECT"})

-----------------------------------------------------------------------------
(* Snapshots                                                                *)

\* What the snapshots of a page or a fetch can be.
Brought == UNION {[ps -> Kind] : ps \in SUBSET Product}

LEMMA ShownBrought ==
  ASSUME NEW source \in {"AUTO", "OTHER"}, NEW ps \in SUBSET Product,
         NEW kinds \in Shown(source, ps)
  PROVE  kinds \in Brought
<1>1. {source} \X {"VALID", "SUSPECT"} \subseteq Kind
  BY DEF Kind
<1>2. kinds \in [ps -> Kind]
  BY <1>1 DEF Shown
<1> QED BY <1>2 DEF Brought

\* Saving keeps the types, loses no snapshot and keeps tasks in step with
\* the attempts.
LEMMA SaveProperties ==
  ASSUME TypeOK, NEW kinds \in Brought, Save(kinds)
  PROVE  /\ log' \in [Product -> SUBSET Kind]
         /\ task' \in [Product -> {"none", "PENDING", "COMPLETED"}]
         /\ closed' \subseteq Product
         /\ \A p \in Product : log[p] \subseteq log'[p]
         /\ TasksFollowAttempts => TasksFollowAttempts'
         /\ TasksFollowAttempts => ManualCompleted \subseteq ManualCompleted'
<1> DEFINE ps == DOMAIN kinds
<1>1. ps \subseteq Product /\ \A p \in ps : kinds[p] \in Kind
  BY DEF Brought
<1>2. \A p \in Product : /\ log'[p] = IF p \in ps THEN log[p] \cup {kinds[p]} ELSE log[p]
                         /\ task'[p] = IF p \in ps THEN Synced(task[p], kinds[p]) ELSE task[p]
  BY DEF Save
<1>3. \A k \in Kind : \/ k = FailedAuto
                      \/ k[1] = "AUTO" /\ k # FailedAuto
                      \/ k[1] = "OTHER" /\ k # FailedAuto /\ k[2] \in {"VALID", "SUSPECT"}
  BY DEF Kind, FailedAuto
<1>4. FailedAuto[1] # "OTHER"
  BY DEF FailedAuto
<1>5. closed' = (closed \ {p \in ps : kinds[p] = FailedAuto})
                  \cup {p \in ps : kinds[p][1] = "OTHER" /\ task[p] # "none"}
  BY DEF Save
<1>6. log' \in [Product -> SUBSET Kind]
  <2>1. log' = [p \in Product |-> IF p \in ps THEN log[p] \cup {kinds[p]} ELSE log[p]]
    BY DEF Save
  <2>2. \A p \in Product : (IF p \in ps THEN log[p] \cup {kinds[p]} ELSE log[p]) \in SUBSET Kind
    BY <1>1 DEF TypeOK
  <2> QED BY <2>1, <2>2
<1>7. task' \in [Product -> {"none", "PENDING", "COMPLETED"}]
  <2>1. task' = [p \in Product |-> IF p \in ps THEN Synced(task[p], kinds[p]) ELSE task[p]]
    BY DEF Save
  <2>2. \A p \in Product : Synced(task[p], kinds[p]) \in {"none", "PENDING", "COMPLETED"}
    BY DEF TypeOK, Synced
  <2> QED BY <2>1, <2>2 DEF TypeOK
<1>8. closed' \subseteq Product
  BY <1>1, <1>5 DEF TypeOK
<1>9. \A p \in Product : log[p] \subseteq log'[p]
  BY <1>2
<1>10. \A p \in Product : ByHand(p) => ByHand(p)'
  BY <1>9 DEF ByHand, Has
<1>11. \A p \in ps : kinds[p][1] = "OTHER" => ByHand(p)'
  <2> SUFFICES ASSUME NEW p \in ps, kinds[p][1] = "OTHER"
               PROVE  \E k \in log'[p] : k[1] = "OTHER" /\ k[2] \in {"VALID", "SUSPECT"}
    BY <1>1 DEF ByHand, Has
  <2>1. kinds[p] \in log'[p] /\ kinds[p] \in Kind
    BY <1>1, <1>2
  <2>2. kinds[p][2] \in {"VALID", "SUSPECT"}
    BY <2>1, <1>3, <1>4
  <2> QED BY <2>1, <2>2
<1>12. ASSUME TasksFollowAttempts, NEW p \in Product
       PROVE  /\ FailedAuto \in log'[p] /\ ~ByHand(p)' => task'[p] = "PENDING"
              /\ p \in closed' => task'[p] = "COMPLETED" /\ ByHand(p)'
  <2>1. /\ FailedAuto \in log[p] /\ ~ByHand(p) => task[p] = "PENDING"
        /\ p \in closed => task[p] = "COMPLETED" /\ ByHand(p)
    BY <1>12 DEF TasksFollowAttempts, ByHand
  <2>2. CASE p \notin ps
    BY <2>1, <2>2, <1>2, <1>5, <1>10 DEF ByHand, Has
  <2>3. CASE p \in ps /\ kinds[p] = FailedAuto
    BY <2>3, <1>2, <1>4, <1>5 DEF Synced
  <2>4. CASE p \in ps /\ kinds[p][1] = "AUTO" /\ kinds[p] # FailedAuto
    <3>1. task'[p] = task[p] /\ (p \in closed' => p \in closed)
      BY <2>4, <1>2, <1>5 DEF Synced
    <3>2. FailedAuto \in log'[p] => FailedAuto \in log[p]
      BY <2>4, <1>2
    <3> QED BY <2>1, <3>1, <3>2, <1>10
  <2>5. CASE p \in ps /\ kinds[p][1] = "OTHER" /\ kinds[p] # FailedAuto
    <3>1. ByHand(p)'
      BY <2>5, <1>11
    <3>2. p \in closed' => task[p] # "none"
      BY <2>1, <2>5, <1>5
    <3>3. task[p] # "none" => task'[p] = "COMPLETED"
      BY <2>5, <1>2 DEF Synced
    <3> QED BY <3>1, <3>2, <3>3
  <2> QED BY <2>2, <2>3, <2>4, <2>5, <1>1, <1>3
<1>13. TasksFollowAttempts => TasksFollowAttempts'
  BY <1>12 DEF TasksFollowAttempts, ByHand
<1>14. ASSUME TasksFollowAttempts PROVE ManualCompleted \subseteq ManualCompleted'
  <2>1. \A p \in closed : ByHand(p)
    BY <1>14 DEF TasksFollowAttempts, ByHand, TypeOK
  <2>2. \A p \in Product : ByHand(p) => p \in ManualCompleted'
    BY <1>10 DEF ByHand, ManualCompleted
  <2> QED BY <2>1, <2>2 DEF ManualCompleted, ByHand, TypeOK
<1> QED BY <1>6, <1>7, <1>8, <1>9, <1>13, <1>14

-----------------------------------------------------------------------------
(* Store pages                                                              *)

\* Taking a page over keeps the pool in step with the pages, and switches off
\* only found products.
LEMMA TakeOverProperties ==
  ASSUME TypeOK, FoundExist, PoolIsLastPage,
         NEW s \in Store, NEW page \in SUBSET Of(s), NEW skip \in SUBSET (page \ Exists),
         TakeOver(s, page, skip)
  PROVE  /\ status' \in [Product -> {"absent", "active", "inactive"}]
         /\ found' \subseteq Product
         /\ listed' \in [Store -> SUBSET Product]
         /\ touched' \subseteq Product
         /\ FoundExist'
         /\ PoolIsLastPage'
         /\ Active \ found \subseteq Active'
<1> DEFINE new == page \ (Exists \cup skip)
           on  == new \cup (page \cap found \cap Exists)
<1>1. page \subseteq Product /\ \A p \in page : StoreOf[p] = s
  BY DEF Of
<1>2. \A p \in Product :
        status'[p] = IF p \in on THEN "active" ELSE IF p \in Dropped(s, page) THEN "inactive"
                     ELSE status[p]
  BY DEF TakeOver, SwitchedOn
<1>3. found' = found \cup new /\ touched' = touched \ Of(s)
  BY DEF TakeOver
<1>4. listed' = [listed EXCEPT ![s] = page]
  BY DEF TakeOver
<1>5. status' \in [Product -> {"absent", "active", "inactive"}]
  BY DEF TakeOver, SwitchedOn, TypeOK
<1>6. listed' \in [Store -> SUBSET Product]
  BY <1>1, <1>4 DEF TypeOK
<1>7. found' \subseteq Product /\ touched' \subseteq Product
  BY <1>1, <1>3 DEF TypeOK
<1>8. \A p \in Product : p \in Dropped(s, page) <=>
        StoreOf[p] = s /\ p \in found /\ p \in Active /\ p \notin page
  BY DEF Dropped, Of
<1>9. \A p \in Product : p \in Exists <=> status[p] # "absent"
  BY DEF Exists
<1>10. FoundExist'
  <2>1. \A p \in found' : status'[p] # "absent"
    BY <1>2, <1>3, <1>7, <1>9 DEF FoundExist
  <2> QED BY <2>1, <1>7 DEF FoundExist, Exists
<1>11. \A p \in Product : p \in Active <=> status[p] = "active"
  BY DEF Active
<1>12. \A p \in Product : p \in Active' <=> status'[p] = "active"
  BY DEF Active
<1>13. ASSUME NEW p \in found', p \notin touched'
       PROVE  p \in Active' <=> p \in listed'[StoreOf[p]]
  <2>1. p \in Product
    BY <1>7, <1>13
  <2>2. CASE StoreOf[p] = s
    <3>1. listed'[s] = page
      BY <1>4 DEF TypeOK
    <3>2. CASE p \in page
      BY <3>1, <3>2, <2>1, <2>2, <1>2, <1>3, <1>9, <1>12, <1>13 DEF FoundExist
    <3>3. CASE p \notin page
      <4>1. p \in found /\ p \notin on
        BY <3>3, <1>3, <1>13
      <4>2. status'[p] = IF status[p] = "active" THEN "inactive" ELSE status[p]
        BY <4>1, <3>3, <2>1, <2>2, <1>2, <1>8, <1>11
      <4> QED BY <4>2, <3>1, <3>3, <2>1, <2>2, <1>12
    <3> QED BY <3>2, <3>3
  <2>3. CASE StoreOf[p] # s
    <3>1. p \notin page /\ p \notin Dropped(s, page)
      BY <2>1, <2>3, <1>1, <1>8
    <3>2. p \in found \ touched
      BY <3>1, <2>1, <2>3, <1>3, <1>13 DEF Of
    <3>3. status'[p] = status[p]
      BY <3>1, <2>1, <1>2
    <3>4. listed'[StoreOf[p]] = listed[StoreOf[p]]
      BY <2>1, <2>3, <1>4, StoreOfAssumption DEF TypeOK
    <3> QED BY <3>2, <3>3, <3>4, <2>1, <1>11, <1>12 DEF PoolIsLastPage
  <2> QED BY <2>2, <2>3
<1>14. PoolIsLastPage'
  BY <1>13 DEF PoolIsLastPage
<1>15. Active \ found \subseteq Active'
  BY <1>2, <1>8, <1>11, <1>12 DEF Active
<1> QED BY <1>5, <1>6, <1>7, <1>10, <1>14, <1>15

-----------------------------------------------------------------------------
(* Steps                                                                    *)

\* A step that takes no snapshot and changes no row, or at most adds one or
\* switches one by hand.
LEMMA RowsKept ==
  ASSUME IInv, UNCHANGED <<status, found, listed, touched>>
  PROVE  FoundExist' /\ PoolIsLastPage' /\ Active \ found \subseteq Active'
BY DEF IInv, FoundExist, PoolIsLastPage, Exists, Active

LEMMA LogKept ==
  ASSUME IInv, UNCHANGED <<log, task, closed>>
  PROVE  TasksFollowAttempts' /\ ManualCompleted \subseteq ManualCompleted'
BY DEF IInv, TasksFollowAttempts, ManualCompleted, Has

LEMMA RunKept ==
  ASSUME IInv, UNCHANGED <<nightly, run>>
  PROVE  FallbackQueued'
BY DEF IInv, FallbackQueued

LEMMA EventTyped ==
  ASSUME TypeOK, Event
  PROVE  events' \in 0 .. MaxEvents
BY BoundAssumption DEF TypeOK, Event

\* What the steps that concern pages and snapshots keep.
Kept == /\ FoundExist' /\ PoolIsLastPage' /\ TasksFollowAttempts'
        /\ Active \ found \subseteq Active'
        /\ ManualCompleted \subseteq ManualCompleted'
        /\ status' \in [Product -> {"absent", "active", "inactive"}]
        /\ found' \subseteq Product
        /\ task' \in [Product -> {"none", "PENDING", "COMPLETED"}]
        /\ closed' \subseteq Product
        /\ log' \in [Product -> SUBSET Kind]
        /\ listed' \in [Store -> SUBSET Product]
        /\ touched' \subseteq Product
        /\ events' \in 0 .. MaxEvents

LEMMA HttpPageKeeps ==
  ASSUME IInv, NEW s \in Store, NEW page \in SUBSET Of(s), HttpPage(s, page)
  PROVE  Kept
<1>1. CASE page = {}
  <2>1. UNCHANGED <<status, found, task, closed, log, listed, touched, events>>
    BY <1>1 DEF HttpPage
  <2> QED BY <2>1, RowsKept, LogKept DEF Kept, IInv, TypeOK
<1>2. CASE page # {}
  <2>1. Event /\ TakeOver(s, page, {}) /\ \E kinds \in Shown("AUTO", page) : Save(kinds)
    BY <1>2 DEF HttpPage
  <2>2. PICK kinds \in Shown("AUTO", page) : Save(kinds)
    BY <2>1
  <2>3. page \subseteq Product
    BY DEF Of
  <2>4. kinds \in Brought
    BY <2>3, ShownBrought
  <2>5. {} \in SUBSET (page \ Exists)
    OBVIOUS
  <2> QED BY <2>1, <2>2, <2>4, <2>5, TakeOverProperties, SaveProperties, EventTyped DEF Kept, IInv
<1> QED BY <1>1, <1>2

LEMMA ExtensionPageKeeps ==
  ASSUME IInv, NEW s \in Store, NEW page \in SUBSET Of(s), ExtensionPage(s, page)
  PROVE  Kept
<1>1. PICK skip \in SUBSET Clashing(page) :
        TakeOver(s, page, skip) /\ \E kinds \in Shown("OTHER", page \ skip) : Save(kinds)
  BY DEF ExtensionPage
<1>2. PICK kinds \in Shown("OTHER", page \ skip) : Save(kinds)
  BY <1>1
<1>3. page \ skip \in SUBSET Product
  BY DEF Of
<1>4. kinds \in Brought
  BY <1>3, ShownBrought
<1>5. skip \in SUBSET (page \ Exists)
  BY DEF Clashing
<1>6. Event
  BY DEF ExtensionPage
<1> QED BY <1>1, <1>2, <1>4, <1>5, <1>6, TakeOverProperties, SaveProperties, EventTyped
        DEF Kept, IInv

\* A fetch or a reading of one product's page.
LEMMA SnapshotKeeps ==
  ASSUME IInv, NEW kinds \in Brought, Save(kinds), Event,
         UNCHANGED <<status, found, listed, touched>>
  PROVE  Kept
BY RowsKept, SaveProperties, EventTyped DEF Kept, IInv, TypeOK

\* The pass keeps its type, and ends only with the run queued.
LEMMA PassTyped ==
  ASSUME IInv
  PROVE  /\ NoPass \in Pass
         /\ \A done \in BOOLEAN : AfterPass(done) \in Pass
         /\ \A done \in BOOLEAN : pass.scheduled => AfterPass(done) # NoPass
<1>1. NoPass \in Pass /\ NoPass.step = "none"
  BY DEF NoPass, Pass
<1> QED BY <1>1 DEF NoPass, Pass, AfterPass

\* What a step may not do: switch off what was added by hand, or uncount what
\* people did today.
StepRespects ==
  /\ \A p \in Active \ found : p \notin Active' => p \in touched'
  /\ day' = day => ManualCompleted \subseteq ManualCompleted'

LEMMA KeptRespects ==
  ASSUME Kept PROVE StepRespects
BY DEF Kept, StepRespects

\* A step that leaves the run and the nightly pass alone, and whose other
\* variables are typed.
LEMMA KeptInvariant ==
  ASSUME IInv, Kept, UNCHANGED <<day, run, nightly>>,
         open' \subseteq Store, pass' \in Pass
  PROVE  IInv' /\ StepRespects
<1>1. TypeOK'
  BY DEF Kept, IInv, TypeOK
<1> QED BY <1>1, RunKept, KeptRespects DEF Kept, IInv

\* No row and no snapshot is touched.
LEMMA StillKept ==
  ASSUME IInv, UNCHANGED <<status, found, task, closed, log, listed, touched, events>>
  PROVE  Kept
BY RowsKept, LogKept DEF Kept, IInv, TypeOK

THEOREM StepIInv == ASSUME IInv, [Next]_vars PROVE IInv' /\ StepRespects
<1> USE DEF IInv
<1>0. open \subseteq Store /\ pass \in Pass /\ TypeOK
  BY DEF TypeOK
<1>1. ASSUME NEW s \in Store, NEW page \in SUBSET Of(s), ExtensionPage(s, page)
      PROVE  IInv' /\ StepRespects
  BY <1>0, <1>1, ExtensionPageKeeps, KeptInvariant DEF ExtensionPage
<1>2. ASSUME NEW s \in Store, NEW page \in SUBSET Of(s), DiscoverStore(s, page)
      PROVE  IInv' /\ StepRespects
  BY <1>0, <1>2, HttpPageKeeps, KeptInvariant DEF DiscoverStore
<1>3. ASSUME NEW s \in Store, NEW page \in SUBSET Of(s), PassDiscovers(s, page)
      PROVE  IInv' /\ StepRespects
  <2>1. pass' \in Pass
    BY <1>0, <1>3 DEF PassDiscovers, Pass
  <2> QED BY <1>0, <1>3, <2>1, HttpPageKeeps, KeptInvariant DEF PassDiscovers
<1>4. ASSUME NEW p \in Product, CreateProduct(p)
      PROVE  IInv' /\ StepRespects
  <2>1. p \notin found
    BY <1>4 DEF CreateProduct, FoundExist, Exists
  <2>2. \A q \in Product : q # p => status'[q] = status[q]
    BY <1>0, <1>4 DEF CreateProduct, TypeOK
  <2>3. FoundExist' /\ PoolIsLastPage' /\ Active \subseteq Active'
    BY <1>4, <2>1, <2>2, <1>0 DEF CreateProduct, FoundExist, PoolIsLastPage, Exists, Active, TypeOK
  <2>4. status' \in [Product -> {"absent", "active", "inactive"}]
    BY <1>0, <1>4 DEF CreateProduct, TypeOK
  <2>5. events' \in 0 .. MaxEvents
    BY <1>0, <1>4, EventTyped DEF CreateProduct
  <2>6. Kept
    BY <1>0, <1>4, <2>3, <2>4, <2>5, LogKept DEF Kept, CreateProduct, TypeOK
  <2> QED BY <1>0, <1>4, <2>6, KeptInvariant DEF CreateProduct
<1>5. ASSUME NEW p \in Product, SwitchProduct(p)
      PROVE  IInv' /\ StepRespects
  <2>1. \A q \in Product : q # p => status'[q] = status[q]
    BY <1>0, <1>5 DEF SwitchProduct, TypeOK
  <2>2. status'[p] # "absent" /\ touched' = touched \cup {p}
    BY <1>0, <1>5 DEF SwitchProduct, TypeOK
  <2>3. FoundExist' /\ PoolIsLastPage'
    <3>1. FoundExist'
      BY <1>0, <1>5, <2>1, <2>2 DEF SwitchProduct, FoundExist, Exists, TypeOK
    <3>2. \A q \in found' \ touched' : q \in found \ touched /\ q # p /\ q \in Product
      BY <1>0, <1>5, <2>2 DEF SwitchProduct, TypeOK
    <3>3. \A q \in Product : q # p => (q \in Active' <=> q \in Active)
      BY <2>1 DEF Active
    <3> QED BY <1>5, <3>1, <3>2, <3>3 DEF SwitchProduct, PoolIsLastPage
  <2>4. \A q \in Active : q \notin Active' => q \in touched'
    BY <2>1, <2>2 DEF Active
  <2>5. status' \in [Product -> {"absent", "active", "inactive"}] /\ touched' \subseteq Product
    BY <1>0, <1>5, <2>2 DEF SwitchProduct, TypeOK
  <2>6. events' \in 0 .. MaxEvents
    BY <1>0, <1>5, EventTyped DEF SwitchProduct
  <2>7. TypeOK'
    BY <1>0, <1>5, <2>5, <2>6 DEF SwitchProduct, TypeOK
  <2> QED BY <1>5, <2>3, <2>4, <2>7, LogKept, RunKept DEF SwitchProduct, StepRespects
<1>6. ASSUME NEW s \in Store, SwitchStore(s)
      PROVE  IInv' /\ StepRespects
  <2>1. open' \subseteq Store
    BY <1>0, <1>6 DEF SwitchStore
  <2>2. events' \in 0 .. MaxEvents
    BY <1>0, <1>6, EventTyped DEF SwitchStore
  <2>3. Kept
    BY <1>0, <1>6, <2>2, RowsKept, LogKept DEF Kept, SwitchStore, TypeOK
  <2> QED BY <1>0, <1>6, <2>1, <2>3, KeptInvariant DEF SwitchStore
<1>7. ASSUME NEW p \in Product, Observe(p)
      PROVE  IInv' /\ StepRespects
  <2>1. PICK kinds \in Shown("OTHER", {p}) : Save(kinds)
    BY <1>7 DEF Observe
  <2>2. kinds \in Brought
    BY ShownBrought
  <2>3. Kept
    BY <1>7, <2>1, <2>2, SnapshotKeeps DEF Observe
  <2> QED BY <1>0, <1>7, <2>3, KeptInvariant DEF Observe
<1>8. ASSUME NEW p \in Product, PassFetches(p)
      PROVE  IInv' /\ StepRespects
  <2>1. PICK kinds \in [{p} -> {"AUTO"} \X {"VALID", "SUSPECT", "FAILED"}] : Save(kinds)
    BY <1>8 DEF PassFetches
  <2>2. {"AUTO"} \X {"VALID", "SUSPECT", "FAILED"} \subseteq Kind
    BY DEF Kind
  <2>3. kinds \in Brought
    BY <2>2 DEF Brought
  <2>4. pass' \in Pass
    BY <1>0, <1>8 DEF PassFetches, Pass
  <2>5. Kept
    BY <1>8, <2>1, <2>3, SnapshotKeeps DEF PassFetches
  <2> QED BY <1>0, <1>8, <2>4, <2>5, KeptInvariant DEF PassFetches
<1>9. ASSUME NEW ps \in SUBSET Product, ButtonPass(ps)
      PROVE  IInv' /\ StepRespects
  <2>1. pass' \in Pass
    BY <1>9, PassTyped DEF ButtonPass, Pass
  <2> QED BY <1>0, <1>9, <2>1, StillKept, KeptInvariant DEF ButtonPass
<1>10. CASE EnsureRun
  <2>1. TypeOK'
    BY <1>0, <1>10 DEF EnsureRun, TypeOK
  <2>2. FallbackQueued'
    BY <1>10 DEF EnsureRun, FallbackQueued
  <2> QED BY <1>10, <2>1, <2>2, RowsKept, LogKept DEF EnsureRun, StepRespects
<1>11. CASE ScheduledPass
  <2>1. pass' \in Pass
    BY <1>0, <1>11, PassTyped DEF ScheduledPass, Pass
  <2>2. TypeOK'
    BY <1>0, <1>11, <2>1 DEF ScheduledPass, TypeOK
  <2>3. FallbackQueued'
    BY <1>11 DEF ScheduledPass, FallbackQueued
  <2> QED BY <1>11, <2>2, <2>3, RowsKept, LogKept DEF ScheduledPass, StepRespects
<1>12. CASE PassLists
  <2>1. Wanted(TRUE) \subseteq Product
    BY DEF Wanted, Monitored, Active
  <2>2. pass' \in Pass
    BY <1>0, <1>12, <2>1 DEF PassLists, Pass
  <2> QED BY <1>0, <1>12, <2>2, StillKept, KeptInvariant DEF PassLists
<1>13. ASSUME NEW done \in BOOLEAN, PassEnds(done)
       PROVE  IInv' /\ StepRespects
  <2>1. pass' \in Pass
    BY <1>13, PassTyped DEF PassEnds
  <2>2. nightly' = nightly
    BY <1>13, PassTyped DEF PassEnds
  <2> QED BY <1>0, <1>13, <2>1, <2>2, StillKept, KeptInvariant DEF PassEnds
<1>14. CASE PassQueues
  <2>1. TypeOK'
    BY <1>0, <1>14, PassTyped DEF PassQueues, TypeOK
  <2>2. FallbackQueued'
    BY <1>14 DEF PassQueues, FallbackQueued
  <2> QED BY <1>14, <2>1, <2>2, RowsKept, LogKept DEF PassQueues, StepRespects
<1>15. CASE PassCrashes
  <2> QED BY <1>0, <1>15, PassTyped, StillKept, KeptInvariant DEF PassCrashes
<1>16. CASE NewDay
  <2>0. day' \in 1 .. LastDay /\ [p \in Product |-> {}] \in [Product -> SUBSET Kind]
    BY <1>0, <1>16, BoundAssumption DEF NewDay, TypeOK
  <2>1. TypeOK'
    BY <1>0, <1>16, <2>0 DEF NewDay, TypeOK
  <2>2. FallbackQueued'
    BY <1>16 DEF NewDay, FallbackQueued
  <2>3. TasksFollowAttempts'
    BY <1>16 DEF NewDay, TasksFollowAttempts
  <2>4. day' # day
    BY <1>0, <1>16, BoundAssumption DEF NewDay, TypeOK
  <2> QED BY <1>16, <2>1, <2>2, <2>3, <2>4, RowsKept DEF NewDay, StepRespects
<1>17. CASE UNCHANGED vars
  BY <1>0, <1>17, StillKept, KeptInvariant DEF vars
<1>18. CASE PassDone \/ PassAborts
  BY <1>13, <1>18 DEF PassDone, PassAborts
<1> QED
  BY <1>1, <1>2, <1>3, <1>4, <1>5, <1>6, <1>7, <1>8, <1>9, <1>10, <1>11, <1>12, <1>14,
     <1>15, <1>16, <1>17, <1>18 DEF Next

-----------------------------------------------------------------------------
(* The theorems                                                             *)

LEMMA InitIInv == Init => IInv
<1> SUFFICES ASSUME Init PROVE IInv
  OBVIOUS
<1>1. NoPass \in Pass
  BY DEF NoPass, Pass
<1>2. [p \in Product |-> {}] \in [Product -> SUBSET Kind]
  OBVIOUS
<1>3. 0 \in 0 .. MaxEvents /\ 1 \in 1 .. LastDay
  BY BoundAssumption
<1>4. TypeOK
  BY <1>1, <1>2, <1>3 DEF Init, TypeOK
<1> QED BY <1>4 DEF Init, IInv, FoundExist, PoolIsLastPage, TasksFollowAttempts,
                    FallbackQueued, FailedAuto

\* The rows, the day's snapshots, the tasks and the passes fit together in
\* every reachable state.
THEOREM Invariance == Spec => []IInv
<1>1. IInv /\ [Next]_vars => IInv'
  BY StepIInv
<1> QED BY <1>1, InitIInv, PTL DEF Spec

\* Every reachable state is well typed.
THEOREM TypeCorrect == Spec => []TypeOK
BY Invariance, PTL DEF IInv

\* Found products that nobody switched are those of the last page.
THEOREM PoolIsLastPageHolds == Spec => []PoolIsLastPage
BY Invariance, PTL DEF IInv

\* The manual tasks follow the attempts of the day.
THEOREM TasksFollowAttemptsHolds == Spec => []TasksFollowAttempts
BY Invariance, PTL DEF IInv

\* However the nightly pass ended, the browser run is there.
THEOREM FallbackQueuedHolds == Spec => []FallbackQueued
BY Invariance, PTL DEF IInv

\* No page switches off a product that was added by hand.
THEOREM ManualStaysHolds == Spec => ManualStays
<1>1. IInv /\ [Next]_vars => [\A p \in Active \ found : p \notin Active' => p \in touched']_vars
  BY StepIInv DEF StepRespects
<1> QED BY <1>1, Invariance, PTL DEF Spec, ManualStays

\* What people completed today stays counted.
THEOREM ManualWorkStaysCountedHolds == Spec => ManualWorkStaysCounted
<1>1. IInv /\ [Next]_vars => [day' = day => ManualCompleted \subseteq ManualCompleted']_vars
  BY StepIInv DEF StepRespects
<1> QED BY <1>1, Invariance, PTL DEF Spec, ManualWorkStaysCounted
=============================================================================
