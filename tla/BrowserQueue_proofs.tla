------------------------ MODULE BrowserQueue_proofs ------------------------
(***************************************************************************)
(* Proofs about BrowserQueue, for every set of stores and products and     *)
(* every number of days and verification pages.                            *)
(***************************************************************************)
EXTENDS BrowserQueue, SumLemmas

StatusRow == [Target -> ItemStatus \cup {"NONE"}]

-----------------------------------------------------------------------------
(* The counts of a run.                                                     *)

LEMMA TargetFinite == IsFiniteSet(Target)
  BY StoreAssumption, ProductAssumption, FS_Union DEF Target

LEMMA CountsType ==
  ASSUME NEW st
  PROVE  Counts(st) \in CountRow
<1>1. ASSUME NEW s \in SUBSET Target
      PROVE  Cardinality(s) \in Nat
  BY <1>1, TargetFinite, FS_Subset, FS_CardinalityType
<1>2. /\ Cardinality({t \in Target : st[t] # "NONE"}) \in Nat
      /\ Cardinality(Having(st, "SUCCEEDED")) \in Nat
      /\ Cardinality(Having(st, "PARTIAL")) \in Nat
      /\ Cardinality(Having(st, "FAILED")) \in Nat
  <2>1. /\ {t \in Target : st[t] # "NONE"} \in SUBSET Target
        /\ Having(st, "SUCCEEDED") \in SUBSET Target
        /\ Having(st, "PARTIAL") \in SUBSET Target
        /\ Having(st, "FAILED") \in SUBSET Target
    BY DEF Having
  <2> QED BY <1>1, <2>1
<1> QED BY <1>2 DEF Counts, CountRow

\* The counts only look at which items exist and which have ended how.
LEMMA CountsAgree ==
  ASSUME NEW a \in StatusRow, NEW b \in StatusRow,
         \A t \in Target : /\ a[t] = "NONE" <=> b[t] = "NONE"
                           /\ a[t] # b[t] => /\ a[t] \notin ItemTerminal
                                             /\ b[t] \notin ItemTerminal
  PROVE  Counts(a) = Counts(b)
<1>1. {t \in Target : a[t] # "NONE"} = {t \in Target : b[t] # "NONE"}
  OBVIOUS
<1>2. /\ Having(a, "SUCCEEDED") = Having(b, "SUCCEEDED")
      /\ Having(a, "PARTIAL") = Having(b, "PARTIAL")
      /\ Having(a, "FAILED") = Having(b, "FAILED")
  BY DEF Having, ItemTerminal
<1> QED BY <1>1, <1>2 DEF Counts

-----------------------------------------------------------------------------
(* Advancing a run.                                                         *)

LEMMA AdvanceType ==
  ASSUME NEW r \in RunRow, NEW st \in StatusRow, NEW due \in SUBSET Product
  PROVE  /\ AdvancedRun(r, st, due) \in RunRow
         /\ AdvancedItems(r, st, due) \in StatusRow
<1>1. AdvancedItems(r, st, due) \in StatusRow
  BY DEF AdvancedItems, StatusRow, ItemStatus
<1>2. Counts(st) \in CountRow
      /\ Counts(AdvancedItems(r, st, due)) \in CountRow
  BY CountsType
<1>3. Verdict(Counts(AdvancedItems(r, st, due))) \in RunStatus
  BY DEF Verdict, RunStatus
<1>4. AdvancedPhase(r, st, AdvancedItems(r, st, due)) \in Phase
  BY DEF AdvancedPhase, RunRow, Phase
<1>5. AdvancedRun(r, st, due) \in RunRow
  BY <1>2, <1>3, <1>4 DEF AdvancedRun, RunRow, RunStatus
<1> QED BY <1>1, <1>5
(***************************************************************************)
(* How a run's row and its items belong together.  Fits is what every      *)
(* handler leaves behind; Advanceable is what it has when it calls         *)
(* _advance_run, which restores Fits.                                      *)
(***************************************************************************)
Final == {"COMPLETED", "PARTIAL", "FAILED"}

Loose(r, st) ==
  /\ \A t \in Target : st[t] # "SKIPPED"
  /\ r.phase = "STORE_DISCOVERY" => \A p \in Product : st[p] = "NONE"
  /\ r.phase # "STORE_DISCOVERY" => StoresDone(st)
  /\ Paused(st) => r.paused

Advanceable(r, st) ==
  /\ Loose(r, st)
  /\ r.status # "NONE"
  /\ r.phase = "COMPLETED" => Open(st) = {}

Fits(r, st) ==
  /\ Loose(r, st)
  /\ r.status = "NONE" => /\ r.phase = "STORE_DISCOVERY"
                          /\ \A t \in Target : st[t] = "NONE"
  /\ r.paused <=> r.status = "NEEDS_VERIFICATION"
  /\ r.status # "NONE" =>
       /\ r.phase = "COMPLETED" <=> Open(st) = {}
       /\ r.phase = "COMPLETED" <=> r.status \in Final
       /\ r.phase = "STORE_DISCOVERY" => ~StoresDone(st)
       /\ r.counts = Counts(st)
       /\ r.phase = "COMPLETED" => r.status = Verdict(Counts(st))

LEMMA AdvanceFits ==
  ASSUME NEW r \in RunRow, NEW st \in StatusRow, NEW due \in SUBSET Product,
         Advanceable(r, st)
  PROVE  /\ Fits(AdvancedRun(r, st, due), AdvancedItems(r, st, due))
         /\ AdvancedRun(r, st, due).status # "NONE"
<1> DEFINE r2 == AdvancedRun(r, st, due)
           it == AdvancedItems(r, st, due)
<1>1. it \in StatusRow
  BY AdvanceType
<1>2. CASE Paused(st)
  <2>1. it = st
    BY <1>2 DEF AdvancedItems
  <2>2. r2 = [r EXCEPT !.status = "NEEDS_VERIFICATION", !.counts = Counts(st)]
    BY <1>2 DEF AdvancedRun
  <2>3. PICK t \in Target : st[t] = "NEEDS_VERIFICATION"
    BY <1>2 DEF Paused, Having
  <2>4. t \in Open(st)
    BY <2>3 DEF Open, ItemTerminal
  <2>5. r.phase = "STORE_DISCOVERY" => t \in Store
    BY <2>3 DEF Advanceable, Loose, Target
  <2>6. r2 \in RunRow /\ r2.status = "NEEDS_VERIFICATION" /\ r2.phase = r.phase
        /\ r2.paused = r.paused /\ r2.counts = Counts(st)
    BY <2>2, AdvanceType DEF RunRow
  <2> QED
    BY <1>2, <2>1, <2>4, <2>5, <2>6
    DEF Fits, Loose, Advanceable, StoresDone, Final
<1>3. CASE ~Paused(st)
  <2>1. /\ r2.paused = FALSE
        /\ r2.phase = AdvancedPhase(r, st, it)
        /\ r2.counts = Counts(it)
        /\ r2.status = IF Open(it) = {} THEN Verdict(Counts(it))
                       ELSE IF r.started THEN "RUNNING" ELSE "PENDING"
    BY <1>3 DEF AdvancedRun, RunRow
  <2>2. Verdict(Counts(it)) \in Final
    BY DEF Verdict, Final
  <2>3. \A t \in Target : it[t] # "SKIPPED" /\ it[t] # "NEEDS_VERIFICATION"
    BY <1>3 DEF AdvancedItems, Advanceable, Loose, Paused, Having
  <2>4. \A s \in Store : it[s] = st[s]
    BY KindAssumption DEF AdvancedItems, Target
  <2>5. StoresDone(it) <=> StoresDone(st)
    BY <2>4 DEF StoresDone, Open, Target
  <2>6. CASE Open(it) = {}
    <3>1. StoresDone(it)
      BY <2>6 DEF StoresDone
    <3> QED
      BY <2>1, <2>2, <2>3, <2>6, <3>1
      DEF Fits, Loose, AdvancedPhase, Paused, Having, Final
  <2>7. CASE Open(it) # {} /\ r.phase = "STORE_DISCOVERY" /\ StoresDone(st)
    <3>1. r2.phase = "PRODUCT_COLLECTION" /\ r2.status \in {"RUNNING", "PENDING"}
      BY <2>1, <2>7 DEF AdvancedPhase
    <3> QED
      BY <2>1, <2>3, <2>5, <2>7, <3>1 DEF Fits, Loose, Paused, Having, Final
  <2>8. CASE Open(it) # {} /\ ~(r.phase = "STORE_DISCOVERY" /\ StoresDone(st))
    <3>1. it = st
      BY <2>8 DEF AdvancedItems
    <3>2. r2.phase = r.phase /\ r2.status \in {"RUNNING", "PENDING"}
      BY <2>1, <2>8 DEF AdvancedPhase
    <3> QED
      BY <2>1, <2>3, <2>8, <3>1, <3>2
      DEF Fits, Loose, Advanceable, Paused, Having, Final
  <2> QED BY <2>6, <2>7, <2>8
<1>4. r2.status # "NONE"
  <2>1. Verdict(Counts(it)) # "NONE"
    BY DEF Verdict
  <2> QED BY <2>1 DEF AdvancedRun, RunRow
<1> QED BY <1>2, <1>3, <1>4
-----------------------------------------------------------------------------
(* Type correctness.                                                        *)

LEMMA DueType ==
  ASSUME NEW act \in SUBSET Product, NEW val
  PROVE  Due(act, val) \in SUBSET Product
  BY DEF Due

LEMMA SweptType ==
  ASSUME TypeOK, NEW d \in Day
  PROVE  /\ SweptItems(d) \in StatusRow
         /\ SweptLeases(d) \in [Target -> {"none", "live", "expired"}]
  BY DEF SweptItems, SweptLeases, StatusRow, TypeOK, ItemStatus, ItemTerminal

LEMMA AdvanceStepType ==
  ASSUME TypeOK, NEW d \in Day, NEW r \in RunRow, NEW st \in StatusRow,
         NEW due \in SUBSET Product, Advance(d, r, st, due)
  PROVE  /\ run' \in [Day -> RunRow]
         /\ status' \in [Day -> StatusRow]
  BY AdvanceType DEF Advance, TypeOK, StatusRow

LEMMA FinishType ==
  ASSUME TypeOK, NEW d \in Day, NEW t \in Target, NEW result \in ItemTerminal,
         NEW due \in SUBSET Product, Finish(d, t, result, due)
  PROVE  /\ run' \in [Day -> RunRow]
         /\ status' \in [Day -> StatusRow]
         /\ lease' \in [Day -> [Target -> {"none", "live", "expired"}]]
<1>1. [status[d] EXCEPT ![t] = result] \in StatusRow
  BY DEF TypeOK, StatusRow, ItemStatus
<1>2. run[d] \in RunRow
  BY DEF TypeOK
<1> QED BY <1>1, <1>2, AdvanceStepType DEF Finish, TypeOK

LEMMA TypeStep == TypeOK /\ [Next]_vars => TypeOK'
<1> SUFFICES ASSUME TypeOK, [Next]_vars
             PROVE  TypeOK'
  OBVIOUS
<1> USE DEF pool
<1>1. ASSUME NEW d \in Day, Ensure(d)
      PROVE  TypeOK'
  <2>1. NewRun \in RunRow
    BY DEF NewRun, NoRun, RunRow, RunStatus, Phase, CountRow
  <2>2. [t \in Target |-> IF t \in openStores THEN "PENDING" ELSE "NONE"] \in StatusRow
    BY DEF StatusRow, ItemStatus
  <2>3. Due(active, valid[d]) \in SUBSET Product
    BY DueType DEF TypeOK
  <2> QED BY <1>1, <2>1, <2>2, <2>3, AdvanceStepType DEF Ensure, TypeOK, StatusRow
<1>2. ASSUME Claim
      PROVE  TypeOK'
  <2> DEFINE due   == Due(active, valid[day])
             r     == AdvancedRun(run[day], SweptItems(day), due)
             items == AdvancedItems(run[day], SweptItems(day), due)
  <2>1. /\ day \in Day
        /\ run[day] \in RunRow
        /\ due \in SUBSET Product
    BY DueType DEF TypeOK
  <2>2. r \in RunRow /\ items \in StatusRow
    BY <2>1, SweptType, AdvanceType
  <2>3. CASE /\ Advance(day, run[day], SweptItems(day), due)
             /\ lease' = [lease EXCEPT ![day] = SweptLeases(day)]
             /\ UNCHANGED attempts
    BY <1>2, <2>1, <2>3, SweptType, AdvanceStepType DEF Claim, TypeOK, StatusRow
  <2>4. ASSUME NEW t \in First(Claimable(r, items)),
               run' = [run EXCEPT ![day] = ClaimedRun(r)],
               status' = [status EXCEPT ![day] = [items EXCEPT ![t] = "RUNNING"]],
               attempts' = [attempts EXCEPT ![day][t] = @ + 1],
               lease' = [lease EXCEPT ![day] = [SweptLeases(day) EXCEPT ![t] = "live"]]
        PROVE  TypeOK'
    <3>1. ClaimedRun(r) \in RunRow
      BY <2>2 DEF ClaimedRun, RunRow, RunStatus
    <3>2. [items EXCEPT ![t] = "RUNNING"] \in StatusRow
      BY <2>2 DEF StatusRow, ItemStatus, ItemActive
    <3>3. t \in Target
      BY DEF First, Claimable, Having
    <3>4. attempts' \in [Day -> [Target -> Nat]]
      BY <2>1, <2>4, <3>3 DEF TypeOK
    <3>5. lease' \in [Day -> [Target -> {"none", "live", "expired"}]]
      BY <2>1, <2>4, <3>3, SweptType DEF TypeOK
    <3>6. /\ run' \in [Day -> RunRow]
          /\ status' \in [Day -> StatusRow]
      BY <2>4, <3>1, <3>2 DEF TypeOK, StatusRow
    <3>7. /\ day' = day /\ source' = source /\ active' = active
          /\ openStores' = openStores /\ valid' = valid /\ challenges' = challenges
      BY <1>2 DEF Claim
    <3> QED BY <3>4, <3>5, <3>6, <3>7 DEF TypeOK, StatusRow
  <2> QED BY <1>2, <2>3, <2>4 DEF Claim
<1>3. ASSUME NEW d \in Day, NEW p \in Product, ProductAnswer(d, p)
      PROVE  TypeOK'
  <2>1. PICK sold \in BOOLEAN :
          /\ valid' = [valid EXCEPT ![day] = IF sold THEN @ \cup {p} ELSE @]
          /\ Finish(d, p, ProductResult(sold), Due(active, valid'[d]))
    BY <1>3 DEF ProductAnswer
  <2>2. /\ valid' \in [Day -> SUBSET Product]
        /\ Due(active, valid'[d]) \in SUBSET Product
        /\ ProductResult(sold) \in ItemTerminal
        /\ p \in Target
    BY <2>1, DueType DEF TypeOK, ProductResult, ItemTerminal, Target
  <2>3. /\ run' \in [Day -> RunRow]
        /\ status' \in [Day -> StatusRow]
        /\ lease' \in [Day -> [Target -> {"none", "live", "expired"}]]
    BY <2>1, <2>2, FinishType
  <2>4. /\ day' = day /\ source' = source /\ active' = active
        /\ openStores' = openStores /\ attempts' = attempts
        /\ challenges' = challenges
    BY <1>3 DEF ProductAnswer
  <2> QED BY <2>2, <2>3, <2>4 DEF TypeOK, StatusRow
<1>4. ASSUME NEW d \in Day, NEW s \in Store, StoreAnswer(d, s)
      PROVE  TypeOK'
  <2>1. PICK seen \in SUBSET {p \in Product : StoreOf[p] = s}, links \in BOOLEAN :
          /\ source' = [p \in Product |->
                          IF p \in seen /\ source[p] = "none" THEN "auto" ELSE source[p]]
          /\ active' = PoolAfter(s, seen, links)
          /\ \E sold \in SUBSET seen : valid' = [valid EXCEPT ![day] = @ \cup sold]
          /\ Finish(d, s, IF links THEN "SUCCEEDED" ELSE "FAILED", Due(active', valid'[d]))
    BY <1>4 DEF StoreAnswer
  <2>2. /\ source' \in [Product -> {"none", "auto", "manual"}]
        /\ active' \in SUBSET Product
        /\ valid' \in [Day -> SUBSET Product]
    BY <2>1 DEF PoolAfter, TypeOK
  <2>3. /\ Due(active', valid'[d]) \in SUBSET Product
        /\ (IF links THEN "SUCCEEDED" ELSE "FAILED") \in ItemTerminal
        /\ s \in Target
    BY <2>2, DueType DEF ItemTerminal, Target
  <2> QED BY <1>4, <2>1, <2>2, <2>3, FinishType DEF StoreAnswer, TypeOK, StatusRow
<1>5. ASSUME NEW d \in Day, NEW t \in Target, FailureRetried(d, t)
      PROVE  TypeOK'
  <2>1. status' \in [Day -> [Target -> ItemStatus \cup {"NONE"}]]
    BY <1>5 DEF FailureRetried, Requeued, TypeOK, ItemStatus
  <2>2. Counts(status'[d]) \in CountRow /\ run[d] \in RunRow
    BY CountsType DEF TypeOK
  <2>3. [run[d] EXCEPT !.counts = Counts(status'[d])] \in RunRow
    BY <2>2 DEF RunRow
  <2>4. run' \in [Day -> RunRow]
    BY <1>5, <2>3 DEF FailureRetried, TypeOK
  <2>5. lease' \in [Day -> [Target -> {"none", "live", "expired"}]]
    BY <1>5 DEF FailureRetried, TypeOK
  <2> QED BY <1>5, <2>1, <2>4, <2>5 DEF FailureRetried, TypeOK
<1>6. ASSUME NEW d \in Day, NEW t \in Target, FailureFinal(d, t)
      PROVE  TypeOK'
  <2>1. /\ Due(active, valid[d]) \in SUBSET Product
        /\ "FAILED" \in ItemTerminal
    BY DueType DEF TypeOK, ItemTerminal
  <2> QED BY <1>6, <2>1, FinishType DEF FailureFinal, TypeOK, StatusRow
<1>7. ASSUME NEW d \in Day, NEW t \in Target, Challenge(d, t)
      PROVE  TypeOK'
  <2>1. challenges' \in [Day -> [Target -> 0 .. MaxChallenges]]
    BY <1>7, BoundAssumption DEF Challenge, TypeOK
  <2>2. run' \in [Day -> RunRow]
    <3>1. Counts(status'[d]) \in CountRow /\ run[d] \in RunRow
      BY CountsType DEF TypeOK
    <3>2. [run[d] EXCEPT !.status = "NEEDS_VERIFICATION", !.paused = TRUE,
                         !.counts = Counts(status'[d])] \in RunRow
      BY <3>1 DEF RunRow, RunStatus
    <3> QED BY <1>7, <3>2 DEF Challenge, TypeOK
  <2>3. status' \in [Day -> [Target -> ItemStatus \cup {"NONE"}]]
    BY <1>7 DEF Challenge, TypeOK, ItemStatus, ItemActive
  <2>4. lease' \in [Day -> [Target -> {"none", "live", "expired"}]]
    BY <1>7 DEF Challenge, LeaseOfPaused, TypeOK
  <2> QED BY <1>7, <2>1, <2>2, <2>3, <2>4 DEF Challenge, TypeOK
<1>8. ASSUME NEW d \in Day, Resume(d)
      PROVE  TypeOK'
  <2>1. ResumedRun(run[d]) \in RunRow
    <3>1. run[d] \in RunRow
      BY DEF TypeOK
    <3> QED BY <3>1 DEF ResumedRun, RunRow, RunStatus
  <2>2. run' \in [Day -> RunRow]
    <3>1. run' = [run EXCEPT ![d] = ResumedRun(run[d])]
      BY <1>8 DEF Resume
    <3>2. run \in [Day -> RunRow]
      BY DEF TypeOK
    <3> QED BY <2>1, <3>1, <3>2
  <2>3. Released(status[d]) \in [Target -> ItemStatus \cup {"NONE"}]
    BY DEF Released, TypeOK, ItemStatus
  <2>4. status' \in [Day -> [Target -> ItemStatus \cup {"NONE"}]]
    BY <1>8, <2>3 DEF Resume, TypeOK
  <2>5. lease' \in [Day -> [Target -> {"none", "live", "expired"}]]
    BY <1>8 DEF Resume, TypeOK
  <2> QED BY <1>8, <2>2, <2>4, <2>5 DEF Resume, TypeOK
<1>9. ASSUME Environment
      PROVE  TypeOK'
  <2>1. CASE NewDay
    BY <2>1, DayAssumption DEF NewDay, TypeOK, Day
  <2>2. ASSUME NEW d \in Day, NEW t \in Target, LeaseExpires(d, t)
        PROVE  TypeOK'
    BY <2>2 DEF LeaseExpires, TypeOK
  <2>3. ASSUME NEW p \in Product, SnapshotElsewhere(p) \/ AddProduct(p) \/ SwitchProduct(p)
        PROVE  TypeOK'
    <3>1. CASE SnapshotElsewhere(p)
      BY <3>1 DEF SnapshotElsewhere, TypeOK
    <3>2. CASE AddProduct(p)
      BY <3>2 DEF AddProduct, TypeOK
    <3>3. CASE SwitchProduct(p)
      BY <3>3 DEF SwitchProduct, TypeOK
    <3> QED BY <2>3, <3>1, <3>2, <3>3
  <2>4. ASSUME NEW s \in Store, SwitchStore(s)
        PROVE  TypeOK'
    BY <2>4 DEF SwitchStore, TypeOK
  <2> QED BY <1>9, <2>1, <2>2, <2>3, <2>4 DEF Environment
<1>10. CASE UNCHANGED vars
  BY <1>10 DEF vars, TypeOK
<1> QED
  BY <1>1, <1>2, <1>3, <1>4, <1>5, <1>6, <1>7, <1>8, <1>9, <1>10 DEF Next, Report

\* The state keeps its types: statuses the code knows, attempts that are
\* counted, verification pages within the model's bound.
THEOREM TypeCorrect == Spec => []TypeOK
<1>1. Init => TypeOK
  BY DayAssumption, BoundAssumption
  DEF Init, TypeOK, NoRun, RunRow, Phase, CountRow, Day
<1> QED BY <1>1, TypeStep, PTL DEF Spec

-----------------------------------------------------------------------------
(***************************************************************************)
(* The inductive invariant.  RunOpenIffWorkLeft and its companions are     *)
(* consequences of Fits; leases, attempts and snapshots each need a        *)
(* strengthening of their own: what a PENDING or paused item may have used *)
(* up, and that only items of days already begun are in a worker's hands.  *)
(***************************************************************************)
RunsFit == \A d \in Day : Fits(run[d], status[d])

AttemptsOf(s, n, c) ==
  /\ s = "NONE" => n = 0
  /\ s \in {"PENDING", "NEEDS_VERIFICATION"} => n <= 1 + c
  /\ n <= 2 + c

AttemptsFit ==
  \A d \in Day, t \in Target :
    AttemptsOf(status[d][t], attempts[d][t], challenges[d][t])

HandedOutOnTime ==
  \A d \in Day, t \in Target : status[d][t] \in ItemActive => d <= day

IInv ==
  /\ TypeOK
  /\ RunsFit
  /\ LeaseGuardsRunning
  /\ AttemptsFit
  /\ HandedOutOnTime
  /\ SuccessHasSnapshot

-----------------------------------------------------------------------------
(***************************************************************************)
(* What a step may do to one item.  Every property about single items      *)
(* follows from this list.                                                 *)
(***************************************************************************)
SameStatus(e, t)   == status'[e][t] = status[e][t]
SameAttempts(e, t) == attempts'[e][t] = attempts[e][t]
SameLease(e, t)    == lease'[e][t] = lease[e][t]
SamePauses(e, t)   == challenges'[e][t] = challenges[e][t]

MoveNone(e, t) ==
  SameStatus(e, t) /\ SameAttempts(e, t) /\ SameLease(e, t) /\ SamePauses(e, t)

MoveListed(e, t) ==
  /\ status[e][t] = "NONE" /\ status'[e][t] = "PENDING"
  /\ SameAttempts(e, t) /\ SameLease(e, t) /\ SamePauses(e, t)

MoveLapse(e, t) ==
  /\ lease[e][t] = "live" /\ lease'[e][t] = "expired"
  /\ SameStatus(e, t) /\ SameAttempts(e, t) /\ SamePauses(e, t)

MoveTakenBack(e, t) ==
  /\ status[e][t] = "RUNNING" /\ lease[e][t] = "expired" /\ attempts[e][t] < 2
  /\ status'[e][t] = "PENDING" /\ lease'[e][t] = "none"
  /\ SameAttempts(e, t) /\ SamePauses(e, t)

MoveGivenUp(e, t) ==
  /\ status[e][t] = "RUNNING" /\ lease[e][t] = "expired"
  /\ status'[e][t] = "FAILED" /\ SameLease(e, t)
  /\ SameAttempts(e, t) /\ SamePauses(e, t)

MoveHandedOut(e, t) ==
  /\ e = day
  /\ \/ status[e][t] \in {"NONE", "PENDING"}
     \/ status[e][t] = "RUNNING" /\ lease[e][t] = "expired" /\ attempts[e][t] < 2
  /\ status'[e][t] = "RUNNING" /\ lease'[e][t] = "live"
  /\ attempts'[e][t] = attempts[e][t] + 1 /\ SamePauses(e, t)

MoveEnded(e, t) ==
  /\ status[e][t] \in ItemActive
  /\ status'[e][t] \in {"SUCCEEDED", "PARTIAL", "FAILED"}
  /\ t \in Product /\ status'[e][t] = "SUCCEEDED" => t \in valid'[day]
  /\ lease'[e][t] = "none" /\ SameAttempts(e, t) /\ SamePauses(e, t)

MoveRetried(e, t) ==
  /\ status[e][t] \in ItemActive /\ attempts[e][t] < 2
  /\ status'[e][t] = "PENDING" /\ lease'[e][t] = "none"
  /\ SameAttempts(e, t) /\ SamePauses(e, t)

MoveHeld(e, t) ==
  /\ status[e][t] \in ItemActive
  /\ status'[e][t] = "NEEDS_VERIFICATION" /\ lease'[e][t] = "none"
  /\ SameAttempts(e, t) /\ challenges'[e][t] = challenges[e][t] + 1

MoveReleased(e, t) ==
  /\ status[e][t] = "NEEDS_VERIFICATION"
  /\ status'[e][t] = "PENDING" /\ lease'[e][t] = "none"
  /\ SameAttempts(e, t) /\ SamePauses(e, t)

ItemMove(e, t) ==
  \/ MoveNone(e, t) \/ MoveListed(e, t) \/ MoveLapse(e, t)
  \/ MoveTakenBack(e, t) \/ MoveGivenUp(e, t) \/ MoveHandedOut(e, t)
  \/ MoveEnded(e, t) \/ MoveRetried(e, t) \/ MoveHeld(e, t) \/ MoveReleased(e, t)

ItemsMove == \A e \in Day, t \in Target : ItemMove(e, t)

LEMMA AdvancedItem ==
  ASSUME NEW r, NEW st \in StatusRow, NEW due, NEW t \in Target
  PROVE  \/ AdvancedItems(r, st, due)[t] = st[t]
         \/ st[t] = "NONE" /\ AdvancedItems(r, st, due)[t] = "PENDING"
  BY DEF AdvancedItems, StatusRow

LEMMA FinishMoves ==
  ASSUME TypeOK, NEW d \in Day, NEW t \in Target, NEW due,
         NEW result \in {"SUCCEEDED", "PARTIAL", "FAILED"},
         Reportable(d, t), Finish(d, t, result, due),
         t \in Product /\ result = "SUCCEEDED" => t \in valid'[day],
         UNCHANGED <<attempts, challenges>>
  PROVE  ItemsMove
<1> DEFINE st == [status[d] EXCEPT ![t] = result]
<1>1. st \in StatusRow
  BY DEF TypeOK, StatusRow, ItemStatus, ItemTerminal
<1>2. status' = [status EXCEPT ![d] = AdvancedItems(run[d], st, due)]
  BY DEF Finish, Advance
<1>3. ASSUME NEW e \in Day, NEW u \in Target
      PROVE  ItemMove(e, u)
  <2>1. CASE e # d
    <3>1. MoveNone(e, u)
      BY <1>2, <2>1 DEF Finish, TypeOK, MoveNone, SameStatus, SameAttempts, SameLease, SamePauses
    <3> QED BY <3>1 DEF ItemMove
  <2>2. CASE e = d /\ u # t
    <3>1. st[u] = status[d][u]
      BY <2>2 DEF TypeOK
    <3>2. \/ status'[d][u] = status[d][u]
          \/ status[d][u] = "NONE" /\ status'[d][u] = "PENDING"
      BY <1>1, <1>2, <3>1, AdvancedItem DEF TypeOK
    <3>3. MoveNone(e, u) \/ MoveListed(e, u)
      BY <2>2, <3>2
      DEF Finish, TypeOK, MoveNone, MoveListed, SameStatus, SameAttempts, SameLease, SamePauses
    <3> QED BY <3>3 DEF ItemMove
  <2>3. CASE e = d /\ u = t
    <3>1. st[t] = result
      BY DEF TypeOK
    <3>2. AdvancedItems(run[d], st, due)[t] = result
      <4> HIDE DEF st
      <4>1. \/ AdvancedItems(run[d], st, due)[t] = st[t]
            \/ st[t] = "NONE" /\ AdvancedItems(run[d], st, due)[t] = "PENDING"
        BY <1>1, AdvancedItem
      <4>2. st[t] # "NONE"
        BY <3>1
      <4> QED BY <3>1, <4>1, <4>2
    <3>3. status'[d][t] = result
      BY <1>2, <3>2 DEF TypeOK
    <3>4. MoveEnded(e, u)
      BY <2>3, <3>3
      DEF Finish, Reportable, TypeOK, MoveEnded, SameAttempts, SamePauses
    <3> QED BY <3>4 DEF ItemMove
  <2> QED BY <2>1, <2>2, <2>3
<1> QED BY <1>3 DEF ItemsMove

LEMMA ClaimMoves ==
  ASSUME TypeOK, Claim
  PROVE  ItemsMove
<1> DEFINE st    == SweptItems(day)
           due   == Due(active, valid[day])
           r     == AdvancedRun(run[day], st, due)
           items == AdvancedItems(run[day], st, due)
           free  == Claimable(r, items)
<1>1. st \in StatusRow /\ day \in Day
  BY SweptType DEF TypeOK
<1>2. items \in StatusRow
  BY <1>1, AdvanceType, DueType DEF TypeOK
<1>3. ASSUME NEW e \in Day, NEW u \in Target, e # day
      PROVE  ItemMove(e, u)
  <2>1. MoveNone(e, u)
    BY <1>1, <1>3
    DEF Claim, Advance, TypeOK, MoveNone, SameStatus, SameAttempts, SameLease, SamePauses
  <2> QED BY <2>1 DEF ItemMove
<1>4. ASSUME NEW u \in Target,
             status'[day][u] = items[u], attempts'[day][u] = attempts[day][u],
             lease'[day][u] = SweptLeases(day)[u]
      PROVE  ItemMove(day, u)
  <2>1. challenges' = challenges
    BY DEF Claim
  <2>2. CASE ~Lost(day, u)
    <3>1. st[u] = status[day][u] /\ SweptLeases(day)[u] = lease[day][u]
      BY <2>2 DEF SweptItems, SweptLeases
    <3>2. \/ items[u] = st[u]
          \/ st[u] = "NONE" /\ items[u] = "PENDING"
      BY <1>1, AdvancedItem
    <3>3. MoveNone(day, u) \/ MoveListed(day, u)
      BY <1>4, <2>1, <3>1, <3>2
      DEF MoveNone, MoveListed, SameStatus, SameAttempts, SameLease, SamePauses
    <3> QED BY <3>3 DEF ItemMove
  <2>3. CASE Lost(day, u) /\ Exhausted(attempts[day][u])
    <3>1. st[u] = "FAILED" /\ SweptLeases(day)[u] = lease[day][u]
      BY <2>3 DEF SweptItems, SweptLeases
    <3>2. items[u] = "FAILED"
      BY <1>1, <3>1, AdvancedItem
    <3>3. MoveGivenUp(day, u)
      BY <1>4, <2>1, <2>3, <3>1, <3>2
      DEF MoveGivenUp, Lost, SameAttempts, SameLease, SamePauses
    <3> QED BY <3>3 DEF ItemMove
  <2>4. CASE Lost(day, u) /\ ~Exhausted(attempts[day][u])
    <3>1. st[u] = "PENDING" /\ SweptLeases(day)[u] = "none"
      BY <2>4 DEF SweptItems, SweptLeases
    <3>2. items[u] = "PENDING"
      BY <1>1, <3>1, AdvancedItem
    <3>3. attempts[day][u] < 2
      BY <1>1, <2>4 DEF Exhausted, TypeOK
    <3>4. MoveTakenBack(day, u)
      BY <1>4, <2>1, <2>4, <3>1, <3>2, <3>3
      DEF MoveTakenBack, Lost, SameAttempts, SamePauses
    <3> QED BY <3>4 DEF ItemMove
  <2> QED BY <2>2, <2>3, <2>4
<1>5. CASE /\ Advance(day, run[day], st, due)
           /\ lease' = [lease EXCEPT ![day] = SweptLeases(day)]
           /\ UNCHANGED attempts
  <2>1. ASSUME NEW u \in Target
        PROVE  ItemMove(day, u)
    <3>1. status'[day] = items /\ lease'[day] = SweptLeases(day)
      BY <1>1, <1>5 DEF Advance, TypeOK
    <3> QED BY <1>4, <1>5, <3>1
  <2> QED BY <1>3, <2>1 DEF ItemsMove
<1>6. ASSUME NEW t \in First(free),
             status' = [status EXCEPT ![day] = [items EXCEPT ![t] = "RUNNING"]],
             attempts' = [attempts EXCEPT ![day][t] = @ + 1],
             lease' = [lease EXCEPT ![day] = [SweptLeases(day) EXCEPT ![t] = "live"]]
      PROVE  ItemsMove
  <2>1. t \in Target /\ items[t] = "PENDING"
    BY DEF First, Claimable, Having
  <2>2. /\ status'[day] = [items EXCEPT ![t] = "RUNNING"]
        /\ attempts'[day] = [attempts[day] EXCEPT ![t] = @ + 1]
        /\ lease'[day] = [SweptLeases(day) EXCEPT ![t] = "live"]
    BY <1>1, <1>6 DEF TypeOK
  <2>3. ASSUME NEW u \in Target, u # t
        PROVE  ItemMove(day, u)
    <3>1. /\ status'[day][u] = items[u]
          /\ attempts'[day][u] = attempts[day][u]
          /\ lease'[day][u] = SweptLeases(day)[u]
      BY <1>1, <1>2, <2>2, <2>3, SweptType DEF StatusRow, TypeOK
    <3> QED BY <1>4, <3>1
  <2>4. ItemMove(day, t)
    <3>1. /\ status'[day][t] = "RUNNING"
          /\ attempts'[day][t] = attempts[day][t] + 1
          /\ lease'[day][t] = "live"
          /\ challenges' = challenges
      BY <1>1, <1>2, <2>1, <2>2, SweptType DEF StatusRow, TypeOK, Claim
    <3>2. st[t] \in {"NONE", "PENDING"}
      BY <1>1, <2>1, AdvancedItem
    <3>3. \/ status[day][t] \in {"NONE", "PENDING"}
          \/ Lost(day, t) /\ ~Exhausted(attempts[day][t])
      BY <2>1, <3>2 DEF SweptItems
    <3>4. \/ status[day][t] \in {"NONE", "PENDING"}
          \/ /\ status[day][t] = "RUNNING" /\ lease[day][t] = "expired"
             /\ attempts[day][t] < 2
      BY <1>1, <2>1, <3>3 DEF Lost, Exhausted, TypeOK
    <3>5. MoveHandedOut(day, t)
      BY <3>1, <3>4 DEF MoveHandedOut, SamePauses
    <3> QED BY <3>5 DEF ItemMove
  <2> QED BY <1>3, <2>3, <2>4 DEF ItemsMove
<1> QED BY <1>5, <1>6 DEF Claim

\* The steps that touch no item leave every one of them as it was.
LEMMA NothingMoves ==
  ASSUME UNCHANGED <<status, attempts, lease, challenges>>
  PROVE  ItemsMove
  BY DEF ItemsMove, ItemMove, MoveNone, SameStatus, SameAttempts, SameLease, SamePauses

LEMMA EveryStepMoves ==
  ASSUME TypeOK, RunsFit, [Next]_vars
  PROVE  ItemsMove
<1> USE DEF SameStatus, SameAttempts, SameLease, SamePauses
<1>1. ASSUME NEW d \in Day, Ensure(d)
      PROVE  ItemsMove
  <2> DEFINE st == [t \in Target |-> IF t \in openStores THEN "PENDING" ELSE "NONE"]
             due == Due(active, valid[d])
  <2>1. st \in StatusRow
    BY DEF StatusRow, ItemStatus
  <2>2. /\ status' = [status EXCEPT ![d] = AdvancedItems(NewRun, st, due)]
        /\ UNCHANGED <<attempts, lease, challenges>>
        /\ \A t \in Target : status[d][t] = "NONE"
    BY <1>1 DEF Ensure, Advance, RunsFit, Fits
  <2>3. ASSUME NEW e \in Day, NEW t \in Target
        PROVE  MoveNone(e, t) \/ MoveListed(e, t)
    <3>1. AdvancedItems(NewRun, st, due)[t] \in {"NONE", "PENDING"}
      <4>1. st[t] \in {"NONE", "PENDING"}
        OBVIOUS
      <4>2. \/ AdvancedItems(NewRun, st, due)[t] = st[t]
            \/ st[t] = "NONE" /\ AdvancedItems(NewRun, st, due)[t] = "PENDING"
        <5> HIDE DEF st
        <5> QED BY <2>1, AdvancedItem
      <4> QED BY <4>1, <4>2
    <3>2. status'[e][t] = IF e = d THEN AdvancedItems(NewRun, st, due)[t]
                          ELSE status[e][t]
      BY <2>2 DEF TypeOK
    <3> QED BY <2>2, <3>1, <3>2 DEF MoveNone, MoveListed
  <2> QED BY <2>3 DEF ItemsMove, ItemMove
<1>2. ASSUME Claim
      PROVE  ItemsMove
  BY <1>2, ClaimMoves
<1>3. ASSUME NEW d \in Day, NEW p \in Product, ProductAnswer(d, p)
      PROVE  ItemsMove
  <2>1. PICK sold \in BOOLEAN :
          /\ valid' = [valid EXCEPT ![day] = IF sold THEN @ \cup {p} ELSE @]
          /\ Finish(d, p, ProductResult(sold), Due(active, valid'[d]))
    BY <1>3 DEF ProductAnswer
  <2>2. ProductResult(sold) = "SUCCEEDED" => p \in valid'[day]
    BY <2>1 DEF ProductResult, TypeOK
  <2>3. /\ p \in Target
        /\ ProductResult(sold) \in {"SUCCEEDED", "PARTIAL", "FAILED"}
        /\ Reportable(d, p)
        /\ UNCHANGED <<attempts, challenges>>
    BY <1>3 DEF ProductAnswer, Target, ProductResult
  <2> QED BY <2>1, <2>2, <2>3, FinishMoves
<1>4. ASSUME NEW d \in Day, NEW s \in Store, StoreAnswer(d, s)
      PROVE  ItemsMove
  <2>1. PICK links \in BOOLEAN :
          Finish(d, s, IF links THEN "SUCCEEDED" ELSE "FAILED", Due(active', valid'[d]))
    BY <1>4 DEF StoreAnswer
  <2>2. /\ s \in Target /\ s \notin Product
        /\ (IF links THEN "SUCCEEDED" ELSE "FAILED") \in {"SUCCEEDED", "PARTIAL", "FAILED"}
        /\ Reportable(d, s)
        /\ UNCHANGED <<attempts, challenges>>
    BY <1>4, KindAssumption DEF StoreAnswer, Target
  <2> QED BY <2>1, <2>2, FinishMoves
<1>5. ASSUME NEW d \in Day, NEW t \in Target, FailureRetried(d, t)
      PROVE  ItemsMove
  <2>1. ASSUME NEW e \in Day, NEW u \in Target
        PROVE  MoveNone(e, u) \/ MoveRetried(e, u)
    BY <1>5 DEF FailureRetried, Reportable, Exhausted, Requeued, TypeOK, MoveNone, MoveRetried
  <2> QED BY <2>1 DEF ItemsMove, ItemMove
<1>6. ASSUME NEW d \in Day, NEW t \in Target, FailureFinal(d, t)
      PROVE  ItemsMove
  BY <1>6, FinishMoves DEF FailureFinal
<1>7. ASSUME NEW d \in Day, NEW t \in Target, Challenge(d, t)
      PROVE  ItemsMove
  <2>1. ASSUME NEW e \in Day, NEW u \in Target
        PROVE  MoveNone(e, u) \/ MoveHeld(e, u)
    BY <1>7 DEF Challenge, Reportable, LeaseOfPaused, TypeOK, MoveNone, MoveHeld
  <2> QED BY <2>1 DEF ItemsMove, ItemMove
<1>8. ASSUME NEW d \in Day, Resume(d)
      PROVE  ItemsMove
  <2>1. ASSUME NEW e \in Day, NEW u \in Target
        PROVE  MoveNone(e, u) \/ MoveReleased(e, u)
    BY <1>8 DEF Resume, Released, TypeOK, MoveNone, MoveReleased
  <2> QED BY <2>1 DEF ItemsMove, ItemMove
<1>9. ASSUME Environment
      PROVE  ItemsMove
  <2>1. ASSUME NEW d \in Day, NEW t \in Target, LeaseExpires(d, t)
        PROVE  ItemsMove
    <3>1. ASSUME NEW e \in Day, NEW u \in Target
          PROVE  MoveNone(e, u) \/ MoveLapse(e, u)
      BY <2>1 DEF LeaseExpires, TypeOK, MoveNone, MoveLapse
    <3> QED BY <3>1 DEF ItemsMove, ItemMove
  <2> QED
    BY <1>9, <2>1, NothingMoves
    DEF Environment, NewDay, SnapshotElsewhere, AddProduct, SwitchProduct, SwitchStore
<1>10. CASE UNCHANGED vars
  BY <1>10, NothingMoves DEF vars
<1> QED
  BY <1>1, <1>2, <1>3, <1>4, <1>5, <1>6, <1>7, <1>8, <1>9, <1>10 DEF Next, Report

\* Time does not run backwards.
LEMMA DayStep ==
  ASSUME TypeOK, [Next]_vars
  PROVE  day' = day \/ day' = day + 1
<1>1. ASSUME NEW d \in Day, Report(d)
      PROVE  day' = day
  BY <1>1 DEF Report, ProductAnswer, StoreAnswer, FailureRetried, FailureFinal, Challenge
<1>2. CASE Environment
  BY <1>2
  DEF Environment, LeaseExpires, NewDay, SnapshotElsewhere, AddProduct, SwitchProduct,
      SwitchStore
<1>3. CASE Claim \/ (\E d \in Day : Ensure(d) \/ Resume(d)) \/ UNCHANGED vars
  BY <1>3 DEF Claim, Ensure, Resume, vars
<1> QED BY <1>1, <1>2, <1>3 DEF Next

\* Snapshots are never withdrawn.
LEMMA ValidStep ==
  ASSUME TypeOK, [Next]_vars
  PROVE  \A e \in Day : valid[e] \subseteq valid'[e]
<1>1. ASSUME NEW d \in Day, NEW p \in Product, ProductAnswer(d, p)
      PROVE  \A e \in Day : valid[e] \subseteq valid'[e]
  <2>1. PICK sold \in BOOLEAN :
          valid' = [valid EXCEPT ![day] = IF sold THEN @ \cup {p} ELSE @]
    BY <1>1 DEF ProductAnswer
  <2> QED BY <2>1 DEF TypeOK
<1>2. ASSUME NEW d \in Day, NEW s \in Store, StoreAnswer(d, s)
      PROVE  \A e \in Day : valid[e] \subseteq valid'[e]
  <2>1. PICK sold \in SUBSET Product : valid' = [valid EXCEPT ![day] = @ \cup sold]
    BY <1>2 DEF StoreAnswer
  <2> QED BY <2>1 DEF TypeOK
<1>3. ASSUME NEW p \in Product, SnapshotElsewhere(p)
      PROVE  \A e \in Day : valid[e] \subseteq valid'[e]
  BY <1>3 DEF SnapshotElsewhere, TypeOK
<1>4. CASE UNCHANGED valid
  BY <1>4
<1> QED
  BY <1>1, <1>2, <1>3, <1>4
  DEF Next, Report, Environment, Ensure, Claim, FailureRetried, FailureFinal, Challenge,
      Resume, LeaseExpires, NewDay, AddProduct, SwitchProduct, SwitchStore, vars

-----------------------------------------------------------------------------
(* The conjuncts of IInv that speak of single items, from ItemsMove.        *)

LEMMA LeaseStep ==
  ASSUME TypeOK, LeaseGuardsRunning, ItemsMove
  PROVE  LeaseGuardsRunning'
<1> SUFFICES ASSUME NEW e \in Day, NEW t \in Target
             PROVE  /\ status'[e][t] = "RUNNING" => lease'[e][t] # "none"
                    /\ lease'[e][t] = "live" => status'[e][t] = "RUNNING"
  BY DEF LeaseGuardsRunning
<1>1. ItemMove(e, t)
  BY DEF ItemsMove
<1>2. /\ status[e][t] = "RUNNING" => lease[e][t] # "none"
      /\ lease[e][t] = "live" => status[e][t] = "RUNNING"
  BY DEF LeaseGuardsRunning
<1> QED
  BY <1>1, <1>2
  DEF ItemMove, MoveNone, MoveListed, MoveLapse, MoveTakenBack, MoveGivenUp,
      MoveHandedOut, MoveEnded, MoveRetried, MoveHeld, MoveReleased,
      SameStatus, SameLease

LEMMA AttemptsStep ==
  ASSUME TypeOK, AttemptsFit, ItemsMove
  PROVE  AttemptsFit'
<1> SUFFICES ASSUME NEW e \in Day, NEW t \in Target
             PROVE  AttemptsOf(status'[e][t], attempts'[e][t], challenges'[e][t])
  BY DEF AttemptsFit
<1>1. ItemMove(e, t)
  BY DEF ItemsMove
<1>2. AttemptsOf(status[e][t], attempts[e][t], challenges[e][t])
  BY DEF AttemptsFit
<1>3. attempts[e][t] \in Nat /\ challenges[e][t] \in Nat
  BY BoundAssumption DEF TypeOK
<1>4. CASE MoveHandedOut(e, t)
  BY <1>2, <1>3, <1>4 DEF MoveHandedOut, AttemptsOf, SamePauses
<1>5. CASE MoveHeld(e, t)
  BY <1>2, <1>3, <1>5 DEF MoveHeld, AttemptsOf, SameAttempts, ItemActive
<1>6. CASE MoveRetried(e, t) \/ MoveTakenBack(e, t) \/ MoveReleased(e, t) \/ MoveListed(e, t)
  BY <1>2, <1>3, <1>6
  DEF MoveRetried, MoveTakenBack, MoveReleased, MoveListed, AttemptsOf, SameAttempts, SamePauses
<1>7. CASE MoveEnded(e, t) \/ MoveGivenUp(e, t)
  BY <1>2, <1>3, <1>7
  DEF MoveEnded, MoveGivenUp, AttemptsOf, SameAttempts, SamePauses
<1>8. CASE MoveNone(e, t) \/ MoveLapse(e, t)
  BY <1>2, <1>8 DEF MoveNone, MoveLapse, AttemptsOf, SameStatus, SameAttempts, SamePauses
<1> QED BY <1>1, <1>4, <1>5, <1>6, <1>7, <1>8 DEF ItemMove

LEMMA OnTimeStep ==
  ASSUME TypeOK, HandedOutOnTime, ItemsMove, day' = day \/ day' = day + 1
  PROVE  HandedOutOnTime'
<1> SUFFICES ASSUME NEW e \in Day, NEW t \in Target, status'[e][t] \in ItemActive
             PROVE  e <= day'
  BY DEF HandedOutOnTime
<1>1. ItemMove(e, t)
  BY DEF ItemsMove
<1>2. status[e][t] \in ItemActive \/ e = day
  BY <1>1
  DEF ItemMove, MoveNone, MoveListed, MoveLapse, MoveTakenBack, MoveGivenUp,
      MoveHandedOut, MoveEnded, MoveRetried, MoveHeld, MoveReleased,
      SameStatus, ItemActive
<1>3. e \in Nat /\ day \in Nat
  BY DayAssumption DEF TypeOK, Day
<1>4. e <= day
  BY <1>2, <1>3 DEF HandedOutOnTime
<1> QED BY <1>3, <1>4

LEMMA SnapshotStep ==
  ASSUME TypeOK, HandedOutOnTime, SuccessHasSnapshot, ItemsMove,
         \A e \in Day : valid[e] \subseteq valid'[e]
  PROVE  SuccessHasSnapshot'
<1> SUFFICES ASSUME NEW d \in Day, NEW p \in Product, status'[d][p] = "SUCCEEDED"
             PROVE  \E e \in d .. LastDay : p \in valid'[e]
  BY DEF SuccessHasSnapshot
<1>1. ItemMove(d, p)
  BY DEF ItemsMove, Target
<1>2. CASE status[d][p] = "SUCCEEDED"
  <2>1. PICK e \in d .. LastDay : p \in valid[e]
    BY <1>2 DEF SuccessHasSnapshot
  <2>2. e \in Day
    BY DayAssumption DEF Day
  <2> QED BY <2>1, <2>2
<1>3. CASE MoveEnded(d, p)
  <2>1. status[d][p] \in ItemActive /\ p \in valid'[day]
    BY <1>3 DEF MoveEnded
  <2>2. d <= day /\ day \in Day
    BY <2>1 DEF HandedOutOnTime, TypeOK, Target
  <2>3. day \in d .. LastDay
    BY <2>2, DayAssumption DEF Day
  <2> QED BY <2>1, <2>3
<1> QED
  BY <1>1, <1>2, <1>3
  DEF ItemMove, MoveNone, MoveListed, MoveLapse, MoveTakenBack, MoveGivenUp,
      MoveHandedOut, MoveRetried, MoveHeld, MoveReleased, SameStatus

-----------------------------------------------------------------------------
(* Every handler leaves a run and its items fitting.                        *)

LEMMA OneRunFits ==
  ASSUME TypeOK, RunsFit, NEW d \in Day, NEW r, NEW st, Fits(r, st),
         run' = [run EXCEPT ![d] = r], status' = [status EXCEPT ![d] = st]
  PROVE  RunsFit'
<1>1. ASSUME NEW e \in Day
      PROVE  Fits(run'[e], status'[e])
  <2>1. CASE e = d
    BY <2>1 DEF TypeOK
  <2>2. CASE e # d
    <3>1. run'[e] = run[e] /\ status'[e] = status[e]
      BY <2>2 DEF TypeOK
    <3> QED BY <3>1 DEF RunsFit
  <2> QED BY <2>1, <2>2
<1> QED BY <1>1 DEF RunsFit

LEMMA EnsureFits ==
  ASSUME TypeOK, RunsFit, NEW d \in Day, Ensure(d)
  PROVE  RunsFit'
<1> DEFINE st  == [t \in Target |-> IF t \in openStores THEN "PENDING" ELSE "NONE"]
           due == Due(active, valid[d])
<1>1. /\ NewRun \in RunRow
      /\ st \in StatusRow
      /\ due \in SUBSET Product
  BY DueType
  DEF NewRun, NoRun, RunRow, RunStatus, Phase, CountRow, StatusRow, ItemStatus, TypeOK
<1>2. Advanceable(NewRun, st)
  BY KindAssumption
  DEF Advanceable, Loose, NewRun, NoRun, Paused, Having, Target, TypeOK
<1>3. Fits(AdvancedRun(NewRun, st, due), AdvancedItems(NewRun, st, due))
  <2> HIDE DEF st, due
  <2> QED BY <1>1, <1>2, AdvanceFits
<1>4. Advance(d, NewRun, st, due)
  BY DEF Ensure
<1> QED BY <1>3, <1>4, OneRunFits DEF Advance

LEMMA FinishFits ==
  ASSUME TypeOK, RunsFit, NEW d \in Day, NEW t \in Target, NEW due \in SUBSET Product,
         NEW result \in {"SUCCEEDED", "PARTIAL", "FAILED"},
         Reportable(d, t), Finish(d, t, result, due)
  PROVE  RunsFit'
<1> DEFINE r  == run[d]
           st == [status[d] EXCEPT ![t] = result]
<1>1. r \in RunRow /\ st \in StatusRow
  BY DEF TypeOK, StatusRow, ItemStatus, ItemTerminal
<1>2. Fits(r, status[d])
  BY DEF RunsFit
<1>3. t \in Open(status[d]) /\ status[d][t] # "NONE"
  BY DEF Reportable, ItemActive, Open, ItemTerminal
<1>4. r.status # "NONE" /\ r.phase # "COMPLETED"
  BY <1>2, <1>3 DEF Fits
<1>5. \A u \in Target : st[u] = IF u = t THEN result ELSE status[d][u]
  BY DEF TypeOK
<1>6. Advanceable(r, st)
  <2>1. \A u \in Target : st[u] # "SKIPPED"
    BY <1>2, <1>5 DEF Fits, Loose
  <2>2. r.phase = "STORE_DISCOVERY" => \A p \in Product : st[p] = "NONE"
    BY <1>2, <1>3, <1>5 DEF Fits, Loose, Target
  <2>3. Open(st) \subseteq Open(status[d])
    BY <1>5 DEF Open, ItemTerminal
  <2>4. Paused(st) => r.paused
    BY <1>2, <1>5 DEF Fits, Loose, Paused, Having
  <2> QED BY <1>2, <1>4, <2>1, <2>2, <2>3, <2>4 DEF Advanceable, Fits, Loose, StoresDone
<1>7. Fits(AdvancedRun(r, st, due), AdvancedItems(r, st, due))
  <2> HIDE DEF r, st
  <2> QED BY <1>1, <1>6, AdvanceFits
<1> QED BY <1>7, OneRunFits DEF Finish, Advance

LEMMA ClaimFits ==
  ASSUME TypeOK, RunsFit, Claim
  PROVE  RunsFit'
<1> DEFINE old   == status[day]
           st    == SweptItems(day)
           due   == Due(active, valid[day])
           r     == AdvancedRun(run[day], st, due)
           items == AdvancedItems(run[day], st, due)
           free  == Claimable(r, items)
<1>1. /\ day \in Day /\ run[day] \in RunRow /\ st \in StatusRow
      /\ due \in SUBSET Product
      /\ Fits(run[day], old) /\ run[day].status # "NONE"
  BY SweptType, DueType DEF TypeOK, RunsFit, Claim
<1>2. Advanceable(run[day], st)
  <2>1. \A u \in Target : \/ st[u] = old[u]
                          \/ old[u] = "RUNNING" /\ st[u] \in {"FAILED", "PENDING"}
    BY DEF SweptItems, Lost
  <2>2. \A u \in Target : st[u] # "SKIPPED"
    BY <1>1, <2>1 DEF Fits, Loose
  <2>3. run[day].phase = "STORE_DISCOVERY" => \A p \in Product : st[p] = "NONE"
    BY <1>1, <2>1 DEF Fits, Loose, Target
  <2>4. Open(st) \subseteq Open(old)
    BY <2>1 DEF Open, ItemTerminal
  <2>5. Paused(st) => run[day].paused
    BY <1>1, <2>1 DEF Fits, Loose, Paused, Having
  <2> QED BY <1>1, <2>2, <2>3, <2>4, <2>5 DEF Advanceable, Fits, Loose, StoresDone
<1>3. Fits(r, items) /\ r.status # "NONE"
  <2> HIDE DEF st, due
  <2> QED BY <1>1, <1>2, AdvanceFits
<1>4. r \in RunRow /\ items \in StatusRow
  BY <1>1, AdvanceType
<1>5. CASE Advance(day, run[day], st, due)
  BY <1>1, <1>3, <1>5, OneRunFits DEF Advance
<1>6. ASSUME NEW t \in First(free),
             run' = [run EXCEPT ![day] = ClaimedRun(r)],
             status' = [status EXCEPT ![day] = [items EXCEPT ![t] = "RUNNING"]]
      PROVE  RunsFit'
  <2> DEFINE new == [items EXCEPT ![t] = "RUNNING"]
  <2> HIDE DEF r, items, free
  <2>1. /\ t \in Target /\ t \in Kind(r.phase) /\ items[t] = "PENDING"
        /\ r.status # "NEEDS_VERIFICATION" /\ r.phase # "COMPLETED"
    BY DEF free, First, Claimable, Having
  <2>2. \A u \in Target : new[u] = IF u = t THEN "RUNNING" ELSE items[u]
    BY <1>4 DEF StatusRow
  <2>3. new \in StatusRow
    BY <1>4 DEF StatusRow, ItemStatus, ItemActive
  <2> HIDE DEF new
  <2>4. Open(new) = Open(items)
    BY <2>1, <2>2 DEF Open, ItemTerminal
  <2>5. Counts(new) = Counts(items)
    <3>1. \A u \in Target : /\ new[u] = "NONE" <=> items[u] = "NONE"
                            /\ new[u] # items[u] => /\ new[u] \notin ItemTerminal
                                                   /\ items[u] \notin ItemTerminal
      BY <2>1, <2>2 DEF ItemTerminal
    <3> QED BY <1>4, <2>3, <3>1, CountsAgree
  <2>6. Loose(r, new) /\ ~r.paused
    <3>1. \A u \in Target : new[u] # "SKIPPED"
      BY <1>3, <2>2 DEF Fits, Loose
    <3>2. r.phase = "STORE_DISCOVERY" => \A p \in Product : new[p] = "NONE"
      BY <1>3, <2>1, <2>2, KindAssumption DEF Fits, Loose, Kind, Target
    <3>3. Paused(new) => Paused(items)
      BY <2>2 DEF Paused, Having
    <3> QED BY <1>3, <2>1, <2>4, <3>1, <3>2, <3>3 DEF Fits, Loose, StoresDone
  <2>7. /\ ClaimedRun(r).status = "RUNNING"
        /\ ClaimedRun(r).phase = r.phase
        /\ ClaimedRun(r).paused = r.paused
        /\ ClaimedRun(r).counts = r.counts
    BY <1>4 DEF ClaimedRun, RunRow
  <2>8. Fits(ClaimedRun(r), new)
    BY <1>3, <2>1, <2>4, <2>5, <2>6, <2>7 DEF Fits, Loose, Final, StoresDone
  <2> QED BY <1>1, <1>6, <2>8, OneRunFits DEF new
<1> QED BY <1>5, <1>6 DEF Claim

LEMMA FailureRetriedFits ==
  ASSUME TypeOK, RunsFit, NEW d \in Day, NEW t \in Target, FailureRetried(d, t)
  PROVE  RunsFit'
<1> DEFINE old == status[d]
           new == [status[d] EXCEPT ![t] = "PENDING"]
           r   == [run[d] EXCEPT !.counts = Counts(new)]
<1>1. run[d] \in RunRow /\ Fits(run[d], old) /\ old[t] \in ItemActive
  BY DEF TypeOK, RunsFit, FailureRetried, Reportable
<1>2. status' = [status EXCEPT ![d] = new] /\ status'[d] = new
  BY DEF FailureRetried, Requeued, TypeOK
<1>3. run' = [run EXCEPT ![d] = r]
  BY <1>2 DEF FailureRetried, TypeOK
<1>4. \A u \in Target : new[u] = IF u = t THEN "PENDING" ELSE old[u]
  BY DEF TypeOK
<1>5. Open(new) = Open(old)
  BY <1>1, <1>4 DEF Open, ItemTerminal, ItemActive
<1>6. Loose(r, new)
  <2>1. \A u \in Target : new[u] # "SKIPPED"
    BY <1>1, <1>4 DEF Fits, Loose
  <2>2. r.phase = "STORE_DISCOVERY" => \A p \in Product : new[p] = "NONE"
    BY <1>1, <1>4 DEF Fits, Loose, Target, ItemActive, RunRow
  <2>3. Paused(new) => Paused(old)
    BY <1>4 DEF Paused, Having
  <2>4. r.phase = run[d].phase /\ r.paused = run[d].paused
    BY <1>1 DEF RunRow
  <2> QED BY <1>1, <1>5, <2>1, <2>2, <2>3, <2>4 DEF Fits, Loose, StoresDone
<1>7. run[d].status # "NONE" /\ run[d].phase # "COMPLETED"
  BY <1>1 DEF Fits, Open, ItemActive, ItemTerminal
<1>8. /\ r.status = run[d].status /\ r.phase = run[d].phase
      /\ r.paused = run[d].paused /\ r.counts = Counts(new)
  BY <1>1 DEF RunRow
<1>9. Fits(r, new)
  <2> HIDE DEF new, old, r
  <2> QED BY <1>1, <1>5, <1>6, <1>7, <1>8 DEF Fits, StoresDone
<1> QED BY <1>2, <1>3, <1>9, OneRunFits

LEMMA ChallengeFits ==
  ASSUME TypeOK, RunsFit, NEW d \in Day, NEW t \in Target, Challenge(d, t)
  PROVE  RunsFit'
<1> DEFINE old == status[d]
           new == [status[d] EXCEPT ![t] = "NEEDS_VERIFICATION"]
           r   == [run[d] EXCEPT !.status = "NEEDS_VERIFICATION", !.paused = TRUE,
                                 !.counts = Counts(new)]
<1>1. run[d] \in RunRow /\ Fits(run[d], old) /\ old[t] \in ItemActive
  BY DEF TypeOK, RunsFit, Challenge, Reportable
<1>2. status' = [status EXCEPT ![d] = new] /\ status'[d] = new
  BY DEF Challenge, TypeOK
<1>3. run' = [run EXCEPT ![d] = r]
  BY <1>2 DEF Challenge, TypeOK
<1>4. \A u \in Target : new[u] = IF u = t THEN "NEEDS_VERIFICATION" ELSE old[u]
  BY DEF TypeOK
<1>5. Open(new) = Open(old)
  BY <1>1, <1>4 DEF Open, ItemTerminal, ItemActive
<1>6. /\ r.status = "NEEDS_VERIFICATION" /\ r.phase = run[d].phase
      /\ r.paused = TRUE /\ r.counts = Counts(new)
  BY <1>1 DEF RunRow
<1>7. Loose(r, new)
  <2>1. \A u \in Target : new[u] # "SKIPPED"
    BY <1>1, <1>4 DEF Fits, Loose
  <2>2. run[d].phase = "STORE_DISCOVERY" => \A p \in Product : new[p] = "NONE"
    BY <1>1, <1>4 DEF Fits, Loose, Target, ItemActive
  <2> QED BY <1>1, <1>5, <1>6, <2>1, <2>2 DEF Fits, Loose, StoresDone
<1>8. run[d].status # "NONE" /\ run[d].phase # "COMPLETED"
  BY <1>1 DEF Fits, Open, ItemActive, ItemTerminal
<1>9. Fits(r, new)
  <2> HIDE DEF new, old, r
  <2> QED BY <1>1, <1>5, <1>6, <1>7, <1>8 DEF Fits, StoresDone, Final
<1> QED BY <1>2, <1>3, <1>9, OneRunFits

LEMMA ResumeFits ==
  ASSUME TypeOK, RunsFit, NEW d \in Day, Resume(d)
  PROVE  RunsFit'
<1> DEFINE old == status[d]
           new == Released(status[d])
           r   == ResumedRun(run[d])
<1>1. run[d] \in RunRow /\ old \in StatusRow /\ new \in StatusRow /\ Fits(run[d], old)
      /\ run[d].status = "NEEDS_VERIFICATION"
  BY DEF TypeOK, RunsFit, Resume, Released, StatusRow, ItemStatus
<1>2. \A u \in Target : new[u] = IF old[u] = "NEEDS_VERIFICATION" THEN "PENDING" ELSE old[u]
  BY DEF Released
<1>3. Open(new) = Open(old)
  BY <1>2 DEF Open, ItemTerminal
<1>4. Counts(new) = Counts(old)
  <2> HIDE DEF new, old
  <2>1. \A u \in Target : /\ new[u] = "NONE" <=> old[u] = "NONE"
                          /\ new[u] # old[u] => /\ new[u] \notin ItemTerminal
                                               /\ old[u] \notin ItemTerminal
    BY <1>2 DEF ItemTerminal
  <2> QED BY <1>1, <2>1, CountsAgree
<1>5. /\ r.status = "RUNNING" /\ r.phase = run[d].phase
      /\ r.paused = FALSE /\ r.counts = run[d].counts
  BY <1>1 DEF ResumedRun, RunRow
<1>6. Loose(r, new)
  <2>1. \A u \in Target : new[u] # "SKIPPED" /\ new[u] # "NEEDS_VERIFICATION"
    BY <1>1, <1>2 DEF Fits, Loose
  <2>2. run[d].phase = "STORE_DISCOVERY" => \A p \in Product : new[p] = "NONE"
    BY <1>1, <1>2 DEF Fits, Loose, Target
  <2> QED BY <1>1, <1>3, <1>5, <2>1, <2>2 DEF Fits, Loose, StoresDone, Paused, Having
<1>7. run[d].phase # "COMPLETED"
  BY <1>1 DEF Fits, Final
<1>8. Fits(r, new)
  <2> HIDE DEF new, old, r
  <2> QED BY <1>1, <1>3, <1>4, <1>5, <1>6, <1>7 DEF Fits, StoresDone, Final
<1> QED BY <1>8, OneRunFits DEF Resume

LEMMA RunsFitStep ==
  ASSUME TypeOK, RunsFit, [Next]_vars
  PROVE  RunsFit'
<1>1. ASSUME NEW d \in Day, NEW p \in Product, ProductAnswer(d, p)
      PROVE  RunsFit'
  <2>1. PICK sold \in BOOLEAN : Finish(d, p, ProductResult(sold), Due(active, valid'[d]))
    BY <1>1 DEF ProductAnswer
  <2>2. /\ Reportable(d, p) /\ p \in Target
        /\ ProductResult(sold) \in {"SUCCEEDED", "PARTIAL", "FAILED"}
        /\ Due(active, valid'[d]) \in SUBSET Product
    BY <1>1, DueType DEF ProductAnswer, ProductResult, Target, TypeOK
  <2> QED BY <2>1, <2>2, FinishFits
<1>2. ASSUME NEW d \in Day, NEW s \in Store, StoreAnswer(d, s)
      PROVE  RunsFit'
  <2>1. PICK seen \in SUBSET Product, links \in BOOLEAN :
          /\ active' = PoolAfter(s, seen, links)
          /\ Finish(d, s, IF links THEN "SUCCEEDED" ELSE "FAILED", Due(active', valid'[d]))
    BY <1>2 DEF StoreAnswer
  <2>2. active' \in SUBSET Product
    BY <2>1 DEF PoolAfter, TypeOK
  <2>3. /\ Reportable(d, s) /\ s \in Target
        /\ (IF links THEN "SUCCEEDED" ELSE "FAILED") \in {"SUCCEEDED", "PARTIAL", "FAILED"}
        /\ Due(active', valid'[d]) \in SUBSET Product
    BY <1>2, <2>2, DueType DEF StoreAnswer, Target
  <2> QED BY <2>1, <2>3, FinishFits
<1>3. ASSUME NEW d \in Day, NEW t \in Target, FailureFinal(d, t)
      PROVE  RunsFit'
  BY <1>3, FinishFits, DueType DEF FailureFinal, TypeOK
<1>4. CASE UNCHANGED <<run, status>>
  BY <1>4 DEF RunsFit
<1>5. CASE Environment
  BY <1>4, <1>5
  DEF Environment, LeaseExpires, NewDay, SnapshotElsewhere, AddProduct, SwitchProduct, SwitchStore
<1>6. CASE UNCHANGED vars
  BY <1>4, <1>6 DEF vars
<1> QED
  BY <1>1, <1>2, <1>3, <1>5, <1>6, EnsureFits, ClaimFits, FailureRetriedFits,
     ChallengeFits, ResumeFits
  DEF Next, Report

-----------------------------------------------------------------------------
(* The theorems.                                                            *)

LEMMA InitIInv == Init => IInv
<1> SUFFICES ASSUME Init
             PROVE  IInv
  OBVIOUS
<1>1. TypeOK
  BY DayAssumption, BoundAssumption
  DEF Init, TypeOK, NoRun, RunRow, Phase, CountRow, Day
<1>2. RunsFit
  BY DEF Init, RunsFit, Fits, Loose, NoRun, Paused, Having, Target
<1>3. LeaseGuardsRunning /\ AttemptsFit /\ HandedOutOnTime
  BY BoundAssumption
  DEF Init, LeaseGuardsRunning, AttemptsFit, AttemptsOf, HandedOutOnTime, ItemActive
<1>4. SuccessHasSnapshot
  BY DEF Init, SuccessHasSnapshot, Target
<1> QED BY <1>1, <1>2, <1>3, <1>4 DEF IInv

LEMMA StepIInv == IInv /\ [Next]_vars => IInv'
<1> SUFFICES ASSUME IInv, [Next]_vars
             PROVE  IInv'
  OBVIOUS
<1>1. TypeOK' /\ RunsFit'
  BY TypeStep, RunsFitStep DEF IInv
<1>2. ItemsMove
  BY EveryStepMoves DEF IInv
<1>3. LeaseGuardsRunning' /\ AttemptsFit'
  BY <1>2, LeaseStep, AttemptsStep DEF IInv
<1>4. HandedOutOnTime' /\ SuccessHasSnapshot'
  BY <1>2, OnTimeStep, DayStep, SnapshotStep, ValidStep DEF IInv
<1> QED BY <1>1, <1>3, <1>4 DEF IInv

\* The inductive invariant holds in every reachable state.
THEOREM Invariance == Spec => []IInv
  BY InitIInv, StepIInv, PTL DEF Spec

\* A run is reported complete exactly when it has no pending, running or
\* paused item, whichever handler moved last.
THEOREM RunOpenIffWorkLeftHolds == Spec => []RunOpenIffWorkLeft
<1>1. IInv => RunOpenIffWorkLeft
  <2> SUFFICES ASSUME IInv, NEW d \in Day, run[d].status # "NONE"
               PROVE  run[d].phase = "COMPLETED" <=>
                        \A t \in Target :
                          status[d][t] \notin {"PENDING", "RUNNING", "NEEDS_VERIFICATION"}
    BY DEF RunOpenIffWorkLeft
  <2>1. run[d].phase = "COMPLETED" <=> Open(status[d]) = {}
    BY DEF IInv, RunsFit, Fits
  <2>2. ASSUME NEW t \in Target
        PROVE  t \in Open(status[d]) <=>
                 status[d][t] \in {"PENDING", "RUNNING", "NEEDS_VERIFICATION"}
    <3>1. status[d][t] \in ItemStatus \cup {"NONE"}
      BY DEF IInv, TypeOK
    <3> QED BY <3>1 DEF Open, ItemStatus, ItemActive, ItemTerminal
  <2>3. Open(status[d]) \subseteq Target
    BY DEF Open
  <2> QED BY <2>1, <2>2, <2>3
<1> QED BY <1>1, Invariance, PTL

\* The counters shown on the dashboard are those of the items.
THEOREM CountsMatchItemsHolds == Spec => []CountsMatchItems
<1>1. IInv => CountsMatchItems
  BY DEF IInv, RunsFit, Fits, CountsMatchItems
<1> QED BY <1>1, Invariance, PTL

\* A paused item always shows as a paused run, with its reason.
THEOREM PauseIsVisibleHolds == Spec => []PauseIsVisible
<1>1. IInv => PauseIsVisible
  BY DEF IInv, RunsFit, Fits, Loose, Paused, PauseIsVisible
<1> QED BY <1>1, Invariance, PTL

\* No product is queued while a store of that day is unfinished.
THEOREM StoresBeforeProductsHolds == Spec => []StoresBeforeProducts
<1>1. IInv => StoresBeforeProducts
  <2> SUFFICES ASSUME IInv, NEW d \in Day, NEW p \in Product, status[d][p] # "NONE",
                      NEW s \in Store
               PROVE  status[d][s] \in ItemTerminal \cup {"NONE"}
    BY DEF StoresBeforeProducts
  <2>1. Fits(run[d], status[d])
    BY DEF IInv, RunsFit
  <2>2. StoresDone(status[d])
    BY <2>1 DEF Fits, Loose
  <2> QED BY <2>2 DEF StoresDone, Open, Target
<1> QED BY <1>1, Invariance, PTL

\* An item in a worker's hands has a lease, and no other item has one ahead.
THEOREM LeaseGuardsRunningHolds == Spec => []LeaseGuardsRunning
<1>1. IInv => LeaseGuardsRunning
  BY DEF IInv
<1> QED BY <1>1, Invariance, PTL

\* No item is handed out more than twice and once more per verification page.
THEOREM AttemptsBoundedHolds == Spec => []AttemptsBounded
<1>1. IInv => AttemptsBounded
  BY DEF IInv, AttemptsFit, AttemptsOf, AttemptsBounded
<1> QED BY <1>1, Invariance, PTL

\* A product reported as collected has its snapshot, of that day or later.
THEOREM SuccessHasSnapshotHolds == Spec => []SuccessHasSnapshot
<1>1. IInv => SuccessHasSnapshot
  BY DEF IInv
<1> QED BY <1>1, Invariance, PTL

LEMMA EmptyCount ==
  ASSUME NEW st, NEW s
  PROVE  /\ Cardinality(Having(st, s)) \in Nat
         /\ Cardinality(Having(st, s)) = 0 <=> Having(st, s) = {}
<1>1. IsFiniteSet(Having(st, s))
  BY TargetFinite, FS_Subset DEF Having
<1> QED BY <1>1, FS_EmptySet, FS_CardinalityType

\* The final status of a run can be believed: nothing else than success makes
\* it COMPLETED, nothing else than failure makes it FAILED.
THEOREM VerdictIsHonestHolds == Spec => []VerdictIsHonest
<1>1. IInv => VerdictIsHonest
  <2> SUFFICES ASSUME IInv, NEW d \in Day, run[d].status \in {"COMPLETED", "FAILED"}
               PROVE  /\ run[d].status = "COMPLETED" =>
                           \A t \in Target : status[d][t] \in {"NONE", "SUCCEEDED"}
                      /\ run[d].status = "FAILED" =>
                           /\ \E t \in Target : status[d][t] = "FAILED"
                           /\ \A t \in Target : status[d][t] \in {"NONE", "FAILED"}
    BY DEF VerdictIsHonest
  <2> DEFINE st == status[d]
  <2>1. Fits(run[d], st)
    BY DEF IInv, RunsFit
  <2>2. Open(st) = {} /\ run[d].status = Verdict(Counts(st))
    BY <2>1 DEF Fits, Final
  <2>3. \A t \in Target : st[t] \in {"NONE", "SUCCEEDED", "PARTIAL", "FAILED"}
    <3>1. \A t \in Target : st[t] # "SKIPPED"
      BY <2>1 DEF Fits, Loose
    <3> QED BY <2>2, <3>1 DEF Open, ItemTerminal
  <2> HIDE DEF st
  <2>4. CASE run[d].status = "COMPLETED"
    <3>1. Counts(st).failed = 0 /\ Counts(st).partial = 0
      <4>1. Counts(st).failed \in Nat /\ Counts(st).partial \in Nat
        BY CountsType DEF CountRow
      <4> HIDE DEF Counts
      <4> QED BY <2>2, <2>4, <4>1 DEF Verdict
    <3>2. Having(st, "FAILED") = {} /\ Having(st, "PARTIAL") = {}
      BY <3>1, EmptyCount DEF Counts
    <3> QED BY <2>3, <2>4, <3>2 DEF Having, st
  <2>5. CASE run[d].status = "FAILED"
    <3>1. Counts(st).failed > 0 /\ Counts(st).succeeded = 0 /\ Counts(st).partial = 0
      BY <2>2, <2>5 DEF Verdict
    <3>2. /\ Having(st, "FAILED") # {}
          /\ Having(st, "SUCCEEDED") = {}
          /\ Having(st, "PARTIAL") = {}
      BY <3>1, EmptyCount DEF Counts
    <3> QED BY <2>3, <2>5, <3>2 DEF Having, st
  <2> QED BY <2>4, <2>5
<1> QED BY <1>1, Invariance, PTL

-----------------------------------------------------------------------------
(* What a step may never do.                                                *)

\* An item that is over is never queued, claimed or answered again.
THEOREM TerminalItemsStayHolds == Spec => TerminalItemsStay
<1>1. IInv /\ [Next]_vars =>
        \A d \in Day, t \in Target :
          status[d][t] \in ItemTerminal => status'[d][t] = status[d][t]
  <2> SUFFICES ASSUME IInv, [Next]_vars, NEW d \in Day, NEW t \in Target,
                      status[d][t] \in ItemTerminal
               PROVE  status'[d][t] = status[d][t]
    OBVIOUS
  <2>1. ItemMove(d, t)
    BY EveryStepMoves DEF IInv, ItemsMove
  <2> QED
    BY <2>1
    DEF ItemMove, MoveNone, MoveListed, MoveLapse, MoveTakenBack, MoveGivenUp,
        MoveHandedOut, MoveEnded, MoveRetried, MoveHeld, MoveReleased,
        SameStatus, ItemTerminal, ItemActive
<1> QED BY <1>1, Invariance, PTL DEF Spec, TerminalItemsStay

\* An item whose lease is ahead is not handed to a second worker.
THEOREM LiveLeaseIsExclusiveHolds == Spec => LiveLeaseIsExclusive
<1>1. IInv /\ [Next]_vars =>
        \A d \in Day, t \in Target :
          lease[d][t] = "live" => attempts'[d][t] = attempts[d][t]
  <2> SUFFICES ASSUME IInv, [Next]_vars, NEW d \in Day, NEW t \in Target,
                      lease[d][t] = "live"
               PROVE  attempts'[d][t] = attempts[d][t]
    OBVIOUS
  <2>1. ItemMove(d, t)
    BY EveryStepMoves DEF IInv, ItemsMove
  <2>2. status[d][t] = "RUNNING"
    BY DEF IInv, LeaseGuardsRunning
  <2>3. ~MoveHandedOut(d, t)
    BY <2>2 DEF MoveHandedOut
  <2> QED
    BY <2>1, <2>3
    DEF ItemMove, MoveNone, MoveListed, MoveLapse, MoveTakenBack, MoveGivenUp,
        MoveEnded, MoveRetried, MoveHeld, MoveReleased, SameAttempts
<1> QED BY <1>1, Invariance, PTL DEF Spec, LiveLeaseIsExclusive

\* No item of a run is handed out while one of them waits for a person.
THEOREM QuietWhilePausedHolds == Spec => QuietWhilePaused
<1>1. IInv /\ [Next]_vars =>
        \A d \in Day : Paused(status[d]) => attempts'[d] = attempts[d]
  <2> SUFFICES ASSUME IInv, [Next]_vars, NEW d \in Day, Paused(status[d])
               PROVE  attempts'[d] = attempts[d]
    OBVIOUS
  <2>1. CASE Claim
    <3> DEFINE st    == SweptItems(day)
               due   == Due(active, valid[day])
               items == AdvancedItems(run[day], st, due)
    <3>1. CASE d # day
      BY <2>1, <3>1 DEF Claim, IInv, TypeOK
    <3>2. CASE d = day
      <4>1. Paused(st)
        BY <3>2 DEF SweptItems, Lost, Paused, Having
      <4>2. run[day] \in RunRow
        BY DEF IInv, TypeOK
      <4>3. AdvancedRun(run[day], st, due).status = "NEEDS_VERIFICATION"
        <5> HIDE DEF st, due
        <5> QED BY <4>1, <4>2 DEF AdvancedRun, RunRow
      <4>4. Claimable(AdvancedRun(run[day], st, due), items) = {}
        BY <4>3 DEF Claimable
      <4> QED BY <2>1, <4>4 DEF Claim, First
    <3> QED BY <3>1, <3>2
  <2>2. CASE UNCHANGED attempts
    BY <2>2
  <2> QED
    BY <2>1, <2>2
    DEF Next, Report, Environment, Ensure, ProductAnswer, StoreAnswer, FailureRetried,
        FailureFinal, Challenge, Resume, LeaseExpires, NewDay, SnapshotElsewhere,
        AddProduct, SwitchProduct, SwitchStore, vars
<1> QED BY <1>1, Invariance, PTL DEF Spec, QuietWhilePaused

LEMMA CompleteRunStep ==
  ASSUME IInv, [Next]_vars, NEW d \in Day, run[d].phase = "COMPLETED"
  PROVE  run'[d] = run[d] /\ status'[d] = status[d]
<1>1. /\ TypeOK /\ run[d] \in RunRow /\ status[d] \in StatusRow
      /\ Fits(run[d], status[d])
  BY DEF IInv, TypeOK, RunsFit, StatusRow
<1>2. /\ run[d].status \in Final /\ Open(status[d]) = {}
      /\ run[d].paused = FALSE /\ run[d].counts = Counts(status[d])
      /\ run[d].status = Verdict(Counts(status[d]))
  BY <1>1 DEF Fits, Final, RunRow
<1>3. \A t \in Target : ~Reportable(d, t)
  BY <1>2 DEF Open, Reportable, ItemActive, ItemTerminal
<1>4. CASE Claim
  <2> DEFINE st    == SweptItems(day)
             due   == Due(active, valid[day])
             r     == AdvancedRun(run[day], st, due)
             items == AdvancedItems(run[day], st, due)
  <2>1. CASE d # day
    BY <1>1, <1>4, <2>1 DEF Claim, Advance, TypeOK
  <2>2. CASE d = day
    <3>1. st = status[d]
      <4>1. \A t \in Target : ~Lost(d, t)
        BY <1>3 DEF Lost, Reportable, ItemActive
      <4> QED BY <1>1, <2>2, <4>1 DEF SweptItems, StatusRow
    <3> HIDE DEF st
    <3>2. ~Paused(st)
      BY <1>2, <3>1 DEF Paused, Having, Open, ItemTerminal
    <3>3. items = st
      BY <2>2 DEF AdvancedItems
    <3>4. r = [run[d] EXCEPT !.paused = FALSE, !.phase = "COMPLETED",
                             !.counts = Counts(st), !.status = Verdict(Counts(st))]
      BY <1>2, <2>2, <3>1, <3>2, <3>3 DEF AdvancedRun, AdvancedPhase
    <3>5. r = run[d]
      <4> HIDE DEF r
      <4>1. /\ r.paused = run[d].paused /\ r.phase = run[d].phase
            /\ r.counts = run[d].counts /\ r.status = run[d].status
            /\ r.started = run[d].started
        BY <1>1, <1>2, <3>1, <3>4 DEF RunRow
      <4>2. r \in RunRow
        BY <1>1, <1>2, <3>1, <3>4 DEF RunRow, Phase
      <4> QED BY <1>1, <4>1, <4>2 DEF RunRow
    <3>6. Claimable(r, items) = {}
      BY <3>5 DEF Claimable
    <3>7. Advance(day, run[day], st, due)
      BY <1>4, <3>6 DEF Claim, First, st
    <3> QED BY <1>1, <2>2, <3>1, <3>3, <3>5, <3>7 DEF Advance, TypeOK
  <2> QED BY <2>1, <2>2
<1>5. ASSUME NEW e \in Day, NEW rr, NEW ss, e # d,
             run' = [run EXCEPT ![e] = rr], status' = [status EXCEPT ![e] = ss]
      PROVE  run'[d] = run[d] /\ status'[d] = status[d]
  BY <1>1, <1>5 DEF TypeOK
<1>6. ASSUME NEW e \in Day, Ensure(e)
      PROVE  run'[d] = run[d] /\ status'[d] = status[d]
  BY <1>2, <1>5, <1>6 DEF Ensure, Advance, Final
<1>7. ASSUME NEW e \in Day, Report(e)
      PROVE  run'[d] = run[d] /\ status'[d] = status[d]
  <2>1. e # d
    BY <1>3, <1>7
    DEF Report, ProductAnswer, StoreAnswer, FailureRetried, FailureFinal, Challenge, Target
  <2>2. CASE \E t \in Target : \E due, result : Finish(e, t, result, due)
    BY <1>5, <2>1, <2>2 DEF Finish, Advance
  <2>3. ASSUME NEW t \in Target, FailureRetried(e, t) \/ Challenge(e, t)
        PROVE  run'[d] = run[d] /\ status'[d] = status[d]
    BY <1>1, <2>1, <2>3 DEF FailureRetried, Challenge, TypeOK
  <2>4. ASSUME NEW p \in Product, ProductAnswer(e, p)
        PROVE  \E t \in Target : \E due, result : Finish(e, t, result, due)
    BY <2>4 DEF ProductAnswer, Target
  <2>5. ASSUME NEW s \in Store, StoreAnswer(e, s)
        PROVE  \E t \in Target : \E due, result : Finish(e, t, result, due)
    BY <2>5 DEF StoreAnswer, Target
  <2>6. ASSUME NEW t \in Target, FailureFinal(e, t)
        PROVE  \E u \in Target : \E due, result : Finish(e, u, result, due)
    BY <2>6 DEF FailureFinal
  <2> QED BY <1>7, <2>2, <2>3, <2>4, <2>5, <2>6 DEF Report
<1>8. ASSUME NEW e \in Day, Resume(e)
      PROVE  run'[d] = run[d] /\ status'[d] = status[d]
  BY <1>2, <1>5, <1>8 DEF Resume, Final
<1>9. CASE UNCHANGED <<run, status>>
  BY <1>9
<1> QED
  BY <1>4, <1>6, <1>7, <1>8, <1>9
  DEF Next, Environment, LeaseExpires, NewDay, SnapshotElsewhere, AddProduct,
      SwitchProduct, SwitchStore, vars

\* A run that is complete stays as it was reported.
THEOREM CompleteRunStaysHolds == Spec => CompleteRunStays
<1>1. IInv /\ [Next]_vars =>
        \A d \in Day :
          run[d].phase = "COMPLETED" => run'[d] = run[d] /\ status'[d] = status[d]
  BY CompleteRunStep
<1> QED BY <1>1, Invariance, PTL DEF Spec, CompleteRunStays
-----------------------------------------------------------------------------
(* What a run may still cost.                                               *)

LEMMA EffortNat ==
  ASSUME NEW s \in ItemStatus \cup {"NONE"}, NEW l, NEW n \in Nat,
         NEW c \in 0 .. MaxChallenges, n <= 2 + c
  PROVE  /\ StepsLeft(s, l) \in 0 .. 4
         /\ EffortOf(s, l, n, c) \in Nat
<1>1. StepsLeft(s, l) \in 0 .. 4
  BY DEF StepsLeft, ItemStatus, ItemActive, ItemTerminal
<1>2. 4 * (2 + MaxChallenges - n) \in Nat /\ MaxChallenges - c \in Nat
  BY BoundAssumption
<1> QED BY <1>1, <1>2 DEF EffortOf

\* A move takes something from what the item may still cost.
LEMMA MoveCosts ==
  ASSUME IInv, IInv', NEW d \in Day, NEW t \in Target, ItemMove(d, t), ~MoveNone(d, t)
  PROVE  EffortOf(status[d][t], lease[d][t], attempts[d][t], challenges[d][t])'
           < EffortOf(status[d][t], lease[d][t], attempts[d][t], challenges[d][t])
<1> DEFINE s == status[d][t]
           l == lease[d][t]
           n == attempts[d][t]
           c == challenges[d][t]
<1>1. /\ s \in ItemStatus \cup {"NONE"} /\ s' \in ItemStatus \cup {"NONE"}
      /\ n \in Nat /\ n' \in Nat
      /\ c \in 0 .. MaxChallenges /\ c' \in 0 .. MaxChallenges
      /\ MaxChallenges \in Nat
  BY BoundAssumption DEF IInv, TypeOK
<1>2. l = "live" => s = "RUNNING"
  BY DEF IInv, LeaseGuardsRunning
<1>3. ASSUME n' = n, c' = c, StepsLeft(s', l') < StepsLeft(s, l),
             StepsLeft(s', l') \in Int, StepsLeft(s, l) \in Int
      PROVE  EffortOf(s', l', n', c') < EffortOf(s, l, n, c)
  BY <1>1, <1>3 DEF EffortOf
<1>4. CASE MoveListed(d, t)
  <2>1. s = "NONE" /\ s' = "PENDING" /\ n' = n /\ c' = c
    BY <1>4 DEF MoveListed, SameAttempts, SamePauses
  <2>2. StepsLeft(s, l) = 2 /\ StepsLeft(s', l') = 1
    BY <2>1 DEF StepsLeft, ItemTerminal
  <2> QED BY <1>3, <2>1, <2>2
<1>5. CASE MoveLapse(d, t)
  <2>1. s = "RUNNING" /\ s' = s /\ l = "live" /\ l' = "expired" /\ n' = n /\ c' = c
    BY <1>2, <1>5 DEF MoveLapse, SameStatus, SameAttempts, SamePauses
  <2>2. StepsLeft(s, l) = 4 /\ StepsLeft(s', l') = 3
    BY <2>1 DEF StepsLeft, ItemTerminal
  <2> QED BY <1>3, <2>1, <2>2
<1>6. CASE MoveTakenBack(d, t) \/ MoveRetried(d, t) \/ MoveReleased(d, t)
  <2>1. s \in ItemActive /\ s' = "PENDING" /\ n' = n /\ c' = c
    BY <1>6
    DEF MoveTakenBack, MoveRetried, MoveReleased, SameAttempts, SamePauses, ItemActive
  <2>2. StepsLeft(s, l) \in 2 .. 4 /\ StepsLeft(s', l') = 1
    BY <2>1 DEF StepsLeft, ItemTerminal, ItemActive
  <2> QED BY <1>3, <2>1, <2>2
<1>7. CASE MoveGivenUp(d, t) \/ MoveEnded(d, t)
  <2>1. s \in ItemActive /\ s' \in ItemTerminal /\ n' = n /\ c' = c
    BY <1>7
    DEF MoveGivenUp, MoveEnded, SameAttempts, SamePauses, ItemActive, ItemTerminal
  <2>2. StepsLeft(s, l) \in 2 .. 4 /\ StepsLeft(s', l') = 0
    BY <2>1 DEF StepsLeft, ItemTerminal, ItemActive
  <2> QED BY <1>3, <2>1, <2>2
<1>8. CASE MoveHandedOut(d, t)
  <2>1. /\ s \in {"NONE", "PENDING", "RUNNING"} /\ s' = "RUNNING" /\ l' = "live"
        /\ s = "RUNNING" => l = "expired"
        /\ n' = n + 1 /\ c' = c
    BY <1>8 DEF MoveHandedOut, SamePauses
  <2>2. StepsLeft(s, l) \in 1 .. 3 /\ StepsLeft(s', l') = 4
    BY <2>1 DEF StepsLeft, ItemTerminal
  <2> QED BY <1>1, <2>1, <2>2 DEF EffortOf
<1>9. CASE MoveHeld(d, t)
  <2>1. s \in ItemActive /\ s' = "NEEDS_VERIFICATION" /\ n' = n /\ c' = c + 1
    BY <1>9 DEF MoveHeld, SameAttempts
  <2>2. StepsLeft(s, l) \in 2 .. 4 /\ StepsLeft(s', l') = 2
    BY <2>1 DEF StepsLeft, ItemTerminal, ItemActive
  <2> QED BY <1>1, <2>1, <2>2 DEF EffortOf
<1> QED
  BY <1>4, <1>5, <1>6, <1>7, <1>8, <1>9 DEF ItemMove

\* Every step that does anything to the items of a run lowers what they may
\* still cost: the number of claims, failures, pauses, resumes and lapsed
\* leases of a run is bounded, whatever the workers do.
THEOREM EffortRunsDownHolds == Spec => EffortRunsDown
<1>1. IInv /\ IInv' /\ [Next]_vars =>
        \A d \in Day :
          \/ UNCHANGED <<status[d], attempts[d], lease[d], challenges[d]>>
          \/ Effort(d)' < Effort(d)
  <2> SUFFICES ASSUME IInv, IInv', [Next]_vars, NEW d \in Day,
                      ~UNCHANGED <<status[d], attempts[d], lease[d], challenges[d]>>
               PROVE  Effort(d)' < Effort(d)
    OBVIOUS
  <2> DEFINE f == [t \in Target |->
                     EffortOf(status[d][t], lease[d][t], attempts[d][t], challenges[d][t])]
             g == [t \in Target |->
                     EffortOf(status'[d][t], lease'[d][t], attempts'[d][t], challenges'[d][t])]
  <2>1. \A t \in Target : ItemMove(d, t)
    BY EveryStepMoves DEF IInv, ItemsMove
  <2>2. PICK e \in Target : ~MoveNone(d, e)
    BY DEF IInv, TypeOK, MoveNone, SameStatus, SameAttempts, SameLease, SamePauses
  <2>3. \A t \in Target : f[t] \in Nat /\ g[t] \in Nat
    <3> SUFFICES ASSUME NEW t \in Target
                 PROVE  f[t] \in Nat /\ g[t] \in Nat
      OBVIOUS
    <3>1. /\ status[d][t] \in ItemStatus \cup {"NONE"}
          /\ attempts[d][t] \in Nat
          /\ challenges[d][t] \in 0 .. MaxChallenges
          /\ attempts[d][t] <= 2 + challenges[d][t]
      BY DEF IInv, TypeOK, AttemptsFit, AttemptsOf
    <3>2. /\ status'[d][t] \in ItemStatus \cup {"NONE"}
          /\ attempts'[d][t] \in Nat
          /\ challenges'[d][t] \in 0 .. MaxChallenges
          /\ attempts'[d][t] <= 2 + challenges'[d][t]
      BY DEF IInv, TypeOK, AttemptsFit, AttemptsOf
    <3> QED BY <3>1, <3>2, EffortNat
  <2>4. \A t \in Target : g[t] <= f[t]
    <3> SUFFICES ASSUME NEW t \in Target
                 PROVE  g[t] <= f[t]
      OBVIOUS
    <3>1. CASE MoveNone(d, t)
      BY <2>3, <3>1 DEF MoveNone, SameStatus, SameAttempts, SameLease, SamePauses
    <3>2. CASE ~MoveNone(d, t)
      BY <2>1, <2>3, <3>2, MoveCosts
    <3> QED BY <3>1, <3>2
  <2>5. g[e] < f[e]
    BY <2>1, <2>2, MoveCosts
  <2>6. Effort(d) = SumFunctionOnSet(f, Target) /\ Effort(d)' = SumFunctionOnSet(g, Target)
    BY DEF Effort
  <2> HIDE DEF f, g
  <2> QED BY <2>3, <2>4, <2>5, <2>6, TargetFinite, SumLess
<1> QED BY <1>1, Invariance, PTL DEF Spec, EffortRunsDown
=============================================================================
