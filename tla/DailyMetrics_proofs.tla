------------------------ MODULE DailyMetrics_proofs ------------------------
(***************************************************************************)
(* Proofs about DailyMetrics, for any products, days and histories: rows   *)
(* follow the representative snapshots, imported rows stay, and reports of *)
(* product pages reach the store's row, the estimates of a stretch of days *)
(* share out its growth, and late or repeated reports change nothing.      *)
(***************************************************************************)
EXTENDS DailyMetrics, SumLemmas

RowRecord  == [reason : Reason, sales : Sold]
KnownPoint == [at : Instant \cup {0}, value : Sold]

\* The days a calculation reads and writes are natural numbers.
LEMMA DayNat == Day \subseteq Nat /\ \A t \in Instant : DayOf[t] \in Day
BY ClockAssumption DEF Day

-----------------------------------------------------------------------------
(* What the operators return                                                *)

\* Storing a snapshot keeps every day that had one.
LEMMA WithProperties ==
  ASSUME NEW f \in [Day -> Shot], NEW shot \in Shot,
         shot.at \in Instant, shot.kind # "none"
  PROVE  /\ With(f, shot) \in [Day -> Shot]
         /\ Taken(f) \subseteq Taken(With(f, shot))
         /\ \A d \in Day : \/ With(f, shot)[d] = f[d]
                           \/ With(f, shot)[d] = shot /\ d = DayOf[shot.at]
         /\ f[DayOf[shot.at]].at <= shot.at => With(f, shot)[DayOf[shot.at]] = shot
<1>1. DayOf[shot.at] \in Day
  BY DayNat
<1>2. With(f, shot) = [f EXCEPT ![DayOf[shot.at]] = IF shot.at >= f[DayOf[shot.at]].at
                                                    THEN shot ELSE f[DayOf[shot.at]]]
  BY DEF With
<1>3. f[DayOf[shot.at]].at \in Nat /\ shot.at \in Nat
  BY <1>1, ClockAssumption DEF Shot, Instant
<1>4. \A d \in Day : With(f, shot)[d] = IF d = DayOf[shot.at] /\ shot.at >= f[d].at
                                         THEN shot ELSE f[d]
  BY <1>1, <1>2
<1>5. With(f, shot) \in [Day -> Shot]
  BY <1>1, <1>2
<1>6. Taken(f) \subseteq Taken(With(f, shot))
  BY <1>4 DEF Taken
<1>7. f[DayOf[shot.at]].at <= shot.at => With(f, shot)[DayOf[shot.at]] = shot
  BY <1>1, <1>3, <1>4
<1>8. \A d \in Day : \/ With(f, shot)[d] = f[d]
                     \/ With(f, shot)[d] = shot /\ d = DayOf[shot.at]
  BY <1>4
<1> QED BY <1>5, <1>6, <1>7, <1>8

\* A comparison gives a public row, an estimate exactly for two numbers that do
\* not go down.
LEMMA ComparedProperties ==
  ASSUME NEW start \in Shot, NEW end \in Shot, start.kind # "none", end.kind # "none"
  PROVE  /\ Compared(start, end) \in RowRecord
         /\ Compared(start, end).reason # "imported"
         /\ Compared(start, end).reason = "estimated" <=>
              start.kind = "sold" /\ end.kind = "sold" /\ start.sold <= end.sold
         /\ Compared(start, end).reason = "estimated" =>
              Compared(start, end).sales = end.sold - start.sold
BY BoundAssumption DEF Compared, Row, RowRecord, Reason, Shot, Sold

\* Public rows of consecutive days agree with the snapshots f; an estimate never
\* stands where the snapshots of two consecutive days are not there.
Fitting(f, r) ==
  \A d \in Day :
    {d, d + 1} \subseteq Taken(f) /\ r[d].reason # "imported"
      => r[d] = Compared(f[d], f[d + 1])

Backed(f, r) ==
  \A d \in Day : r[d].reason = "estimated" => {d, d + 1} \subseteq Taken(f)

\* What the calculation does to a product's rows.
LEMMA MeasuredProperties ==
  ASSUME NEW f \in [Day -> Shot], NEW r \in [Day -> RowRecord], Backed(f, r)
  PROVE  /\ Measured(f, r) \in [Day -> RowRecord]
         /\ Backed(f, Measured(f, r))
         /\ Fitting(f, Measured(f, r))
         /\ \A d \in Day : (r[d].reason = "imported") <=> (Measured(f, r)[d].reason = "imported")
<1> DEFINE m == Measured(f, r)
<1>1. \A d \in Day :
        m[d] = IF r[d].reason = "imported" THEN r[d]
               ELSE IF Taken(f) = {d} THEN Row("no_previous_snapshot", 0)
               ELSE IF d \notin Starts(f) THEN r[d]
               ELSE IF d + 1 \in Taken(f) THEN Compared(f[d], f[d + 1])
               ELSE Row("non_consecutive_days", 0)
  BY DEF Measured
<1>2. ASSUME NEW d \in Day, {d, d + 1} \subseteq Taken(f)
      PROVE  d \in Starts(f) /\ Taken(f) # {d} /\ d + 1 \in Day
             /\ f[d].kind # "none" /\ f[d + 1].kind # "none"
  BY <1>2, DayNat DEF Starts, Taken
<1>3. \A d \in Day : d \in Starts(f) => d \in Taken(f)
  BY DEF Starts
<1>4. Row("no_previous_snapshot", 0) \in RowRecord /\ Row("non_consecutive_days", 0) \in RowRecord
  BY BoundAssumption DEF Row, RowRecord, Reason, Sold
<1>5. \A d \in Day : m[d] \in RowRecord
  <2> TAKE d \in Day
  <2>1. CASE {d, d + 1} \subseteq Taken(f)
    <3>1. f[d] \in Shot /\ f[d + 1] \in Shot
      BY <1>2, <2>1
    <3> QED BY <1>1, <1>2, <1>4, <2>1, <3>1, ComparedProperties
  <2>2. CASE ~({d, d + 1} \subseteq Taken(f))
    BY <1>1, <1>3, <1>4, <2>2
  <2> QED BY <2>1, <2>2
<1>6. m \in [Day -> RowRecord]
  BY <1>5 DEF Measured
<1>7. Backed(f, m)
  <2> SUFFICES ASSUME NEW d \in Day, m[d].reason = "estimated",
                      ~({d, d + 1} \subseteq Taken(f))
               PROVE  FALSE
    BY DEF Backed
  <2>1. r[d].reason # "estimated"
    BY DEF Backed
  <2> QED BY <1>1, <1>3, <2>1 DEF Row
<1>8. \A d \in Day : (r[d].reason = "imported") <=> (m[d].reason = "imported")
  <2> TAKE d \in Day
  <2>1. CASE {d, d + 1} \subseteq Taken(f)
    <3>1. f[d] \in Shot /\ f[d + 1] \in Shot
      BY <1>2, <2>1
    <3> QED BY <1>1, <1>2, <2>1, <3>1, ComparedProperties DEF Row
  <2>2. CASE ~({d, d + 1} \subseteq Taken(f))
    BY <1>1, <1>3, <2>2 DEF Row
  <2> QED BY <2>1, <2>2
<1>9. Fitting(f, m)
  BY <1>1, <1>2, <1>8 DEF Fitting
<1> QED BY <1>6, <1>7, <1>8, <1>9

\* Importing history touches only the rows it turns into imported ones.
LEMMA WithHistoryProperties ==
  ASSUME NEW r \in [Day -> RowRecord], NEW k \in [Day -> KnownPoint], NEW h \in Histories
  PROVE  /\ WithHistory(r, k, h) \in [Day -> RowRecord]
         /\ \A d \in Day : /\ d \notin Imported(k, h) => WithHistory(r, k, h)[d] = r[d]
                           /\ d \in Imported(k, h) =>
                                WithHistory(r, k, h)[d].reason = "imported"
<1> DEFINE w == WithHistory(r, k, h)
<1>1. \A d \in Day :
        w[d] = IF d \notin Imported(k, h) THEN r[d]
               ELSE IF h[d].type = "daily_increment" THEN Row("imported", h[d].value)
               ELSE Row("imported", h[d].value - Baseline(k, h, d))
  BY DEF WithHistory
<1>2. ASSUME NEW d \in Day, d \in Imported(k, h)
      PROVE  w[d] \in RowRecord
  <2>1. d \in DOMAIN h /\ h[d].type \in {"daily_increment", "cumulative_total"}
        /\ h[d].value \in Sold
    BY <1>2, HistoryAssumption DEF Imported, Point
  <2>2. CASE h[d].type = "daily_increment"
    <3>1. w[d] = Row("imported", h[d].value)
      BY <1>1, <1>2, <2>2
    <3> QED BY <2>1, <3>1 DEF Row, RowRecord, Reason
  <2>3. CASE h[d].type # "daily_increment"
    <3>1. HasBaseline(k, h, d) /\ h[d].value >= Baseline(k, h, d)
      BY <1>2, <2>3 DEF Imported
    <3>2. Baseline(k, h, d) \in Sold
      BY <3>1, HistoryAssumption DEF HasBaseline, Baseline, Cumulative, Point, KnownPoint
    <3>3. h[d].value - Baseline(k, h, d) \in Sold
      BY <2>1, <3>1, <3>2, BoundAssumption DEF Sold
    <3>4. w[d] = Row("imported", h[d].value - Baseline(k, h, d))
      BY <1>1, <1>2, <2>3
    <3> QED BY <3>3, <3>4 DEF Row, RowRecord, Reason
  <2> QED BY <2>2, <2>3
<1>3. \A d \in Day : w[d] \in RowRecord
  BY <1>1, <1>2
<1>4. w \in [Day -> RowRecord]
  BY <1>3 DEF WithHistory
<1> QED BY <1>1, <1>4 DEF Row

\* The baseline stays typed.
LEMMA RememberedTyped ==
  ASSUME NEW k \in [Day -> KnownPoint], NEW h \in Histories, NEW t \in Instant
  PROVE  Remembered(k, h, t) \in [Day -> KnownPoint]
<1>1. \A d \in Cumulative(h) : h[d].value \in Sold
  BY HistoryAssumption DEF Cumulative, Point
<1> QED BY <1>1 DEF Remembered, KnownPoint

\* What is read off a page is a snapshot with a capture time.
LEMMA ResultsTyped ==
  ASSUME NEW t \in Instant, NEW page \in BOOLEAN, NEW shot \in Results(t, page)
  PROVE  shot \in Shot /\ shot.at = t /\ shot.kind # "none" /\ shot.page = page
<1>1. 0 \in Sold
  BY BoundAssumption DEF Sold
<1>2. CASE \E n \in Sold : shot = [at |-> t, kind |-> "sold", sold |-> n, page |-> page]
  BY <1>2 DEF Shot
<1>3. CASE shot = [at |-> t, kind |-> "missing", sold |-> 0, page |-> page]
  BY <1>1, <1>3 DEF Shot
<1> QED BY <1>2, <1>3 DEF Results

LEMMA FetchedTyped ==
  ASSUME NEW t \in Instant, NEW shot \in Fetched(t)
  PROVE  shot \in Shot /\ shot.at = t /\ shot.kind # "none"
<1>1. 0 \in Sold
  BY BoundAssumption DEF Sold
<1>2. CASE shot \in Results(t, FALSE)
  BY <1>2, ResultsTyped
<1>3. CASE shot = [at |-> t, kind |-> "failed", sold |-> 0, page |-> FALSE]
  BY <1>1, <1>3 DEF Shot
<1> QED BY <1>2, <1>3 DEF Fetched

-----------------------------------------------------------------------------
(* The inductive invariant                                                  *)

Typed ==
  /\ now \in Instant
  /\ active \subseteq Product
  /\ shown \in [Product -> [Day -> Shot]]
  /\ known \in [Product -> [Day -> KnownPoint]]
  /\ row \in [Product -> [Day -> RowRecord]]
  /\ DOMAIN total = Store
  /\ pass.measure \subseteq Product

\* Snapshots are filed under their day and not taken in the future.
DatedIn(f, t) ==
  \A d \in Day : /\ f[d].at <= t
                 /\ f[d].kind # "none" => f[d].at \in Instant /\ DayOf[f[d].at] = d

Dated == \A p \in Product : DatedIn(shown[p], now)

\* Rows agree with the snapshots except for products whose last snapshot has not
\* been followed by a calculation; no estimate of any product lacks its days.
IInv ==
  /\ Typed
  /\ Dated
  /\ \A p \in Product : Backed(shown[p], row[p])
  /\ \A p \in Product \ owed : Fitting(shown[p], row[p])

THEOREM InitIInv == Init => IInv
<1> SUFFICES ASSUME Init PROVE IInv
  OBVIOUS
<1>1. NoShot \in Shot /\ Row("none", 0) \in RowRecord /\ 1 \in Instant
      /\ [at |-> 0, value |-> 0] \in KnownPoint
  BY BoundAssumption, ClockAssumption
  DEF NoShot, Shot, Sold, Row, RowRecord, Reason, KnownPoint, Instant
<1>2. Typed
  BY <1>1 DEF Init, Typed, NoPass
<1>3. \A p \in Product, d \in Day : row[p][d].reason = "none"
  BY DEF Init, Row
<1>4. \A p \in Product : Taken(shown[p]) = {}
  BY DEF Init, Taken, NoShot
<1>5. Dated
  BY <1>1 DEF Init, Dated, DatedIn, NoShot
<1> QED BY <1>2, <1>3, <1>4, <1>5 DEF IInv, Backed, Fitting

\* A snapshot taken by now leaves the snapshots dated, and so does time.
LEMMA WithDated ==
  ASSUME NEW f \in [Day -> Shot], NEW t \in Instant, DatedIn(f, t),
         NEW shot \in Shot, shot.at \in Instant, shot.kind # "none", shot.at <= t
  PROVE  DatedIn(With(f, shot), t)
BY WithProperties DEF DatedIn

\* The last public interval of a product that was just seen ends with that
\* snapshot.
LEMMA LastIntervalEndsNow ==
  ASSUME NEW f \in [Day -> Shot], NEW t \in Instant, DatedIn(f, t),
         NEW shot \in Shot, shot.at = t, shot.kind # "none",
         NEW d \in LastMeasured(With(f, shot)), d + 1 \in Taken(With(f, shot))
  PROVE  With(f, shot)[d + 1] = shot
<1> DEFINE g == With(f, shot)
<1>1. /\ g[DayOf[t]] = shot /\ DayOf[t] \in Taken(g) /\ DatedIn(g, t) /\ g \in [Day -> Shot]
  <2>1. DayOf[t] \in Day /\ t <= t /\ f[DayOf[t]].at <= t
    BY DayNat, ClockAssumption DEF DatedIn, Instant
  <2> QED BY <2>1, WithProperties, WithDated DEF Taken
<1> HIDE DEF g
<1>2. \A e \in Taken(g) : e \in Nat /\ e <= DayOf[t]
  <2> SUFFICES ASSUME NEW e \in Taken(g) PROVE e \in Nat /\ e <= DayOf[t]
    OBVIOUS
  <2>1. g[e].at \in Instant /\ DayOf[g[e].at] = e /\ g[e].at <= t
    BY <1>1 DEF DatedIn, Taken
  <2> QED BY <2>1, ClockAssumption
<1>3. d \in Nat /\ d \in Taken(g) /\ d + 1 \in Taken(g)
  BY <1>2 DEF LastMeasured, g
<1>4. ~(d + 1 < DayOf[t])
  <2> SUFFICES ASSUME d + 1 < DayOf[t] PROVE FALSE
    OBVIOUS
  <2>0. DayOf[t] \in Nat /\ d + 1 \in Nat /\ DayOf[t] > d + 1 /\ d + 1 # d
    <3>1. DayOf[t] \in Nat
      BY <1>1, <1>2
    <3> QED BY <1>3, <3>1
  <2>1. d + 1 \in Starts(g) /\ d + 1 # d
    BY <1>1, <1>3, <2>0 DEF Starts
  <2>2. Taken(g) # {d}
    BY <1>3, <2>1
  <2> QED BY <1>3, <2>1, <2>2 DEF LastMeasured, g
<1>5. d + 1 = DayOf[t]
  <2>1. d + 1 \in Nat /\ d + 1 <= DayOf[t] /\ DayOf[t] \in Nat
    BY <1>1, <1>2, <1>3
  <2> QED BY <1>4, <2>1
<1> QED BY <1>1, <1>5 DEF g

\* One product's rows after a snapshot of it was stored and they were calculated.
LEMMA StoredAndMeasured ==
  ASSUME NEW f \in [Day -> Shot], NEW r \in [Day -> RowRecord], Backed(f, r),
         NEW shot \in Shot, shot.at \in Instant, shot.kind # "none"
  PROVE  /\ With(f, shot) \in [Day -> Shot]
         /\ Measured(With(f, shot), r) \in [Day -> RowRecord]
         /\ Backed(With(f, shot), Measured(With(f, shot), r))
         /\ Fitting(With(f, shot), Measured(With(f, shot), r))
<1>1. With(f, shot) \in [Day -> Shot] /\ Backed(With(f, shot), r)
  BY WithProperties DEF Backed
<1> QED BY <1>1, MeasuredProperties

\* The rows an observation calculates from: the old ones, and those imported.
LEMMA ObservedHistory ==
  ASSUME IInv, NEW p \in Product, NEW t \in Instant, NEW h \in Histories, Observe(p, t, h)
  PROVE  /\ shown'[p] \in [Day -> Shot]
         /\ WithHistory(row[p], known[p], h) \in [Day -> RowRecord]
         /\ Backed(shown'[p], WithHistory(row[p], known[p], h))
         /\ \A d \in Day : d \notin Imported(known[p], h) =>
                            WithHistory(row[p], known[p], h)[d] = row[p][d]
<1> DEFINE w == WithHistory(row[p], known[p], h)
<1>1. PICK shot \in Results(t, FALSE) : shown' = [shown EXCEPT ![p] = With(shown[p], shot)]
  BY DEF Observe
<1>2. shot \in Shot /\ shot.at \in Instant /\ shot.kind # "none"
  BY ResultsTyped
<1>3. /\ shown[p] \in [Day -> Shot] /\ row[p] \in [Day -> RowRecord]
      /\ known[p] \in [Day -> KnownPoint] /\ Backed(shown[p], row[p])
  BY DEF IInv, Typed
<1>4. shown'[p] = With(shown[p], shot)
  BY <1>1 DEF IInv, Typed
<1>5. shown'[p] \in [Day -> Shot] /\ Taken(shown[p]) \subseteq Taken(shown'[p])
  BY <1>2, <1>3, <1>4, WithProperties
<1>6. /\ w \in [Day -> RowRecord]
      /\ \A d \in Day : /\ d \notin Imported(known[p], h) => w[d] = row[p][d]
                        /\ d \in Imported(known[p], h) => w[d].reason = "imported"
  BY <1>3, WithHistoryProperties
<1>7. Backed(shown'[p], w)
  BY <1>3, <1>5, <1>6 DEF Backed
<1> QED BY <1>5, <1>6, <1>7

THEOREM StepIInv == IInv /\ [Next]_vars => IInv'
<1> SUFFICES ASSUME IInv, [Next]_vars PROVE IInv'
  OBVIOUS
<1> USE DEF IInv, Typed
<1>1. ASSUME NEW p \in Product, NEW t \in Instant, NEW h \in Histories, Observe(p, t, h)
      PROVE  IInv'
  <2> DEFINE w == WithHistory(row[p], known[p], h)
  <2>1. PICK shot \in Results(t, FALSE) :
          /\ shown' = [shown EXCEPT ![p] = With(shown[p], shot)]
          /\ known' = [known EXCEPT ![p] = Remembered(known[p], h, t)]
          /\ row' = [row EXCEPT ![p] = Measured(shown'[p], w)]
    BY <1>1 DEF Observe
  <2>2. shot \in Shot /\ shot.at \in Instant /\ shot.kind # "none"
    BY ResultsTyped
  <2>3. w \in [Day -> RowRecord] /\ Backed(shown[p], w)
    <3>1. row[p] \in [Day -> RowRecord] /\ known[p] \in [Day -> KnownPoint]
          /\ Backed(shown[p], row[p])
      OBVIOUS
    <3>2. /\ w \in [Day -> RowRecord]
          /\ \A d \in Day : /\ d \notin Imported(known[p], h) => w[d] = row[p][d]
                            /\ d \in Imported(known[p], h) => w[d].reason = "imported"
      BY <3>1, WithHistoryProperties
    <3> QED BY <3>1, <3>2 DEF Backed
  <2>4. /\ shown'[p] \in [Day -> Shot] /\ row'[p] \in [Day -> RowRecord]
        /\ Backed(shown'[p], row'[p]) /\ Fitting(shown'[p], row'[p])
    <3> HIDE DEF w
    <3>1. PICK f, r : f = shown[p] /\ r = w
      OBVIOUS
    <3>2. shown'[p] = With(f, shot) /\ row'[p] = Measured(With(f, shot), r)
      BY <2>1, <3>1
    <3>3. f \in [Day -> Shot] /\ r \in [Day -> RowRecord] /\ Backed(f, r)
      BY <2>3, <3>1
    <3> HIDE DEF IInv, Typed
    <3>4. /\ With(f, shot) \in [Day -> Shot]
          /\ Measured(With(f, shot), r) \in [Day -> RowRecord]
          /\ Backed(With(f, shot), Measured(With(f, shot), r))
          /\ Fitting(With(f, shot), Measured(With(f, shot), r))
      BY <2>2, <3>3, StoredAndMeasured
    <3> QED BY <3>2, <3>4
  <2>5. known' \in [Product -> [Day -> KnownPoint]]
    BY <2>1, RememberedTyped
  <2>6. /\ owed' = owed \ {p} /\ DOMAIN total' = Store
        /\ now' = now /\ active' = active /\ pass' = pass
    BY <1>1 DEF Observe, AddUp
  <2>7. \A q \in Product \ {p} : shown'[q] = shown[q] /\ row'[q] = row[q]
    BY <2>1
  <2>8. shown' \in [Product -> [Day -> Shot]] /\ row' \in [Product -> [Day -> RowRecord]]
    BY <2>1, <2>4
  <2>9. Dated'
    <3>1. shown'[p] = With(shown[p], shot)
      BY <2>1
    <3>2. shot.at = t
      BY ResultsTyped
    <3>3. t <= now
      BY <1>1 DEF Observe
    <3>4. DatedIn(shown'[p], now)
      BY <2>2, <3>1, <3>2, <3>3, WithDated DEF Dated
    <3> QED BY <2>6, <2>7, <3>4 DEF Dated
  <2> QED BY <2>4, <2>5, <2>6, <2>7, <2>8, <2>9
<1>2. ASSUME NEW s \in Store, NEW seen \in SUBSET {p \in Product : StoreOf[p] = s},
             StorePage(s, seen)
      PROVE  IInv'
  <2>1. PICK shots \in [seen -> Results(now, TRUE)] :
          shown' = [p \in Product |-> IF p \in seen THEN With(shown[p], shots[p])
                                     ELSE shown[p]]
    BY <1>2 DEF StorePage
  <2>2. row' = [p \in Product |-> IF p \in seen THEN Measured(shown'[p], row[p]) ELSE row[p]]
    BY <1>2 DEF StorePage
  <2>3. ASSUME NEW p \in seen
        PROVE  /\ shown'[p] \in [Day -> Shot] /\ row'[p] \in [Day -> RowRecord]
               /\ Backed(shown'[p], row'[p]) /\ Fitting(shown'[p], row'[p])
    <3>1. shots[p] \in Shot /\ shots[p].at \in Instant /\ shots[p].kind # "none"
      <4>1. shots[p] \in Results(now, TRUE) /\ now \in Instant
        OBVIOUS
      <4> HIDE DEF IInv, Typed
      <4> QED BY <4>1, ResultsTyped
    <3>2. PICK f, r, shot : f = shown[p] /\ r = row[p] /\ shot = shots[p]
      OBVIOUS
    <3>3. shown'[p] = With(f, shot) /\ row'[p] = Measured(With(f, shot), r)
      BY <2>1, <2>2, <3>2
    <3>4. f \in [Day -> Shot] /\ r \in [Day -> RowRecord] /\ Backed(f, r)
      BY <3>2
    <3> HIDE DEF IInv, Typed
    <3>5. /\ With(f, shot) \in [Day -> Shot]
          /\ Measured(With(f, shot), r) \in [Day -> RowRecord]
          /\ Backed(With(f, shot), Measured(With(f, shot), r))
          /\ Fitting(With(f, shot), Measured(With(f, shot), r))
      BY <3>1, <3>2, <3>4, StoredAndMeasured
    <3> QED BY <3>3, <3>5
  <2>4. \A q \in Product \ seen : shown'[q] = shown[q] /\ row'[q] = row[q]
    BY <2>1, <2>2
  <2>5. /\ owed' = owed \ seen /\ DOMAIN total' = Store /\ active' \subseteq Product
        /\ now' = now /\ known' = known /\ pass' = pass
    BY <1>2, DiscoveredAssumption DEF StorePage, AddUp
  <2>6. shown' \in [Product -> [Day -> Shot]] /\ row' \in [Product -> [Day -> RowRecord]]
    BY <2>1, <2>2, <2>3, <2>4
  <2>7. Dated'
    <3>1. ASSUME NEW p \in seen
          PROVE  DatedIn(shown'[p], now)
      <4>1. /\ shots[p] \in Shot /\ shots[p].at \in Instant /\ shots[p].kind # "none"
            /\ shots[p].at <= now
        <5>1. shots[p] \in Results(now, TRUE) /\ now \in Instant
          OBVIOUS
        <5>2. shots[p] \in Shot /\ shots[p].at = now /\ shots[p].kind # "none"
          BY <5>1, ResultsTyped
        <5> QED BY <5>1, <5>2, ClockAssumption DEF Instant
      <4> QED BY <2>1, <4>1, WithDated DEF Dated
    <3> QED BY <2>4, <2>5, <3>1 DEF Dated
  <2> QED BY <2>3, <2>4, <2>5, <2>6, <2>7
<1>3. ASSUME NEW ps \in SUBSET Product, PassStarts(ps)
      PROVE  IInv'
  BY <1>3 DEF PassStarts, NoPass, Dated
<1>4. ASSUME NEW p \in Product, PassFetches(p)
      PROVE  IInv'
  <2>1. PICK shot \in Fetched(now) : shown' = [shown EXCEPT ![p] = With(shown[p], shot)]
    BY <1>4 DEF PassFetches
  <2>2. shot \in Shot /\ shot.at \in Instant /\ shot.kind # "none"
    BY FetchedTyped
  <2>3. shown'[p] \in [Day -> Shot] /\ Taken(shown[p]) \subseteq Taken(shown'[p])
    BY <2>1, <2>2, WithProperties
  <2>4. /\ owed' = owed \cup {p} /\ UNCHANGED <<now, active, known, row, total>>
        /\ pass'.measure \subseteq Product
    <3>1. PICK r : r = [pass EXCEPT !.fetch = @ \ {p}, !.measure = @ \cup {p}]
      OBVIOUS
    <3> QED BY <1>4, <3>1 DEF PassFetches
  <2>5. shown' \in [Product -> [Day -> Shot]]
        /\ \A q \in Product \ {p} : shown'[q] = shown[q]
    BY <2>1, <2>3
  <2>6. Backed(shown'[p], row[p])
    BY <2>3 DEF Backed
  <2>7. Dated'
    <3>1. shot.at <= now /\ shown'[p] = With(shown[p], shot)
      BY <2>1, FetchedTyped, ClockAssumption DEF Instant
    <3>2. DatedIn(shown'[p], now)
      BY <2>2, <3>1, WithDated DEF Dated
    <3> QED BY <2>4, <2>5, <3>2 DEF Dated
  <2> QED BY <2>4, <2>5, <2>6, <2>7
<1>5. ASSUME NEW p \in Product, PassMeasures(p)
      PROVE  IInv'
  <2>1. row' = [row EXCEPT ![p] = Measured(shown[p], row[p])]
        /\ owed' = owed \ {p} /\ UNCHANGED <<now, active, shown, known, total>>
    BY <1>5 DEF PassMeasures
  <2>2. pass'.measure \subseteq Product
    BY <1>5 DEF PassMeasures
  <2>3. /\ row'[p] \in [Day -> RowRecord]
        /\ Backed(shown[p], row'[p]) /\ Fitting(shown[p], row'[p])
    BY <2>1, MeasuredProperties
  <2>4. row' \in [Product -> [Day -> RowRecord]]
        /\ \A q \in Product \ {p} : row'[q] = row[q]
    BY <2>1, <2>3
  <2> QED BY <2>1, <2>2, <2>3, <2>4 DEF Dated
<1>6. ASSUME NEW s \in Store, NEW d \in Day, PassSums(s, d)
      PROVE  IInv'
  BY <1>6 DEF PassSums, AddUp, Dated
<1>7. CASE PassCrashes
  BY <1>7 DEF PassCrashes, NoPass, Dated
<1>8. ASSUME NEW p \in Product, SwitchProduct(p)
      PROVE  IInv'
  BY <1>8 DEF SwitchProduct, Dated
<1>9. CASE Tick
  <2>1. now' \in Instant /\ now < now' /\ UNCHANGED <<active, shown, known, row, total, pass, owed>>
    BY <1>9, ClockAssumption DEF Tick, Instant
  <2>2. \A p \in Product, d \in Day : shown[p][d].at \in Nat
    BY ClockAssumption DEF Shot, Instant
  <2>3. Dated'
    BY <2>1, <2>2 DEF Dated, DatedIn, Instant
  <2> QED BY <2>1, <2>3
<1>10. CASE UNCHANGED vars
  BY <1>10 DEF vars, Dated
<1> QED BY <1>1, <1>2, <1>3, <1>4, <1>5, <1>6, <1>7, <1>8, <1>9, <1>10 DEF Next

\* The inductive invariant holds throughout.
THEOREM Invariance == Spec => []IInv
BY InitIInv, StepIInv, PTL DEF Spec

-----------------------------------------------------------------------------
(* The properties                                                           *)

\* README.md's rules of estimation hold for every product with nothing left to
\* calculate, whatever was stored, back-dated or interrupted before.
THEOREM RowsFollowSnapshotsHolds == Spec => []RowsFollowSnapshots
<1>1. IInv => RowsFollowSnapshots
  <2> SUFFICES ASSUME IInv, NEW p \in Product \ owed, NEW d \in Day,
                      row[p][d].reason # "imported"
               PROVE  LET good == /\ Consecutive(p, d) /\ shown[p][d].kind = "sold"
                                  /\ shown[p][d + 1].kind = "sold"
                                  /\ shown[p][d].sold <= shown[p][d + 1].sold
                      IN  /\ (row[p][d].reason = "estimated") <=> good
                          /\ good => row[p][d].sales = shown[p][d + 1].sold - shown[p][d].sold
    BY DEF RowsFollowSnapshots
  <2>1. Backed(shown[p], row[p]) /\ Fitting(shown[p], row[p])
    BY DEF IInv
  <2>2. CASE Consecutive(p, d)
    <3>1. /\ shown[p][d] \in Shot /\ shown[p][d].kind # "none"
          /\ shown[p][d + 1] \in Shot /\ shown[p][d + 1].kind # "none"
      BY <2>2 DEF Consecutive, Taken, IInv, Typed
    <3>2. row[p][d] = Compared(shown[p][d], shown[p][d + 1])
      BY <2>1, <2>2 DEF Fitting, Consecutive
    <3> QED BY <2>2, <3>1, <3>2, ComparedProperties
  <2>3. CASE ~Consecutive(p, d)
    BY <2>1, <2>3 DEF Backed, Consecutive
  <2> QED BY <2>2, <2>3
<1> QED BY <1>1, Invariance, PTL

\* No step replaces or removes an imported row.
THEOREM ImportedStaysHolds == Spec => ImportedStays
<1> DEFINE Stays == \A p \in Product, d \in Day :
                      row[p][d].reason = "imported" => row'[p][d].reason = "imported"
<1>1. IInv /\ [Next]_vars => Stays
  <2> SUFFICES ASSUME IInv, [Next]_vars, NEW q \in Product, NEW d \in Day,
                      row[q][d].reason = "imported"
               PROVE  row'[q][d].reason = "imported"
    OBVIOUS
  <2>0. row[q] \in [Day -> RowRecord] /\ Typed /\ IInv'
    BY StepIInv DEF IInv, Typed
  <2>1. ASSUME NEW p \in Product, NEW t \in Instant, NEW h \in Histories, Observe(p, t, h)
        PROVE  row'[q][d].reason = "imported"
    <3>1. row' = [row EXCEPT ![p] = Measured(shown'[p], WithHistory(row[p], known[p], h))]
      BY <2>1 DEF Observe
    <3>2. CASE q # p
      BY <2>0, <3>1, <3>2 DEF Typed
    <3>3. CASE q = p
      <4>1. row'[q] = Measured(shown'[q], WithHistory(row[q], known[q], h))
        BY <2>0, <3>1, <3>3 DEF Typed
      <4>2. WithHistory(row[q], known[q], h)[d].reason = "imported"
        <5>1. known[q] \in [Day -> KnownPoint]
          BY <2>0 DEF Typed
        <5>2. d \notin Imported(known[q], h) =>
                WithHistory(row[q], known[q], h)[d] = row[q][d]
          BY <2>0, <5>1, WithHistoryProperties
        <5>3. d \in Imported(known[q], h) =>
                WithHistory(row[q], known[q], h)[d].reason = "imported"
          BY <2>0, <5>1, WithHistoryProperties
        <5> QED BY <5>2, <5>3
      <4> QED BY <4>1, <4>2 DEF Measured
    <3> QED BY <3>2, <3>3
  <2>2. ASSUME NEW s \in Store, NEW seen \in SUBSET {p \in Product : StoreOf[p] = s},
               StorePage(s, seen)
        PROVE  row'[q][d].reason = "imported"
    BY <2>2 DEF StorePage, Measured
  <2>3. ASSUME NEW p \in Product, PassMeasures(p)
        PROVE  row'[q][d].reason = "imported"
    <3>1. row' = [row EXCEPT ![p] = Measured(shown[p], row[p])]
      BY <2>3 DEF PassMeasures
    <3> QED BY <2>0, <3>1 DEF Typed, Measured
  <2>4. CASE row' = row
    BY <2>4
  <2> QED BY <2>1, <2>2, <2>3, <2>4
      DEF Next, PassStarts, PassFetches, PassSums, PassCrashes, SwitchProduct, Tick, vars
<1>2. IInv /\ [Next]_vars => [Stays]_vars
  BY <1>1
<1> QED BY <1>2, Invariance, PTL DEF Spec, ImportedStays

\* Every report of a product's own page, by a channel or by the pass, and every
\* imported day reaches the store's row at once or is due in the pass.
THEOREM ProductPagesReachTotalsHolds == Spec => ProductPagesReachTotals
<1> DEFINE Reaches ==
      \A p \in Product, d \in Day :
        Reported(p, d) /\ (row'[p][d].reason = "estimated" => ~shown'[p][d + 1].page)
          => BroughtUpToDate(StoreOf[p], d)
<1>1. IInv /\ [Next]_vars => Reaches
  <2> SUFFICES ASSUME IInv, [Next]_vars, NEW q \in Product, NEW d \in Day, Reported(q, d),
                      row'[q][d].reason = "estimated" => ~shown'[q][d + 1].page
               PROVE  BroughtUpToDate(StoreOf[q], d)
    OBVIOUS
  <2>0. Typed /\ row'[q][d] # row[q][d] /\ StoreOf[q] \in Store
        /\ (row'[q][d].reason = "imported" \/ d \in LastMeasured(shown'[q]))
    BY StoreOfAssumption DEF IInv, Reported
  <2>1. ASSUME NEW p \in Product, NEW t \in Instant, NEW h \in Histories, Observe(p, t, h)
        PROVE  BroughtUpToDate(StoreOf[q], d)
    <3>1. row' = [row EXCEPT ![p] = Measured(shown'[p], WithHistory(row[p], known[p], h))]
          /\ AddUp(StoreOf[p], OwnDays(shown'[p], known[p], h))
      BY <2>1 DEF Observe
    <3>2. q = p
      BY <2>0, <3>1 DEF Typed
    <3>3. d \in OwnDays(shown'[p], known[p], h)
      <4>1. CASE d \in LastMeasured(shown'[q])
        BY <3>2, <4>1 DEF OwnDays
      <4>2. ASSUME row'[q][d].reason = "imported", d \notin Imported(known[p], h)
            PROVE  FALSE
        <5>1. PICK f, r : f = shown'[p] /\ r = WithHistory(row[p], known[p], h)
          OBVIOUS
        <5>2. /\ f \in [Day -> Shot] /\ r \in [Day -> RowRecord] /\ Backed(f, r)
              /\ r[d] = row[p][d]
          BY <2>1, <4>2, <5>1, ObservedHistory
        <5>3. row'[p] = Measured(f, r)
          BY <2>0, <3>1, <5>1 DEF Typed
        <5>4. r[d].reason = "imported"
          BY <3>2, <4>2, <5>2, <5>3, MeasuredProperties
        <5> QED BY <2>0, <3>2, <5>2, <5>3, <5>4 DEF Measured
      <4> QED BY <2>0, <4>1, <4>2 DEF OwnDays
    <3> QED BY <2>0, <3>1, <3>2, <3>3 DEF AddUp, BroughtUpToDate, Typed
  <2>2. ASSUME NEW s \in Store, NEW seen \in SUBSET {p \in Product : StoreOf[p] = s},
               StorePage(s, seen)
        PROVE  BroughtUpToDate(StoreOf[q], d)
    <3>1. PICK shots \in [seen -> Results(now, TRUE)] :
            shown' = [p \in Product |-> IF p \in seen THEN With(shown[p], shots[p])
                                       ELSE shown[p]]
      BY <2>2 DEF StorePage
    <3>2. row' = [p \in Product |-> IF p \in seen THEN Measured(shown'[p], row[p]) ELSE row[p]]
      BY <2>2 DEF StorePage
    <3>3. q \in seen
      BY <2>0, <3>2
    <3>4. PICK f, r, shot : f = shown[q] /\ r = row[q] /\ shot = shots[q]
      OBVIOUS
    <3>5. /\ f \in [Day -> Shot] /\ DatedIn(f, now) /\ Backed(f, r) /\ r \in [Day -> RowRecord]
          /\ shot \in Shot /\ shot.kind # "none" /\ shot.at = now /\ shot.page
      <4>1. f \in [Day -> Shot] /\ DatedIn(f, now) /\ Backed(f, r) /\ r \in [Day -> RowRecord]
        BY <3>4 DEF IInv, Typed, Dated
      <4>2. shot \in Results(now, TRUE) /\ now \in Instant
        BY <2>0, <3>3, <3>4 DEF Typed
      <4> QED BY <4>1, <4>2, ResultsTyped
    <3>6. shown'[q] = With(f, shot) /\ row'[q] = Measured(With(f, shot), r)
      BY <3>1, <3>2, <3>3, <3>4
    <3>7. With(f, shot) \in [Day -> Shot] /\ Backed(With(f, shot), r)
      BY <2>0, <3>5, WithProperties DEF Backed, Typed
    <3>8. row'[q][d].reason # "imported"
      <4> SUFFICES ASSUME row'[q][d].reason = "imported" PROVE FALSE
        OBVIOUS
      <4>1. r[d].reason = "imported"
        BY <3>5, <3>6, <3>7, MeasuredProperties
      <4> QED BY <2>0, <3>4, <3>6, <4>1 DEF Measured
    <3>9. row'[q][d].reason = "estimated" /\ d \in LastMeasured(With(f, shot))
      BY <3>6, <3>8 DEF Reported
    <3>10. d + 1 \in Taken(With(f, shot))
      BY <3>5, <3>6, <3>7, <3>9, MeasuredProperties DEF Backed
    <3>11. shown'[q][d + 1].page
      BY <2>0, <3>5, <3>6, <3>9, <3>10, LastIntervalEndsNow DEF Typed
    <3> QED BY <3>9, <3>11
  <2>3. ASSUME NEW p \in Product, PassMeasures(p)
        PROVE  BroughtUpToDate(StoreOf[q], d)
    <3>1. row' = [row EXCEPT ![p] = Measured(shown[p], row[p])] /\ shown' = shown
      BY <2>3 DEF PassMeasures
    <3>2. q = p
      BY <2>0, <3>1 DEF Typed
    <3>3. d \in LastMeasured(shown[q])
      <4>1. PICK f, r : f = shown[p] /\ r = row[p]
        OBVIOUS
      <4>2. f \in [Day -> Shot] /\ r \in [Day -> RowRecord] /\ Backed(f, r)
        BY <4>1 DEF IInv, Typed
      <4>3. row'[q] = Measured(f, r)
        BY <2>0, <3>1, <3>2, <4>1 DEF Typed
      <4>4. ASSUME row'[q][d].reason = "imported"
            PROVE  FALSE
        <5>1. r[d].reason = "imported"
          BY <4>2, <4>3, <4>4, MeasuredProperties
        <5> QED BY <2>0, <3>2, <4>1, <4>3, <5>1 DEF Measured
      <4> QED BY <2>0, <3>1, <4>4
    <3>4. <<StoreOf[q], d>> \in {StoreOf[p]} \X DueDays(shown[p])
      BY <3>2, <3>3 DEF DueDays
    <3>5. pass'.sums = pass.sums \cup ({StoreOf[p]} \X DueDays(shown[p]))
      BY <2>0, <2>3 DEF PassMeasures, Typed
    <3> QED BY <3>4, <3>5 DEF BroughtUpToDate
  <2>4. CASE row' = row
    BY <2>0, <2>4
  <2> QED BY <2>1, <2>2, <2>3, <2>4
      DEF Next, PassStarts, PassFetches, PassSums, PassCrashes, SwitchProduct, Tick, vars
<1>2. IInv /\ [Next]_vars => [Reaches]_vars
  BY <1>1
<1> QED BY <1>2, Invariance, PTL DEF Spec, ProductPagesReachTotals

-----------------------------------------------------------------------------
(* Sums of rows                                                             *)

\* What the store's calculation returns.
LEMMA SummedTyped ==
  ASSUME NEW s \in Store, NEW d \in Day, NEW rr \in [Product -> [Day -> RowRecord]],
         NEW act \in SUBSET Product
  PROVE  Summed(s, d, rr, act) \in Total
<1> DEFINE scope == {p \in act : StoreOf[p] = s}
           good  == {p \in scope : Estimable(rr[p][d])}
           sales == [p \in good |-> rr[p][d].sales]
<1>1. good \subseteq Product /\ scope \ good \subseteq Product
  OBVIOUS
<1>2. IsFiniteSet(good) /\ IsFiniteSet(scope \ good)
  <2> HIDE DEF good, scope
  <2> QED BY <1>1, ProductAssumption, FS_Subset
<1>3. \A p \in good : sales[p] \in Nat
  BY BoundAssumption DEF RowRecord, Sold
<1>4. SumFunctionOnSet(sales, good) \in Nat
  <2> HIDE DEF good, scope, sales
  <2> QED BY <1>2, <1>3, SumNat
<1>5. Cardinality(good) \in Nat /\ Cardinality(scope \ good) \in Nat
  <2> HIDE DEF good, scope
  <2> QED BY <1>2, FS_CardinalityType
<1>6. Summed(s, d, rr, act) = [present |-> TRUE, sales |-> SumFunctionOnSet(sales, good),
                               estimable |-> Cardinality(good),
                               unavailable |-> Cardinality(scope \ good)]
  BY DEF Summed, SalesOn
<1> HIDE DEF good, scope, sales
<1> QED BY <1>4, <1>5, <1>6 DEF Total

LEMMA AddUpTyped ==
  ASSUME TypeOK, NEW s \in Store, NEW ds, AddUp(s, ds),
         row' \in [Product -> [Day -> RowRecord]], active' \subseteq Product
  PROVE  total' \in [Store -> [Day -> Total]]
<1>1. PICK new : new = [d \in Day |-> IF d \in ds THEN Summed(s, d, row', active')
                                     ELSE total[s][d]]
  OBVIOUS
<1>2. \A d \in Day : Summed(s, d, row', active') \in Total
  BY SummedTyped
<1>3. new \in [Day -> Total]
  BY <1>1, <1>2 DEF TypeOK
<1>4. total' = [total EXCEPT ![s] = new]
  BY <1>1 DEF AddUp
<1> QED BY <1>3, <1>4 DEF TypeOK

\* TypeOK and the inductive invariant go together: the rows' types come from
\* the latter, whose proof needs nothing of the sums.
LEMMA TypeStep == IInv /\ TypeOK /\ [Next]_vars => TypeOK'
<1> SUFFICES ASSUME IInv, TypeOK, [Next]_vars PROVE TypeOK'
  OBVIOUS
<1>0. Typed' /\ now' \in Instant /\ active' \subseteq Product
      /\ row' \in [Product -> [Day -> RowRecord]]
  BY StepIInv DEF IInv, Typed
<1>1. total' \in [Store -> [Day -> Total]]
  <2>1. ASSUME NEW p \in Product, NEW t \in Instant, NEW h \in Histories, Observe(p, t, h)
        PROVE  total' \in [Store -> [Day -> Total]]
    BY <1>0, <2>1, AddUpTyped, StoreOfAssumption DEF Observe
  <2>2. ASSUME NEW s \in Store, NEW seen \in SUBSET {p \in Product : StoreOf[p] = s},
               StorePage(s, seen)
        PROVE  total' \in [Store -> [Day -> Total]]
    BY <1>0, <2>2, AddUpTyped DEF StorePage
  <2>3. ASSUME NEW s \in Store, NEW d \in Day, PassSums(s, d)
        PROVE  total' \in [Store -> [Day -> Total]]
    BY <1>0, <2>3, AddUpTyped DEF PassSums
  <2>4. CASE total' = total
    BY <2>4 DEF TypeOK
  <2> QED BY <2>1, <2>2, <2>3, <2>4
      DEF Next, PassStarts, PassFetches, PassMeasures, PassCrashes, SwitchProduct, Tick, vars
<1>2. pass' \in Pass
  <2>1. ASSUME NEW ps \in SUBSET Product, PassStarts(ps)
        PROVE  pass' \in Pass
    BY <2>1 DEF PassStarts, NoPass, Pass
  <2>2. ASSUME NEW p \in Product, PassFetches(p)
        PROVE  pass' \in Pass
    BY <2>2 DEF PassFetches, TypeOK, Pass
  <2>3. ASSUME NEW p \in Product, PassMeasures(p)
        PROVE  pass' \in Pass
    <3>1. DueDays(shown[p]) \subseteq Day
      BY DEF DueDays, LastMeasured, Taken
    <3> QED BY <2>3, <3>1, StoreOfAssumption DEF PassMeasures, TypeOK, Pass
  <2>4. ASSUME NEW s \in Store, NEW d \in Day, PassSums(s, d)
        PROVE  pass' \in Pass
    BY <2>4 DEF PassSums, TypeOK, Pass
  <2>5. CASE PassCrashes
    BY <2>5 DEF PassCrashes, NoPass, Pass
  <2>6. CASE pass' = pass
    BY <2>6 DEF TypeOK
  <2> QED BY <2>1, <2>2, <2>3, <2>4, <2>5, <2>6
      DEF Next, Observe, StorePage, SwitchProduct, Tick, vars
<1>3. owed' \subseteq Product
  BY DEF TypeOK, Next, Observe, StorePage, PassStarts, PassFetches, PassMeasures, PassSums,
         PassCrashes, SwitchProduct, Tick, vars
<1>4. taken' \in 0 .. MaxSnapshots
  <2>1. taken' = taken \/ (taken < MaxSnapshots /\ taken' = taken + 1)
    <3>1. ASSUME NEW p \in Product, PassFetches(p)
          PROVE  taken < MaxSnapshots /\ taken' = taken + 1
      BY <3>1 DEF PassFetches
    <3>2. ASSUME NEW p \in Product, NEW t \in Instant, NEW h \in Histories, Observe(p, t, h)
          PROVE  taken < MaxSnapshots /\ taken' = taken + 1
      BY <3>2 DEF Observe
    <3>3. ASSUME NEW s \in Store, NEW seen \in SUBSET {p \in Product : StoreOf[p] = s},
                 StorePage(s, seen)
          PROVE  taken < MaxSnapshots /\ taken' = taken + 1
      BY <3>3 DEF StorePage
    <3>4. CASE taken' = taken
      BY <3>4
    <3> QED BY <3>1, <3>2, <3>3, <3>4
        DEF Next, PassStarts, PassMeasures, PassSums, PassCrashes, SwitchProduct, Tick, vars
  <2> QED BY <2>1, BoundAssumption DEF TypeOK
<1> QED BY <1>0, <1>1, <1>2, <1>3, <1>4 DEF TypeOK, Typed, RowRecord, KnownPoint

\* The store rows, the pass and the bound stay within their types as well.
THEOREM TypeCorrect == Spec => []TypeOK
<1>1. Init => TypeOK
  <2> SUFFICES ASSUME Init PROVE TypeOK
    OBVIOUS
  <2>1. Typed
    BY InitIInv DEF IInv
  <2>2. NoTotal \in Total /\ NoPass \in Pass /\ 0 \in 0 .. MaxSnapshots
    BY BoundAssumption DEF NoTotal, Total, NoPass, Pass
  <2> QED BY <2>1, <2>2 DEF Init, TypeOK, Typed, RowRecord, KnownPoint
<1>2. IInv /\ TypeOK /\ [Next]_vars => TypeOK'
  BY TypeStep
<1> QED BY <1>1, <1>2, Invariance, PTL DEF Spec

\* One more day of a stretch: what its estimate adds is what the number grew.
LEMMA StretchGrows ==
  ASSUME IInv, RowsFollowSnapshots, NEW p \in Product \ owed, NEW a \in Day, NEW n \in Nat,
         \A d \in a .. a + n : d \in Day /\ row[p][d].reason = "estimated",
         HistoryTotal(p, a .. a + n - 1) = shown[p][a + n].sold - shown[p][a].sold
  PROVE  HistoryTotal(p, a .. a + n) = shown[p][a + n + 1].sold - shown[p][a].sold
<1> DEFINE S == a .. a + n - 1
           e == a + n
           T == a .. a + n
           sales == [d \in T |-> row[p][d].sales]
           less  == [d \in S |-> row[p][d].sales]
<1>1. a \in Nat
  BY DayNat
<1>2. T = S \cup {e} /\ e \notin S /\ IsFiniteSet(S) /\ e \in T
  <2>1. IsFiniteSet(S)
    BY <1>1, FS_Interval
  <2> QED BY <1>1, <2>1
<1>3. {d \in T : Estimable(row[p][d])} = T /\ {d \in S : Estimable(row[p][d])} = S
  BY <1>2 DEF Estimable
<1>4. HistoryTotal(p, T) = SumFunctionOnSet(sales, T)
      /\ HistoryTotal(p, S) = SumFunctionOnSet(less, S)
  BY <1>3 DEF HistoryTotal
<1>5. \A d \in T : sales[d] \in Nat
  BY BoundAssumption DEF IInv, Typed, RowRecord, Sold
<1>6. SumFunctionOnSet(sales, T) = sales[e] + SumFunctionOnSet(sales, S)
  <2> HIDE DEF S, T, e, sales
  <2> QED BY <1>2, <1>5, SumAdd
<1>7. SumFunctionOnSet(sales, S) = SumFunctionOnSet(less, S)
  <2>1. \A d \in S : sales[d] = less[d]
    BY <1>2
  <2> HIDE DEF S, T, e, sales, less
  <2> QED BY <1>2, <2>1, SumSame
<1>8. sales[e] = shown[p][e + 1].sold - shown[p][e].sold
  <2>1. e \in Day /\ row[p][e].reason = "estimated"
    BY <1>2
  <2> QED BY <1>2, <2>1 DEF RowsFollowSnapshots
<1>9. shown[p][a].sold \in Nat /\ shown[p][e].sold \in Nat /\ shown[p][e + 1].sold \in Nat
  <2>1. e \in Day /\ e + 1 \in Day
    BY <1>2 DEF IInv, Backed, Taken
  <2> QED BY <2>1, BoundAssumption DEF IInv, Typed, Shot, Sold
<1> HIDE DEF sales, less
<1>10. SumFunctionOnSet(sales, T) =
         (shown[p][e + 1].sold - shown[p][e].sold) + (shown[p][e].sold - shown[p][a].sold)
  BY <1>4, <1>6, <1>7, <1>8
<1> QED BY <1>4, <1>9, <1>10

\* The estimates of any stretch of days, however long, add up to what the
\* public number grew between its ends: none is counted twice or lost.
THEOREM GrowthIsSharedHolds == Spec => []GrowthIsShared
<1>1. ASSUME IInv, RowsFollowSnapshots
      PROVE  GrowthIsShared
  <2> SUFFICES ASSUME NEW p \in Product \ owed, NEW a \in Day, NEW b \in Day, a < b,
                      \A d \in a .. b - 1 : d \in Day /\ row[p][d].reason = "estimated"
               PROVE  HistoryTotal(p, a .. b - 1) = shown[p][b].sold - shown[p][a].sold
    BY DEF GrowthIsShared
  <2>0. a \in Nat /\ b \in Nat /\ b - a \in Nat
    BY DayNat
  <2> DEFINE Wrong == {n \in 0 .. b - a :
                  HistoryTotal(p, a .. a + n - 1) # shown[p][a + n].sold - shown[p][a].sold}
  <2>1. Wrong = {}
    <3> SUFFICES ASSUME Wrong # {} PROVE FALSE
      OBVIOUS
    <3>1. Wrong \in SUBSET Nat
      BY <2>0
    <3>2. PICK n \in Wrong : \A m \in Wrong : n <= m
      <4> HIDE DEF Wrong
      <4> QED BY <3>1, LeastElement
    <3>3. n \in Nat /\ n <= b - a
      BY <2>0, <3>2
    <3>4. CASE n = 0
      <4>1. a .. a + n - 1 = {} /\ a + n = a
        BY <2>0, <3>4
      <4>2. HistoryTotal(p, {}) = 0
        BY SumEmpty DEF HistoryTotal
      <4>3. shown[p][a] \in Shot
        BY <1>1 DEF IInv, Typed
      <4>4. shown[p][a].sold \in Nat
        BY <4>3, BoundAssumption DEF Shot, Sold
      <4>5. HistoryTotal(p, a .. a + n - 1) = 0
        BY <4>1, <4>2, Zenon
      <4> QED BY <3>2, <4>1, <4>4, <4>5
    <3>5. CASE n # 0
      <4>1. PICK m \in Nat : n = m + 1
        BY <3>3, <3>5
      <4>2. m \notin Wrong /\ m \in 0 .. b - a
        <5>1. m \in 0 .. b - a
          BY <2>0, <3>3, <4>1
        <5>2. ~(n <= m)
          BY <4>1
        <5> HIDE DEF Wrong
        <5> QED BY <3>2, <5>1, <5>2
      <4>3. HistoryTotal(p, a .. a + m - 1) = shown[p][a + m].sold - shown[p][a].sold
        BY <4>2
      <4>4. \A d \in a .. a + m : d \in Day /\ row[p][d].reason = "estimated"
        BY <2>0, <3>3, <4>1
      <4>5. HistoryTotal(p, a .. a + m) = shown[p][a + m + 1].sold - shown[p][a].sold
        BY <1>1, <4>3, <4>4, StretchGrows, Zenon
      <4>6. a + n - 1 = a + m /\ a + n = a + m + 1
        BY <2>0, <4>1
      <4> QED BY <3>2, <4>5, <4>6
    <3> QED BY <3>4, <3>5
  <2>2. b - a \in 0 .. b - a /\ a + (b - a) = b /\ a + (b - a) - 1 = b - 1
    BY <2>0
  <2>3. b - a \notin Wrong
    BY <2>1
  <2> QED BY <2>2, <2>3
<1>2. IInv /\ RowsFollowSnapshots => GrowthIsShared
  BY <1>1
<1> QED BY <1>2, Invariance, RowsFollowSnapshotsHolds, PTL

-----------------------------------------------------------------------------
(* Reports out of order, and reports sent again                             *)

\* Two reports of one product that arrive in either order leave the same
\* snapshots and the same baseline, unless they bear the same capture time.
THEOREM ReportsCommute ==
  ASSUME NEW f \in [Day -> Shot], NEW k \in [Day -> KnownPoint],
         NEW a \in Shot, a.at \in Instant, NEW b \in Shot, b.at \in Instant,
         NEW g \in Histories, NEW h \in Histories, a.at # b.at
  PROVE  /\ With(With(f, a), b) = With(With(f, b), a)
         /\ Remembered(Remembered(k, g, a.at), h, b.at) =
              Remembered(Remembered(k, h, b.at), g, a.at)
<1>1. /\ a.at \in Nat /\ b.at \in Nat /\ DayOf[a.at] \in Day /\ DayOf[b.at] \in Day
      /\ \A d \in Day : f[d].at \in Nat /\ k[d].at \in Nat
  BY DayNat, ClockAssumption DEF Shot, KnownPoint, Instant
<1>2. ASSUME NEW e \in [Day -> Shot], NEW s \in Shot, s.at \in Instant
      PROVE  /\ With(e, s) \in [Day -> Shot]
             /\ \A d \in Day : With(e, s)[d] = IF d = DayOf[s.at] /\ s.at >= e[d].at
                                               THEN s ELSE e[d]
  BY <1>2, DayNat DEF With
<1>3. /\ With(f, a) \in [Day -> Shot] /\ With(f, b) \in [Day -> Shot]
      /\ With(With(f, a), b) \in [Day -> Shot] /\ With(With(f, b), a) \in [Day -> Shot]
  BY <1>2
<1>4. ASSUME NEW d \in Day
      PROVE  With(With(f, a), b)[d] = With(With(f, b), a)[d]
  <2>1. /\ With(f, a)[d] = IF d = DayOf[a.at] /\ a.at >= f[d].at THEN a ELSE f[d]
        /\ With(f, b)[d] = IF d = DayOf[b.at] /\ b.at >= f[d].at THEN b ELSE f[d]
    BY <1>2
  <2>2. /\ With(With(f, a), b)[d] =
             IF d = DayOf[b.at] /\ b.at >= With(f, a)[d].at THEN b ELSE With(f, a)[d]
        /\ With(With(f, b), a)[d] =
             IF d = DayOf[a.at] /\ a.at >= With(f, b)[d].at THEN a ELSE With(f, b)[d]
    BY <1>2, <1>3
  <2> QED BY <1>1, <2>1, <2>2
<1>5. ASSUME NEW d \in Day
      PROVE  Remembered(Remembered(k, g, a.at), h, b.at)[d] =
               Remembered(Remembered(k, h, b.at), g, a.at)[d]
  <2>1. PICK kg, kh : kg = Remembered(k, g, a.at) /\ kh = Remembered(k, h, b.at)
    OBVIOUS
  <2>2. /\ kg[d] = IF d \in Cumulative(g) /\ a.at >= k[d].at
                   THEN [at |-> a.at, value |-> g[d].value] ELSE k[d]
        /\ kh[d] = IF d \in Cumulative(h) /\ b.at >= k[d].at
                   THEN [at |-> b.at, value |-> h[d].value] ELSE k[d]
    BY <2>1 DEF Remembered
  <2>3. /\ Remembered(kg, h, b.at)[d] = IF d \in Cumulative(h) /\ b.at >= kg[d].at
                                        THEN [at |-> b.at, value |-> h[d].value] ELSE kg[d]
        /\ Remembered(kh, g, a.at)[d] = IF d \in Cumulative(g) /\ a.at >= kh[d].at
                                        THEN [at |-> a.at, value |-> g[d].value] ELSE kh[d]
    BY DEF Remembered
  <2>4. Remembered(kg, h, b.at)[d] = Remembered(kh, g, a.at)[d]
    BY <1>1, <2>2, <2>3
  <2> QED BY <2>1, <2>4
<1>6. With(With(f, a), b) = With(With(f, b), a)
  BY <1>3, <1>4
<1>7. Remembered(Remembered(k, g, a.at), h, b.at) =
        Remembered(Remembered(k, h, b.at), g, a.at)
  BY <1>5 DEF Remembered
<1> QED BY <1>6, <1>7

\* A calculation repeated changes nothing.
LEMMA MeasuredTwice ==
  ASSUME NEW f \in [Day -> Shot], NEW r \in [Day -> RowRecord], Backed(f, r)
  PROVE  Measured(f, Measured(f, r)) = Measured(f, r)
<1>1. \A d \in Day : (r[d].reason = "imported") <=> (Measured(f, r)[d].reason = "imported")
  BY MeasuredProperties
<1>2. ASSUME NEW d \in Day
      PROVE  Measured(f, Measured(f, r))[d] = Measured(f, r)[d]
  BY <1>1 DEF Measured
<1> QED BY <1>2 DEF Measured

\* Nor does an import repeated, though the baseline now holds its own points.
LEMMA ImportedTwice ==
  ASSUME NEW k \in [Day -> KnownPoint], NEW h \in Histories, NEW t \in Instant
  PROVE  /\ Imported(Remembered(k, h, t), h) = Imported(k, h)
         /\ \A d \in Imported(k, h) : HasBaseline(k, h, d) =>
              Baseline(Remembered(k, h, t), h, d) = Baseline(k, h, d)
         /\ Remembered(Remembered(k, h, t), h, t) = Remembered(k, h, t)
<1> DEFINE k1 == Remembered(k, h, t)
<1>1. \A d \in Day : d \notin Cumulative(h) => k1[d] = k[d]
  BY DEF Remembered
<1>2. \A d : HasBaseline(k1, h, d) <=> HasBaseline(k, h, d)
  BY <1>1 DEF HasBaseline
<1>3. \A d : HasBaseline(k, h, d) => Baseline(k1, h, d) = Baseline(k, h, d)
  BY <1>1 DEF HasBaseline, Baseline
<1>4. Imported(k1, h) = Imported(k, h)
  BY <1>2, <1>3 DEF Imported
<1>5. \A d \in Day : Remembered(k1, h, t)[d] = k1[d]
  <2>1. t \in Nat /\ \A d \in Day : k[d].at \in Nat
    BY ClockAssumption DEF KnownPoint, Instant
  <2> QED BY <2>1 DEF Remembered
<1>6. Remembered(k1, h, t) = k1
  BY <1>5 DEF Remembered
<1> QED BY <1>3, <1>4, <1>6

\* A report that is sent again because its answer was lost stores a second
\* snapshot and calculates once more, but leaves the product's representative
\* snapshots, its baseline and its rows as they are.
THEOREM RepeatedReport ==
  ASSUME NEW f \in [Day -> Shot], NEW k \in [Day -> KnownPoint], NEW r \in [Day -> RowRecord],
         Backed(f, r), NEW shot \in Shot, shot.at \in Instant, shot.kind # "none",
         NEW h \in Histories
  PROVE  LET f1 == With(f, shot)
             k1 == Remembered(k, h, shot.at)
             r1 == Measured(f1, WithHistory(r, k, h))
         IN  /\ With(f1, shot) = f1
             /\ Remembered(k1, h, shot.at) = k1
             /\ Measured(With(f1, shot), WithHistory(r1, k1, h)) = r1
<1> DEFINE f1 == With(f, shot)
           k1 == Remembered(k, h, shot.at)
           w  == WithHistory(r, k, h)
           r1 == Measured(f1, w)
<1>1. f1 \in [Day -> Shot] /\ Taken(f) \subseteq Taken(f1)
  BY WithProperties
<1>2. With(f1, shot) = f1
  <2>1. /\ DayOf[shot.at] \in Day /\ shot.at \in Nat
        /\ f[DayOf[shot.at]].at \in Nat
    BY DayNat, ClockAssumption DEF Shot, Instant
  <2>2. f1 = [f EXCEPT ![DayOf[shot.at]] = IF shot.at >= f[DayOf[shot.at]].at
                                           THEN shot ELSE f[DayOf[shot.at]]]
    BY DEF With
  <2>3. With(f1, shot) = [f1 EXCEPT ![DayOf[shot.at]] = IF shot.at >= f1[DayOf[shot.at]].at
                                                        THEN shot ELSE f1[DayOf[shot.at]]]
    BY DEF With
  <2>4. f1[DayOf[shot.at]] = IF shot.at >= f[DayOf[shot.at]].at
                             THEN shot ELSE f[DayOf[shot.at]]
    BY <2>1, <2>2
  <2> HIDE DEF f1
  <2> QED BY <1>1, <2>1, <2>3, <2>4
<1>3. /\ w \in [Day -> RowRecord] /\ Backed(f1, w)
      /\ \A d \in Imported(k, h) : d \in Day => w[d].reason = "imported"
  <2>1. /\ w \in [Day -> RowRecord]
        /\ \A d \in Day : /\ d \notin Imported(k, h) => w[d] = r[d]
                          /\ d \in Imported(k, h) => w[d].reason = "imported"
    BY WithHistoryProperties
  <2> HIDE DEF w, f1
  <2> QED BY <1>1, <2>1 DEF Backed
<1>4. Remembered(k1, h, shot.at) = k1 /\ Imported(k1, h) = Imported(k, h)
      /\ \A d \in Imported(k, h) : HasBaseline(k, h, d) => Baseline(k1, h, d) = Baseline(k, h, d)
  BY ImportedTwice
<1>5. /\ r1 \in [Day -> RowRecord] /\ Measured(f1, r1) = r1
  <2> HIDE DEF w, f1
  <2> QED BY <1>1, <1>3, MeasuredProperties, MeasuredTwice
<1>6. ASSUME NEW d \in Day
      PROVE  WithHistory(r1, k1, h)[d] = r1[d]
  <2>1. CASE d \notin Imported(k, h)
    BY <1>4, <2>1 DEF WithHistory
  <2>2. CASE d \in Imported(k, h)
    <3>1. r1[d] = w[d]
      BY <1>3, <2>2 DEF Measured
    <3>2. w[d] = IF h[d].type = "daily_increment" THEN Row("imported", h[d].value)
                 ELSE Row("imported", h[d].value - Baseline(k, h, d))
      BY <2>2 DEF WithHistory
    <3>3. WithHistory(r1, k1, h)[d] =
            IF h[d].type = "daily_increment" THEN Row("imported", h[d].value)
            ELSE Row("imported", h[d].value - Baseline(k1, h, d))
      BY <1>4, <2>2 DEF WithHistory
    <3>4. h[d].type # "daily_increment" => HasBaseline(k, h, d)
      BY <2>2 DEF Imported
    <3> QED BY <1>4, <2>2, <3>1, <3>2, <3>3, <3>4
  <2> QED BY <2>1, <2>2
<1>7. WithHistory(r1, k1, h) = r1
  <2>1. WithHistory(r1, k1, h) = [d \in Day |-> WithHistory(r1, k1, h)[d]]
    BY DEF WithHistory
  <2> HIDE DEF r1, k1
  <2> QED BY <1>5, <1>6, <2>1
<1> HIDE DEF f1, k1, r1
<1>8. With(f1, shot) = f1 /\ Remembered(k1, h, shot.at) = k1
      /\ Measured(With(f1, shot), WithHistory(r1, k1, h)) = r1
  BY <1>2, <1>4, <1>5, <1>7
<1> QED BY <1>8 DEF f1, k1, r1, w
=============================================================================
