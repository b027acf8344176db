---------------------------- MODULE DailyMetrics ----------------------------
(***************************************************************************)
(* Daily sales: app/services/metrics.py, historical_metrics.py, and the    *)
(* four paths that store a snapshot and recompute: a channel observation   *)
(* (extension or manual entry), a store page, the collection pass of       *)
(* collection_runs.py (scheduled or by button) and the collection of one   *)
(* product.                                                                *)
(*                                                                         *)
(* Snapshots are only ever added and read back in the order of capture     *)
(* time and id.  All the calculation keeps of them is the last one of each *)
(* day, and the last one to name a date of imported history; the state     *)
(* holds just these.  A new snapshot has the largest id, so it replaces    *)
(* another exactly when it was not captured before it.                     *)
(***************************************************************************)
EXTENDS Naturals, FiniteSets, FiniteSetsExt

CONSTANTS
  Store, Product,
  StoreOf,       \* the store of each product
  Discovered,    \* products found on a store page, not added by hand
  LastInstant,   \* bound: capture times are 1..LastInstant
  DayOf,         \* the local date of each of them
  MaxSold,       \* bound on cumulative numbers
  MaxSnapshots,  \* bound on the snapshots stored, store pages counting once
  Histories      \* the imported histories a channel may send: dates to points

Instant == 1 .. LastInstant
Day     == {DayOf[t] : t \in Instant}
Sold    == 0 .. MaxSold
Point   == [type : {"daily_increment", "cumulative_total"}, value : Sold]

ASSUME ProductAssumption    == IsFiniteSet(Product)
ASSUME StoreOfAssumption    == StoreOf \in [Product -> Store]
ASSUME DiscoveredAssumption == Discovered \subseteq Product
ASSUME ClockAssumption ==
  /\ LastInstant \in Nat \ {0}
  /\ DayOf \in [Instant -> Nat]
  /\ \A t, u \in Instant : t <= u => DayOf[t] <= DayOf[u]
ASSUME BoundAssumption == MaxSold \in Nat /\ MaxSnapshots \in Nat
ASSUME HistoryAssumption ==
  \A h \in Histories : DOMAIN h \subseteq Day /\ \A d \in DOMAIN h : h[d] \in Point

VARIABLES
  now,     \* the clock
  active,  \* products that are monitored
  shown,   \* product -> day -> the day's representative snapshot
  known,   \* product -> day -> last imported cumulative point
  row,     \* product -> day -> ProductDailyMetric
  total,   \* store -> day -> StoreDailyMetric
  pass,    \* the collection pass under way
  owed,    \* products with a snapshot not yet followed by a calculation (history)
  taken    \* snapshots stored (bound)

vars == <<now, active, shown, known, row, total, pass, owed, taken>>

\* What a snapshot tells the calculation: the number sold, that it was missing,
\* or that parsing failed ("none": no snapshot); and where it was taken.
Shot  == [at : Instant \cup {0}, kind : {"none", "sold", "missing", "failed"},
          sold : Sold, page : BOOLEAN]
NoShot == [at |-> 0, kind |-> "none", sold |-> 0, page |-> FALSE]

Reason == {"none", "no_previous_snapshot", "non_consecutive_days",
           "snapshot_parse_failed", "cumulative_sold_missing",
           "cumulative_sold_decreased", "estimated", "imported"}
Row(reason, sales) == [reason |-> reason, sales |-> sales]
Estimable(r)       == r.reason \in {"estimated", "imported"}

Total   == [present : BOOLEAN, sales : Nat, estimable : Nat, unavailable : Nat]
NoTotal == [present |-> FALSE, sales |-> 0, estimable |-> 0, unavailable |-> 0]

\* run_collection_cycle: products to fetch, products to calculate, and the
\* store days to add up.
Pass   == [fetch : SUBSET Product, measure : SUBSET Product, sums : SUBSET (Store \X Day)]
NoPass == [fetch |-> {}, measure |-> {}, sums |-> {}]

TypeOK ==
  /\ now \in Instant
  /\ active \subseteq Product
  /\ shown \in [Product -> [Day -> Shot]]
  /\ known \in [Product -> [Day -> [at : Instant \cup {0}, value : Sold]]]
  /\ row \in [Product -> [Day -> [reason : Reason, sales : Sold]]]
  /\ total \in [Store -> [Day -> Total]]
  /\ pass \in Pass
  /\ owed \subseteq Product
  /\ taken \in 0 .. MaxSnapshots

Init ==
  /\ now = 1
  /\ active = Product
  /\ shown = [p \in Product |-> [d \in Day |-> NoShot]]
  /\ known = [p \in Product |-> [d \in Day |-> [at |-> 0, value |-> 0]]]
  /\ row = [p \in Product |-> [d \in Day |-> Row("none", 0)]]
  /\ total = [s \in Store |-> [d \in Day |-> NoTotal]]
  /\ pass = NoPass
  /\ owed = {}
  /\ taken = 0

-----------------------------------------------------------------------------
(* calculate_product_daily_metrics, as functions of a product's             *)
(* representative snapshots f and its rows r.                               *)

Taken(f) == {d \in Day : f[d].kind # "none"}

\* _save_snapshot_result: the snapshot is the last of its day unless one with
\* a later capture time is there.
With(f, shot) ==
  [f EXCEPT ![DayOf[shot.at]] = IF shot.at >= @.at THEN shot ELSE @]

\* Faulty: a number that went down counts as no sales.
ComparedClamped(start, end) ==
  IF start.kind = "failed" \/ end.kind = "failed" THEN Row("snapshot_parse_failed", 0)
  ELSE IF start.kind = "missing" \/ end.kind = "missing" THEN Row("cumulative_sold_missing", 0)
  ELSE Row("estimated", IF end.sold < start.sold THEN 0 ELSE end.sold - start.sold)

\* Faulty: the difference is taken the wrong way round.
ComparedBackwards(start, end) ==
  IF start.kind = "failed" \/ end.kind = "failed" THEN Row("snapshot_parse_failed", 0)
  ELSE IF start.kind = "missing" \/ end.kind = "missing" THEN Row("cumulative_sold_missing", 0)
  ELSE IF end.sold < start.sold THEN Row("cumulative_sold_decreased", 0)
  ELSE Row("estimated", start.sold - end.sold)

Compared(start, end) ==
  IF start.kind = "failed" \/ end.kind = "failed" THEN Row("snapshot_parse_failed", 0)
  ELSE IF start.kind = "missing" \/ end.kind = "missing" THEN Row("cumulative_sold_missing", 0)
  ELSE IF end.sold < start.sold THEN Row("cumulative_sold_decreased", 0)
  ELSE Row("estimated", end.sold - start.sold)

\* The days that start an interval.
Starts(f) == {d \in Taken(f) : \E e \in Taken(f) : e > d}

\* The date of the last row the calculation returns (metrics[-1]).
LastMeasured(f) ==
  {d \in Taken(f) : \/ Taken(f) = {d}
                    \/ d \in Starts(f) /\ \A e \in Starts(f) : e <= d}

\* Faulty: only the last interval is calculated again.
MeasuredLast(f, r) ==
  [d \in Day |->
     IF d \notin LastMeasured(f) \/ r[d].reason = "imported" THEN r[d]
     ELSE IF Taken(f) = {d} THEN Row("no_previous_snapshot", 0)
     ELSE IF d + 1 \in Taken(f) THEN Compared(f[d], f[d + 1])
     ELSE Row("non_consecutive_days", 0)]

\* Faulty: imported rows are calculated over.
MeasuredOver(f, r) ==
  [d \in Day |->
     IF Taken(f) = {d} THEN Row("no_previous_snapshot", 0)
     ELSE IF d \notin Starts(f) THEN r[d]
     ELSE IF d + 1 \in Taken(f) THEN Compared(f[d], f[d + 1])
     ELSE Row("non_consecutive_days", 0)]

Measured(f, r) ==
  [d \in Day |->
     IF r[d].reason = "imported" THEN r[d]
     ELSE IF Taken(f) = {d} THEN Row("no_previous_snapshot", 0)
     ELSE IF d \notin Starts(f) THEN r[d]
     ELSE IF d + 1 \in Taken(f) THEN Compared(f[d], f[d + 1])
     ELSE Row("non_consecutive_days", 0)]

-----------------------------------------------------------------------------
(* import_historical_sales                                                  *)

Cumulative(h) == {d \in DOMAIN h : h[d].type = "cumulative_total"}

\* The baseline kept in the raw snapshots, once the one with h is stored.
Remembered(k, h, t) ==
  [d \in Day |-> IF d \in Cumulative(h) /\ t >= k[d].at
                 THEN [at |-> t, value |-> h[d].value] ELSE k[d]]

\* Whether, and from which number, a cumulative point of h continues the day
\* before: a point of h itself, or else what earlier snapshots said.
HasBaseline(k, h, d) == d > 0 /\ (d - 1 \in Cumulative(h) \/ (d - 1 \in Day /\ k[d - 1].at > 0))
Baseline(k, h, d)    == IF d - 1 \in Cumulative(h) THEN h[d - 1].value ELSE k[d - 1].value

\* The dates whose rows the import writes.
Imported(k, h) ==
  {d \in DOMAIN h :
     \/ h[d].type = "daily_increment"
     \/ HasBaseline(k, h, d) /\ h[d].value >= Baseline(k, h, d)}

WithHistory(r, k, h) ==
  [d \in Day |->
     IF d \notin Imported(k, h) THEN r[d]
     ELSE IF h[d].type = "daily_increment" THEN Row("imported", h[d].value)
     ELSE Row("imported", h[d].value - Baseline(k, h, d))]

-----------------------------------------------------------------------------
(* calculate_store_daily_metric, from all rows rr and the active products   *)

SalesOn(ps, rr, d) == SumFunctionOnSet([p \in ps |-> rr[p][d].sales], ps)

Summed(s, d, rr, act) ==
  LET scope == {p \in act : StoreOf[p] = s}
      good  == {p \in scope : Estimable(rr[p][d])}
  IN  [present     |-> TRUE,
       sales       |-> SalesOn(good, rr, d),
       estimable   |-> Cardinality(good),
       unavailable |-> Cardinality(scope \ good)]

\* Adding up some days of a store with the rows and products of the new state.
AddUp(s, ds) ==
  total' = [total EXCEPT ![s] =
              [d \in Day |-> IF d \in ds THEN Summed(s, d, row', active') ELSE total[s][d]]]

-----------------------------------------------------------------------------
(* The paths that store snapshots                                           *)

Results(t, page) ==
  {[at |-> t, kind |-> "sold", sold |-> n, page |-> page] : n \in Sold}
    \cup {[at |-> t, kind |-> "missing", sold |-> 0, page |-> page]}

\* The plain HTTP collector may also fail.
Fetched(t) ==
  Results(t, FALSE) \cup {[at |-> t, kind |-> "failed", sold |-> 0, page |-> FALSE]}

OwnDays(f, k, h) == Imported(k, h) \cup LastMeasured(f)

\* _save_channel_observation, one commit.  captured_at may lie in the past.
Observe(p, t, h) ==
  /\ p \in active
  /\ t <= now
  /\ taken < MaxSnapshots
  /\ \E shot \in Results(t, FALSE) :
       /\ shown' = [shown EXCEPT ![p] = With(@, shot)]
       /\ known' = [known EXCEPT ![p] = Remembered(@, h, t)]
       /\ row' = [row EXCEPT ![p] = Measured(shown'[p], WithHistory(@, known[p], h))]
  /\ owed' = owed \ {p}
  /\ taken' = taken + 1
  /\ UNCHANGED <<now, active, pass>>
  /\ AddUp(StoreOf[p], OwnDays(shown'[p], known[p], h))

\* _save_store_observation and discover_store_products, one commit: the
\* products listed get a snapshot and their rows, automatic ones come into or
\* fall out of the pool, and the store's row of today is added up.
StorePage(s, seen) ==
  /\ seen # {}
  /\ taken < MaxSnapshots
  /\ active' = (active \cup (seen \cap Discovered))
                 \ {p \in Discovered : StoreOf[p] = s /\ p \notin seen}
  /\ \E shots \in [seen -> Results(now, TRUE)] :
       shown' = [p \in Product |-> IF p \in seen THEN With(shown[p], shots[p]) ELSE shown[p]]
  /\ row' = [p \in Product |-> IF p \in seen THEN Measured(shown'[p], row[p]) ELSE row[p]]
  /\ owed' = owed \ seen
  /\ taken' = taken + 1
  /\ UNCHANGED <<now, known, pass>>
  /\ AddUp(s, {DayOf[now]})

\* run_collection_cycle begins, by button for all products, at night without
\* those that have a valid snapshot of today, or for one product.  A product
\* whose last snapshot of today is not valid may have an earlier one that is.
PassStarts(ps) ==
  /\ pass = NoPass
  /\ ps # {}
  /\ \/ ps = active
     \/ \E p \in active : ps = {p}
     \/ LET today(p) == shown[p][DayOf[now]].kind
        IN  \E skip \in SUBSET {p \in active : today(p) # "none"} :
              /\ {p \in active : today(p) = "sold"} \subseteq skip
              /\ ps = active \ skip
  /\ pass' = [NoPass EXCEPT !.fetch = ps]
  /\ UNCHANGED <<now, active, shown, known, row, total, owed, taken>>

\* collect_product_snapshot: each snapshot is committed at once.
PassFetches(p) ==
  /\ p \in pass.fetch
  /\ taken < MaxSnapshots
  /\ \E shot \in Fetched(now) : shown' = [shown EXCEPT ![p] = With(@, shot)]
  /\ pass' = [pass EXCEPT !.fetch = @ \ {p}, !.measure = @ \cup {p}]
  /\ owed' = owed \cup {p}
  /\ taken' = taken + 1
  /\ UNCHANGED <<now, active, known, row, total>>

\* Faulty: the day of the pass is added up, as the store pages do.
DueToday(f) == {DayOf[now]}

DueDays(f) == LastMeasured(f)

\* Then, product by product, the rows are calculated and committed.
PassMeasures(p) ==
  /\ pass.fetch = {}
  /\ p \in pass.measure
  /\ row' = [row EXCEPT ![p] = Measured(shown[p], @)]
  /\ pass' = [pass EXCEPT !.measure = @ \ {p},
                          !.sums = @ \cup ({StoreOf[p]} \X DueDays(shown[p]))]
  /\ owed' = owed \ {p}
  /\ UNCHANGED <<now, active, shown, known, total, taken>>

\* Last, the stores are added up.
PassSums(s, d) ==
  /\ pass.fetch = {} /\ pass.measure = {}
  /\ <<s, d>> \in pass.sums
  /\ pass' = [pass EXCEPT !.sums = @ \ {<<s, d>>}]
  /\ UNCHANGED <<now, active, shown, known, row, owed, taken>>
  /\ AddUp(s, {d})

\* The process stops: what was committed stays.
PassCrashes ==
  /\ pass # NoPass
  /\ pass' = NoPass
  /\ UNCHANGED <<now, active, shown, known, row, total, owed, taken>>

\* update_product: monitoring is switched on or off; nothing is recalculated.
SwitchProduct(p) ==
  /\ active' = IF p \in active THEN active \ {p} ELSE active \cup {p}
  /\ UNCHANGED <<now, shown, known, row, total, pass, owed, taken>>

Tick ==
  /\ now < LastInstant
  /\ now' = now + 1
  /\ UNCHANGED <<active, shown, known, row, total, pass, owed, taken>>

Next ==
  \/ \E p \in Product, t \in Instant, h \in Histories : Observe(p, t, h)
  \/ \E s \in Store : \E seen \in SUBSET {p \in Product : StoreOf[p] = s} : StorePage(s, seen)
  \/ \E ps \in SUBSET Product : PassStarts(ps)
  \/ \E p \in Product : PassFetches(p) \/ PassMeasures(p) \/ SwitchProduct(p)
  \/ \E s \in Store, d \in Day : PassSums(s, d)
  \/ PassCrashes
  \/ Tick

Spec == Init /\ [][Next]_vars

-----------------------------------------------------------------------------
(* Properties                                                               *)

Consecutive(p, d) == {d, d + 1} \subseteq Taken(shown[p])

\* README.md, the rules of estimation: a day has a public estimate exactly when
\* the last snapshots of it and of the next day both show a number and it did
\* not go down, and the estimate is the difference.  Back-dated snapshots,
\* failed later ones and crashed passes leave nothing behind once the product's
\* rows are calculated again.
RowsFollowSnapshots ==
  \A p \in Product \ owed, d \in Day :
    LET first == shown[p][d]
        after == shown[p][d + 1]
        good  == Consecutive(p, d) /\ first.kind = "sold" /\ after.kind = "sold"
                   /\ first.sold <= after.sold
    IN  row[p][d].reason # "imported" =>
          /\ (row[p][d].reason = "estimated") <=> good
          /\ good => row[p][d].sales = after.sold - first.sold

\* The dashboard's total over several days (_product_monitor_rows).
HistoryTotal(p, ds) ==
  SumFunctionOnSet([d \in ds |-> row[p][d].sales], {d \in ds : Estimable(row[p][d])})

\* The estimates of a stretch of days share out the growth of the public number
\* between its ends: no sale is counted twice or lost.
GrowthIsShared ==
  \A p \in Product \ owed, a, b \in Day :
    (a < b /\ \A d \in a .. b - 1 : d \in Day /\ row[p][d].reason = "estimated")
      => HistoryTotal(p, a .. b - 1) = shown[p][b].sold - shown[p][a].sold

\* A visible historical value is never replaced by an estimate or taken away.
ImportedStays ==
  [][ \A p \in Product, d \in Day :
        row[p][d].reason = "imported" => row'[p][d].reason = "imported" ]_vars

\* A monitored product gets an imported row, or a new estimate for its last day.
Reported(p, d) ==
  /\ row'[p][d] # row[p][d]
  /\ p \in active'
  /\ \/ row'[p][d].reason = "imported"
     \/ row'[p][d].reason = "estimated" /\ d \in LastMeasured(shown'[p])

BroughtUpToDate(s, d) ==
  total'[s][d] = Summed(s, d, row', active') \/ <<s, d>> \in pass'.sums

\* A step that reports a day's sales brings the store's row of that day up to
\* date, or leaves it due in the pass under way: for history, and for estimates
\* that end with a snapshot of the product's own page, whichever path took it.
ProductPagesReachTotals ==
  [][ \A p \in Product, d \in Day :
        Reported(p, d) /\ (row'[p][d].reason = "estimated" => ~shown'[p][d + 1].page)
          => BroughtUpToDate(StoreOf[p], d) ]_vars

\* README.md:3 and 13: sales are estimated and summed over the store's monitored
\* products, so every report should reach the store's row.
EstimatesReachTotals ==
  [][ \A p \in Product, d \in Day :
        Reported(p, d) => BroughtUpToDate(StoreOf[p], d) ]_vars
=============================================================================
