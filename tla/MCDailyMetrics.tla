--------------------------- MODULE MCDailyMetrics ---------------------------
(***************************************************************************)
(* Instances of DailyMetrics for TLC.                                      *)
(***************************************************************************)
EXTENDS DailyMetrics, TLC

\* All products in one store; those named auto were found on its page.
MCStoreOf == [p \in Product |-> CHOOSE s \in Store : TRUE]

\* Three days, the second of them with two capture times; or one time a day.
MCDayOf     == <<1, 2, 2, 3>>
MCDayOfEach == <<1, 2, 3>>

Increment(n) == [type |-> "daily_increment", value |-> n]
Running(n)   == [type |-> "cumulative_total", value |-> n]

\* No history; a daily increment; two running numbers; one that needs the
\* baseline an earlier snapshot left, and may lie below it.
MCHistories == { <<>>, 1 :> Increment(1), (1 :> Running(0)) @@ (2 :> Running(1)),
                 2 :> Running(0) }
=============================================================================
