----------------------------- MODULE WorkLedger -----------------------------
(***************************************************************************)
(* What the daily browser collection promises to whoever looks at it, with *)
(* no leases, attempts, counters or phases: each day has a list of work.   *)
(* Store work is listed when the day is planned, product work is listed    *)
(* once, when the last store is done; work is handed out one item at a     *)
(* time and never while an item is held for a person; done work stays      *)
(* done; the day is closed exactly when all the work listed is done.       *)
(***************************************************************************)
EXTENDS Naturals

CONSTANTS
  Store,    \* targets of the first part of a day
  Product,  \* targets of the second part
  LastDay   \* days are 1..LastDay

Target == Store \cup Product
Day    == 1 .. LastDay

WorkState == {"unlisted", "todo", "doing", "held", "done"}

VARIABLES
  planned,  \* the days that have a list of work
  closed,   \* the days reported as complete
  work      \* the state of each target on each day

ledgerVars == <<planned, closed, work>>

LedgerTypeOK ==
  /\ planned \subseteq Day
  /\ closed \subseteq Day
  /\ work \in [Day -> [Target -> WorkState]]

LedgerInit ==
  /\ planned = {}
  /\ closed = {}
  /\ work = [d \in Day |-> [t \in Target |-> "unlisted"]]

Unfinished(w) == {t \in Target : w[t] \in {"todo", "doing", "held"}}

\* How one piece of work may move in one step.
Moves ==
  { <<"unlisted", "unlisted">>, <<"todo", "todo">>, <<"todo", "doing">>,
    <<"doing", "doing">>, <<"doing", "todo">>, <<"doing", "held">>,
    <<"doing", "done">>, <<"held", "held">>, <<"held", "todo">>,
    <<"held", "done">>, <<"done", "done">> }

\* Product work is listed by the step that leaves no store unfinished.
ListsProducts(old, new) ==
  /\ Unfinished(old) \cap Store # {}
  /\ Unfinished(new) \cap Store = {}

Listed(old, new, t) ==
  /\ t \in Product
  /\ ListsProducts(old, new)
  /\ old[t] = "unlisted"
  /\ new[t] \in {"todo", "doing"}

Started(old, new) == {t \in Target : new[t] = "doing" /\ old[t] # "doing"}

LegalStep(old, new) ==
  /\ \A t \in Target : <<old[t], new[t]>> \in Moves \/ Listed(old, new, t)
  /\ \A t, u \in Started(old, new) : t = u
  /\ Started(old, new) # {} => \A t \in Target : new[t] # "held"

\* The list of a day is made: the stores to visit, nothing else.
Plan(d) ==
  /\ d \notin planned
  /\ planned' = planned \cup {d}
  /\ \E s \in SUBSET Store :
       /\ work' = [work EXCEPT ![d] =
                     [t \in Target |-> IF t \in s THEN "todo" ELSE "unlisted"]]
       /\ closed' = IF s = {} THEN closed \cup {d} ELSE closed

\* Work of a planned day moves; the day closes with its last piece of work.
Progress(d) ==
  /\ d \in planned \ closed
  /\ work' \in [Day -> [Target -> WorkState]]
  /\ LegalStep(work[d], work'[d])
  /\ \A e \in Day \ {d} : work'[e] = work[e]
  /\ closed' = IF Unfinished(work'[d]) = {} THEN closed \cup {d} ELSE closed
  /\ UNCHANGED planned

LedgerNext == \E d \in Day : Plan(d) \/ Progress(d)

LedgerSpec == LedgerInit /\ [][LedgerNext]_ledgerVars
=============================================================================
