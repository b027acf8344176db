--------------------------- MODULE MCBrowserWorker ---------------------------
(***************************************************************************)
(* Instances of BrowserWorker for TLC.                                     *)
(***************************************************************************)
EXTENDS BrowserWorker

MCStoreOf == [p \in Product |-> CHOOSE s \in Store : TRUE]

\* Stores and products in any fixed order: the queue only compares items of
\* one kind.
MCPosition ==
  LET order == CHOOSE f \in [Target -> 1 .. Cardinality(Target)] :
                 \A t, u \in Target : f[t] = f[u] => t = u
  IN  order
=============================================================================
