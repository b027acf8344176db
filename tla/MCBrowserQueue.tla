--------------------------- MODULE MCBrowserQueue ---------------------------
(***************************************************************************)
(* Instances of BrowserQueue for TLC.                                      *)
(***************************************************************************)
EXTENDS BrowserQueue

\* Every product in one store; the first store of a model holds them all.
MCStoreOf == [p \in Product |-> CHOOSE s \in Store : TRUE]

\* Stores and products in any fixed order: the queue only compares items of
\* one kind.
MCPosition ==
  LET order == CHOOSE f \in [Target -> 1 .. Cardinality(Target)] :
                 \A t, u \in Target : f[t] = f[u] => t = u
  IN  order
=============================================================================
