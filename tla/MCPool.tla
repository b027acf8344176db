------------------------------- MODULE MCPool -------------------------------
(***************************************************************************)
(* Instances of Pool for TLC: rows are pairs of a store and an id.         *)
(***************************************************************************)
EXTENDS Pool

\* Two products of one store; with a twin of one of them in another store.
MCProduct == {<<"s1", "i1">>, <<"s1", "i2">>}
MCTwins   == MCProduct \cup {<<"s2", "i1">>}

MCStore   == {p[1] : p \in Product}
MCStoreOf == [p \in Product |-> p[1]]
MCIdOf    == [p \in Product |-> p[2]]
=============================================================================
