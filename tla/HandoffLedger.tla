---------------------------- MODULE HandoffLedger ----------------------------
(***************************************************************************)
(* What handing products over to Dianxiaomi promises to the people at the  *)
(* dashboard, with no requests, leases, worker ids or polls: an ordered    *)
(* handoff is open until a browser settles it or a person cancels it; a    *)
(* browser works on one handoff at a time, which nobody else works on; a   *)
(* handoff succeeds only after its link was submitted; success and         *)
(* cancellation are final, and a failed handoff is opened again only when  *)
(* nobody works on it.                                                     *)
(***************************************************************************)
CONSTANTS
  Browser,  \* those who work on handoffs
  Handoff   \* handoffs that may be ordered

Stage == {"absent", "open", "succeeded", "failed", "canceled"}

VARIABLES
  stage,     \* handoff -> how far it has come
  held,      \* browser -> the handoffs it works on
  submitted  \* handoffs whose link was submitted

ledgerVars == <<stage, held, submitted>>

LedgerTypeOK ==
  /\ stage \in [Handoff -> Stage]
  /\ held \in [Browser -> SUBSET Handoff]
  /\ submitted \subseteq Handoff

LedgerInit ==
  /\ stage = [h \in Handoff |-> "absent"]
  /\ held = [b \in Browser |-> {}]
  /\ submitted = {}

Unheld(h) == \A b \in Browser : h \notin held[b]

\* Several handoffs may be ordered at once.
Order(hs) ==
  /\ \A h \in hs : stage[h] = "absent"
  /\ stage' = [h \in Handoff |-> IF h \in hs THEN "open" ELSE stage[h]]
  /\ UNCHANGED <<held, submitted>>

Take(b, h) ==
  /\ held[b] = {}
  /\ stage[h] = "open" /\ Unheld(h)
  /\ held' = [held EXCEPT ![b] = {h}]
  /\ UNCHANGED <<stage, submitted>>

\* What a browser was given it may submit, canceled meanwhile or not.
Submit(b) ==
  /\ submitted' = submitted \cup held[b]
  /\ UNCHANGED <<stage, held>>

LetGo(b) ==
  /\ held' = [held EXCEPT ![b] = {}]
  /\ UNCHANGED <<stage, submitted>>

\* The work on an open handoff is over, for better or worse.
Settle(h, s) ==
  /\ stage[h] = "open"
  /\ s = "succeeded" => h \in submitted
  /\ stage' = [stage EXCEPT ![h] = s]
  /\ held' = [b \in Browser |-> held[b] \ {h}]
  /\ UNCHANGED submitted

Cancel(h) ==
  /\ stage[h] = "open"
  /\ stage' = [stage EXCEPT ![h] = "canceled"]
  /\ UNCHANGED <<held, submitted>>

Reopen(h) ==
  /\ stage[h] = "failed" /\ Unheld(h)
  /\ stage' = [stage EXCEPT ![h] = "open"]
  /\ UNCHANGED <<held, submitted>>

LedgerNext ==
  \/ \E hs \in SUBSET Handoff : Order(hs)
  \/ \E b \in Browser : Submit(b) \/ LetGo(b) \/ \E h \in Handoff : Take(b, h)
  \/ \E h \in Handoff : \/ Cancel(h) \/ Reopen(h)
                        \/ \E s \in {"succeeded", "failed"} : Settle(h, s)

LedgerSpec == LedgerInit /\ [][LedgerNext]_ledgerVars
=============================================================================
