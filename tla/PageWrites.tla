----------------------------- MODULE PageWrites -----------------------------
(***************************************************************************)
(* What the write lane promises to CollectPages about the pages it hands   *)
(* over: a page is refused, or it is accepted and then either written or   *)
(* given back as canceled, once; two pages of one source are never written *)
(* at the same time; and no accepted page is forgotten.                    *)
(***************************************************************************)
CONSTANTS Page, SourceOf

VARIABLE state

State == {"new", "queued", "writing", "written", "canceled", "rejected"}

Init == state = [p \in Page |-> "new"]

Move(p, from, to) == state[p] = from /\ state' = [state EXCEPT ![p] = to]

Accept(p) == Move(p, "new", "queued")
Reject(p) == Move(p, "new", "rejected")
Cancel(p) == Move(p, "queued", "canceled")
Start(p) ==
    /\ \A q \in Page : SourceOf[q] = SourceOf[p] => state[q] # "writing"
    /\ Move(p, "queued", "writing")
Finish(p) == Move(p, "writing", "written")

Next == \E p \in Page : \/ Accept(p) \/ Reject(p) \/ Cancel(p)
                        \/ Start(p) \/ Finish(p)

Safety == Init /\ [][Next]_state

Fairness == \A p \in Page : SF_state(Start(p)) /\ WF_state(Finish(p))

Spec == Safety /\ Fairness
=============================================================================
