--------------------------- MODULE MCGateAndList ---------------------------
(***************************************************************************)
(* What holds at the collect gate (module Maintenance), and what must      *)
(* happen in the end there and on the way to the film list (module         *)
(* StreamPublish).  The two share no variable, so a behaviour follows the  *)
(* one chosen at its start; their goroutines have the same names, so that  *)
(* the fairness below asks once for a goroutine of the part that is        *)
(* followed.                                                               *)
(***************************************************************************)
EXTENDS Maintenance

CONSTANTS
    Part,
    Film, Run, Preferred, PrefLimit, BackupLimit, Window, Backlog, PageSize,
    MaxPages, MaxFails,
    i, c, d, s, m, w1, w2

VARIABLES
    focus,
    unlisted, page, pages, affected, buf, window, mode, streamAt, listHolder,
    resealed, urgent, fails

streamVars == <<unlisted, page, pages, affected, buf, window, mode, streamAt,
    listHolder, resealed, urgent, fails>>
allVars == <<focus, vars, streamVars>>

Stream == INSTANCE StreamPublish WITH at <- streamAt, publisher <- listHolder

GateStep(step) == focus = "gate" /\ step /\ UNCHANGED <<focus, streamVars>>
ListStep(step) == focus = "stream" /\ step /\ UNCHANGED <<focus, vars>>

Mutexes(g) ==
    \/ GateStep(StartCleaning(g) \/ StartPublishing(g))
    \/ ListStep(Stream!Locks(g))

PartInit == focus \in Part /\ Init /\ Stream!Init

PartSpec ==
    /\ PartInit
    /\ [][GateStep(Next) \/ ListStep(Stream!Next)]_allVars
    /\ WF_allVars(GateStep(Send))
    /\ WF_allVars(GateStep(Loops) \/ ListStep(Stream!Tick))
    /\ \A g \in Thread :
        WF_allVars(GateStep(Runs(g))) /\ WF_allVars(GateStep(GiveUp(g)))
    /\ \A g \in Clear :
        /\ WF_allVars(GateStep(Drains(g) \/ Publishes(g)))
        /\ SF_allVars(GateStep(StartCleaning(g) \/ StartPublishing(g)))
    /\ \A g \in Deleter : WF_allVars(GateStep(Publishes(g)))
    /\ \A g \in Run : WF_allVars(ListStep(Stream!Works(g)))
    /\ \A g \in Run \cup {Ticker} :
        /\ WF_allVars(GateStep(Publishes(g)) \/ ListStep(Stream!Drains(g)))
        /\ SF_allVars(Mutexes(g))

\* Every film a run wrote gets into the list visitors read, though windows
\* fail and are put back and several processes settle at once.
FilmsGetListed == Stream!FilmsGetListed
=============================================================================
