-------------------------- MODULE MCFetchAndWrite --------------------------
(***************************************************************************)
(* What must happen in the end to the pages of a source (module PageFetch) *)
(* and to whoever writes a film (module FilmWriter), and that each page    *)
(* counts once.  The two share no variable, so a behaviour follows the one *)
(* chosen at its start; their goroutines have the same names, so that the  *)
(* fairness below asks once for a goroutine of the part that is followed.  *)
(***************************************************************************)
EXTENDS PageFetch

CONSTANTS
    Part, Source, Vod, Key, MaxTime, MaxMid, Requests,
    s, g1, g2, w1, w2

VARIABLES
    focus, film, lines, mapping, vodTime, nextMid, locks, writer, requests, stored

filmVars == <<film, lines, mapping, vodTime, nextMid, locks, writer, requests,
              stored>>
allVars == <<focus, vars, filmVars>>

Films == INSTANCE FilmWriter WITH
    Writer <- Worker, KeysOf <- [v \in Vod |-> {v}]

FetchStep(step) == focus = "fetch" /\ step /\ UNCHANGED <<focus, filmVars>>
FilmStep(step) == focus = "film" /\ step /\ UNCHANGED <<focus, vars>>

PartInit ==
    /\ focus \in Part /\ Init /\ Films!Init
    /\ focus # "film" => film = <<>>

PartSpec ==
    /\ PartInit
    /\ [][FetchStep(Next) \/ FilmStep(Films!Next)]_allVars
    /\ WF_allVars(FetchStep(Feed)) /\ WF_allVars(FetchStep(CoolingEnds))
    /\ WF_allVars(FetchStep(Loop))
    /\ \A g \in Page :
        /\ WF_allVars(FetchStep(StartWrite(g)))
        /\ WF_allVars(FetchStep(EndWrite(g)))
    /\ \A w \in Worker :
        /\ WF_allVars(\/ FetchStep(WorkerStep(w))
                      \/ FilmStep(Films!Writes(w) \/ Films!Unlocks(w)))
        /\ SF_allVars(FetchStep(Turn(w) \/ Slot(w)) \/ FilmStep(Films!Takes(w)))

\* CollectPages returns, whoever fails, stops or gives up the source.
PagesReturn == focus = "fetch" => CollectReturns

\* Every writer of films gets its locks and ends.
WritersEnd == Films!WritersEnd
=============================================================================
