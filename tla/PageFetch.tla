----------------------------- MODULE PageFetch -----------------------------
(***************************************************************************)
(* The collection of the pages of one source: CollectPages with its feeder, *)
(* its workers, the retries, the cooldown and the global slots of a request *)
(* (src/server/internal/spider: fetcher/pages.go, fetcher/fetcher.go,      *)
(* collect_limiter.go).                                                    *)
(*                                                                         *)
(* A fetched page is handed to the write lane, which is here what it       *)
(* promises, PageWrites (module WriteLane implements it).  The lane reports *)
(* each page it is done with to a channel, a report that finds the channel *)
(* full is delivered by a goroutine of its own, and the loop that counts   *)
(* pages ends when the channel is closed.                                  *)
(*                                                                         *)
(* The order of the pages, the times between retries and the length of the *)
(* cooldown are left out; the count of requests that may fail is bounded   *)
(* by the retries.                                                         *)
(***************************************************************************)
EXTENDS Integers, FiniteSets

CONSTANTS
    Page,      \* the pages asked for
    Worker,    \* CollectPageWorkers
    NoPage,
    Slots,     \* CollectFetchInFlight
    Retries,   \* maxPageFetchRetries
    FailLimit, \* sourceStartupFailLimit
    Capacity,  \* of writeCompletions
    MaxListed  \* maxRecordedFailedPages

\* A source has finitely many pages, and several workers fetch them.
ASSUME FetchAssumption ==
    /\ IsFiniteSet(Page) /\ IsFiniteSet(Worker) /\ Worker # {}
    /\ NoPage \notin Page
    /\ {Slots, FailLimit, Capacity} \subseteq Nat \ {0}
    /\ {Retries, MaxListed} \subseteq Nat

VARIABLES
    unread,   \* pages the feeder has not sent
    channel,  \* pages sent and not taken
    fed,      \* the feeder has closed the channel
    at, mine, \* where each worker is, and its page
    tries,    \* how many retries it has made of it
    free,     \* free request slots
    cooling,  \* nextAllowedAt lies ahead
    canceled, \* the run's context
    stopping, \* a user stopped the run
    proven,   \* fetchOK > 0
    fails,    \* fetchFails
    unproven, \* stopErr
    write,    \* the pages at the lane
    saved,    \* the pages whose rows are in the database
    reports,  \* writeCompletions: pages with how their write ended
    late,     \* the goroutines of reports that found it full
    closed,   \* writeCompletions is closed
    success, failed, listed, \* stats, with its failedPages
    result    \* what CollectPages returned

fetchVars == <<unread, channel, fed>>
workVars == <<at, mine, tries, free, cooling>>
runVars == <<canceled, stopping, proven, fails, unproven>>
writeVars == <<write, saved, reports, late, closed>>
statVars == <<success, failed, listed>>
vars == <<fetchVars, workVars, runVars, writeVars, statVars, result>>

Lane == INSTANCE PageWrites WITH
    SourceOf <- [g \in Page |-> NoPage], state <- write

Outcome == {"saved", "lost", "canceled"}
Report == [page : Page, end : Outcome]

TypeOK ==
    /\ unread \subseteq Page /\ channel \subseteq Page
    /\ fed \in BOOLEAN /\ closed \in BOOLEAN
    /\ at \in [Worker -> {"idle", "turn", "slot", "call", "fail", "stop",
                          "submit", "left"}]
    /\ mine \in [Worker -> Page \cup {NoPage}]
    /\ tries \in [Worker -> 0 .. Retries]
    /\ free \in 0 .. Slots
    /\ cooling \in BOOLEAN /\ proven \in BOOLEAN
    /\ canceled \in BOOLEAN /\ stopping \in BOOLEAN /\ unproven \in BOOLEAN
    /\ fails \in 0 .. Cardinality(Page)
    /\ write \in [Page -> Lane!State]
    /\ saved \subseteq Page
    /\ reports \subseteq Report /\ Cardinality(reports) <= Capacity
    /\ late \subseteq Report
    /\ success \subseteq Page /\ failed \subseteq Page /\ listed \subseteq failed
    /\ result \in {"none", "done", "failed pages", "unproven", "canceled"}
    \* Every slot is held by a worker that is at its request.
    /\ free = Slots - Cardinality({w \in Worker : at[w] = "call"})

Init ==
    /\ unread = Page /\ channel = {} /\ fed = FALSE
    /\ at = [w \in Worker |-> "idle"] /\ mine = [w \in Worker |-> NoPage]
    /\ tries = [w \in Worker |-> 0]
    /\ free = Slots /\ cooling = FALSE
    /\ canceled = FALSE /\ stopping = FALSE
    /\ proven = FALSE /\ fails = 0 /\ unproven = FALSE
    /\ Lane!Init
    /\ saved = {} /\ reports = {} /\ late = {} /\ closed = FALSE
    /\ success = {} /\ failed = {} /\ listed = {}
    /\ result = "none"

-----------------------------------------------------------------------------
Go(w, there) == at' = [at EXCEPT ![w] = there]

Feed ==
    /\ ~fed
    /\ \/ \E g \in unread :
            /\ Cardinality(channel) < Cardinality(Worker)
            /\ unread' = unread \ {g} /\ channel' = channel \cup {g}
            /\ UNCHANGED fed
       \/ /\ canceled \/ unread = {}
          /\ fed' = TRUE
          /\ UNCHANGED <<unread, channel>>
    /\ UNCHANGED <<workVars, runVars, writeVars, statVars, result>>

TakePage(w) ==
    /\ at[w] = "idle"
    /\ \E g \in channel :
        /\ channel' = channel \ {g}
        /\ mine' = [mine EXCEPT ![w] = g]
    /\ tries' = [tries EXCEPT ![w] = 0]
    /\ Go(w, "turn")
    /\ UNCHANGED <<unread, fed, free, cooling, runVars, writeVars, statVars,
                   result>>

\* The context is done, which a select may prefer to a page, or no page comes.
Leave(w) ==
    /\ \/ at[w] = "idle" /\ (canceled \/ (fed /\ channel = {}))
       \/ at[w] \in {"turn", "slot"} /\ canceled
    /\ Go(w, "left")
    /\ UNCHANGED <<fetchVars, mine, tries, free, cooling, runVars, writeVars,
                   statVars, result>>

\* buildPageRequest, and the source's gate of waitSourceRequestTurn.
Turn(w) ==
    /\ at[w] = "turn"
    /\ \/ ~cooling /\ Go(w, "slot")
       \/ tries[w] = 0 /\ Go(w, "fail")
    /\ UNCHANGED <<fetchVars, mine, tries, free, cooling, runVars, writeVars,
                   statVars, result>>

Slot(w) ==
    /\ at[w] = "slot"
    /\ free > 0
    /\ free' = free - 1
    /\ Go(w, "call")
    /\ UNCHANGED <<fetchVars, mine, tries, cooling, runVars, writeVars, statVars,
                   result>>

CoolingEnds ==
    /\ cooling
    /\ cooling' = FALSE
    /\ UNCHANGED <<fetchVars, at, mine, tries, free, runVars, writeVars, statVars,
                   result>>

\* Mutant: a request that brought its page keeps the slot.
CallOKKeeps(w) ==
    /\ at[w] = "call"
    /\ proven' = TRUE
    /\ Go(w, "submit")
    /\ UNCHANGED <<fetchVars, mine, tries, free, cooling, canceled, stopping,
                   fails, unproven, writeVars, statVars, result>>

\* The request brought the page; noteFetchOK.
CallOK(w) ==
    /\ at[w] = "call"
    /\ free' = free + 1
    /\ proven' = TRUE
    /\ Go(w, "submit")
    /\ UNCHANGED <<fetchVars, mine, tries, cooling, canceled, stopping, fails,
                   unproven, writeVars, statVars, result>>

\* It failed: for a while, by the rate limit or for good.
CallFails(w) ==
    /\ at[w] = "call"
    /\ free' = free + 1
    /\ \E again, limited \in BOOLEAN :
        /\ limited => again
        /\ cooling' = (cooling \/ limited)
        /\ IF again /\ tries[w] < Retries
           THEN tries' = [tries EXCEPT ![w] = @ + 1] /\ Go(w, "turn")
           ELSE UNCHANGED tries /\ Go(w, "fail")
    /\ UNCHANGED <<fetchVars, mine, runVars, writeVars, statVars, result>>

\* recordPageFinished.
CountFailed(g) ==
    /\ failed' = failed \cup {g}
    /\ listed' = IF Cardinality(listed) < MaxListed THEN listed \cup {g}
                 ELSE listed
    /\ UNCHANGED success

\* recordPageFailure and noteFetchFail, unless the context is done.
PageFails(w) ==
    /\ at[w] = "fail"
    /\ IF canceled
       THEN Go(w, "left") /\ UNCHANGED <<fails, statVars>>
       ELSE /\ CountFailed(mine[w])
            /\ fails' = fails + 1
            /\ Go(w, IF ~proven /\ fails' >= FailLimit THEN "stop" ELSE "idle")
    /\ UNCHANGED <<fetchVars, mine, tries, free, cooling, canceled, stopping,
                   proven, unproven, writeVars, result>>

\* stopOnce: the source is given up.
GiveUp(w) ==
    /\ at[w] = "stop"
    /\ unproven' = TRUE /\ canceled' = TRUE
    /\ Go(w, "idle")
    /\ UNCHANGED <<fetchVars, mine, tries, free, cooling, stopping, proven, fails,
                   writeVars, statVars, result>>

\* The lane takes the page, or refuses it because the context is done.
Submit(w) ==
    /\ at[w] = "submit"
    /\ \/ ~canceled /\ Lane!Accept(mine[w]) /\ Go(w, "idle")
       \/ canceled /\ Lane!Reject(mine[w]) /\ Go(w, "left")
    /\ UNCHANGED <<fetchVars, mine, tries, free, cooling, runVars, saved, reports,
                   late, closed, statVars, result>>

-----------------------------------------------------------------------------
\* Mutant: a report that finds the channel full is dropped.
DeliverDrops(report) ==
    /\ reports' = IF Cardinality(reports) < Capacity THEN reports \cup {report}
                  ELSE reports
    /\ UNCHANGED late

\* Complete: into the channel, or by a goroutine when it is full.
Deliver(report) ==
    IF Cardinality(reports) < Capacity
    THEN reports' = reports \cup {report} /\ UNCHANGED late
    ELSE late' = late \cup {report} /\ UNCHANGED reports

StartWrite(g) ==
    /\ Lane!Start(g)
    /\ UNCHANGED <<fetchVars, workVars, runVars, saved, reports, late, closed,
                   statVars, result>>

EndWrite(g) ==
    /\ Lane!Finish(g)
    /\ \E end \in {"saved", "lost"} :
        /\ saved' = IF end = "saved" THEN saved \cup {g} ELSE saved
        /\ Deliver([page |-> g, end |-> end])
    /\ UNCHANGED <<fetchVars, workVars, runVars, closed, statVars, result>>

\* cancelSource, which the stop of a user calls.
DiscardWrite(g) ==
    /\ stopping
    /\ Lane!Cancel(g)
    /\ Deliver([page |-> g, end |-> "canceled"])
    /\ UNCHANGED <<fetchVars, workVars, runVars, saved, closed, statVars, result>>

DeliverLate ==
    /\ Cardinality(reports) < Capacity
    /\ \E report \in late :
        reports' = reports \cup {report} /\ late' = late \ {report}
    /\ UNCHANGED <<fetchVars, workVars, runVars, write, saved, closed, statVars, result>>

\* requestWG and writeWG.
Outstanding == {g \in Page : write[g] \in {"queued", "writing"}} # {} \/ late # {}

CloseReports ==
    /\ ~closed
    /\ \A w \in Worker : at[w] = "left"
    /\ ~Outstanding
    /\ closed' = TRUE
    /\ UNCHANGED <<fetchVars, workVars, runVars, write, saved, reports, late, statVars,
                   result>>

\* The loop over the reports: errors do not count once the context is done.
CountReport ==
    /\ \E report \in reports :
        /\ reports' = reports \ {report}
        /\ IF report.end = "saved"
           THEN success' = success \cup {report.page} /\ UNCHANGED <<failed, listed>>
           ELSE IF canceled \/ report.end = "canceled" THEN UNCHANGED statVars
           ELSE CountFailed(report.page)
    /\ UNCHANGED <<fetchVars, workVars, runVars, write, saved, late, closed, result>>

Return ==
    /\ closed /\ reports = {} /\ result = "none"
    /\ result' = IF unproven THEN "unproven" ELSE IF canceled THEN "canceled"
                 ELSE IF failed # {} THEN "failed pages" ELSE "done"
    /\ UNCHANGED <<fetchVars, workVars, runVars, writeVars, statVars>>

\* A user stops the source.
Stop ==
    /\ ~stopping /\ result = "none"
    /\ stopping' = TRUE /\ canceled' = TRUE
    /\ UNCHANGED <<fetchVars, workVars, proven, fails, unproven, writeVars,
                   statVars, result>>

-----------------------------------------------------------------------------
WorkerStep(w) ==
    \/ TakePage(w) \/ Leave(w) \/ Turn(w) \/ Slot(w)
    \/ CallOK(w) \/ CallFails(w) \/ PageFails(w) \/ GiveUp(w) \/ Submit(w)

WriteStep(g) == StartWrite(g) \/ EndWrite(g) \/ DiscardWrite(g)

Loop == DeliverLate \/ CloseReports \/ CountReport \/ Return

Next ==
    \/ Feed \/ CoolingEnds \/ Stop \/ Loop
    \/ \E w \in Worker : WorkerStep(w)
    \/ \E g \in Page : WriteStep(g)

\* The scheduler runs every goroutine; a request ends by its 15 s, a write by
\* its 30 s, the cooldown by 5 s.
Fairness ==
    /\ WF_vars(Feed) /\ WF_vars(CoolingEnds) /\ WF_vars(Loop)
    /\ \A w \in Worker : WF_vars(WorkerStep(w)) /\ SF_vars(Turn(w) \/ Slot(w))
    /\ \A g \in Page : WF_vars(StartWrite(g)) /\ WF_vars(EndWrite(g))

Spec == Init /\ [][Next]_vars

-----------------------------------------------------------------------------
(***************************************************************************)
(* Properties                                                              *)
(***************************************************************************)
\* When CollectPages returns, no page is at the lane any more and the pages it
\* counted as success are the ones that are in the database, also those written
\* after a stop; and unless the run was given up or stopped, every page counts
\* once, as saved or as failed.
PagesCounted ==
    result # "none" =>
        /\ \A g \in Page : write[g] \notin {"queued", "writing"}
        /\ success = saved
        /\ success \cap failed = {}
        /\ result \in {"done", "failed pages"} => success \cup failed = Page
        /\ result = "done" => success = Page

\* What a run checks of the pages.
PagesSafe == TypeOK /\ PagesCounted

\* CollectPages returns, whoever fails or stops it.
CollectReturns == <>(result # "none")
=============================================================================
