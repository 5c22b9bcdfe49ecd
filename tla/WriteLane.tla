----------------------------- MODULE WriteLane -----------------------------
(***************************************************************************)
(* The bounded write lane between the page fetchers and the database       *)
(* (src/server/internal/spider/scheduler).  Page workers submit one job    *)
(* per fetched page, a pool of workers takes one page at a time, round     *)
(* robin over the sources and at most one page of a source at once, and    *)
(* writes it.  One mutex guards the lane, and one condition variable is    *)
(* shared by three kinds of threads: submitters held back by a full lane,  *)
(* idle workers, and callers of waitPending.                               *)
(*                                                                         *)
(* A step is one critical section of lane.mu, or one piece of code outside *)
(* it.  `asleep' is the wait list of the condition variable: Signal takes  *)
(* one thread out of it, Broadcast all of them.                            *)
(***************************************************************************)
EXTENDS Integers, Sequences, FiniteSets

CONSTANTS
    Source,        \* the collect sources
    Page,          \* write jobs, one per fetched page
    Worker,        \* the lane's goroutines, CollectWriteMaxInflight of them
    Drainer,       \* goroutines that call WaitPendingWrites
    SourceOf,      \* [Page -> Source]
    MaxPerSource,  \* CollectWriteMaxPendingPagesPerSource
    MaxGlobal,     \* CollectWriteMaxPendingPagesGlobal
    Stoppable,     \* a bound: the sources an instance stops
    NoPage         \* a worker that holds no job

Thread == Page \cup Worker \cup Drainer

ASSUME LaneAssumption ==
    /\ IsFiniteSet(Source)
    /\ SourceOf \in [Page -> Source]
    /\ Worker # {}
    /\ MaxPerSource \in Nat \ {0}
    /\ MaxGlobal \in Nat \ {0}
    /\ NoPage \notin Page
    /\ Page \cap Worker = {}
    /\ Page \cap Drainer = {}
    /\ Worker \cap Drainer = {}

VARIABLES
    queues,        \* keys of lane.queues, the same sources as lane.order
    place,         \* lane.order: position from 1 (0 without a queue)
    pending,       \* queue.pending of every source (<<>> without a queue)
    done,          \* queue.done (FALSE without a queue)
    writing,       \* queue.writing (FALSE without a queue)
    totalPending,  \* lane.totalPending
    rrCursor,      \* lane.rrCursor, from 0
    asleep,        \* threads inside cond.Wait
    wakes,         \* submitters and drainers whose AfterFunc has to broadcast
    page,          \* where each job is
    worker,        \* where each worker is
    job,           \* the job each worker holds
    drain,         \* where each waitPending call is
    expired,       \* drainers whose context is over
    fetching,      \* sources whose page workers are still running
    canceled,      \* sources whose run context is canceled
    stopping       \* sources whose stop has not reached CancelSource yet

laneVars == <<queues, place, pending, done, writing, totalPending, rrCursor>>
runVars  == <<fetching, canceled, stopping>>
vars == <<laneVars, asleep, wakes, page, worker, job, drain, expired, runVars>>

PageState   == {"new", "entering", "queued", "taken", "discarded",
                "written", "canceled", "rejected"}
Settled     == {"written", "canceled", "rejected"}
WorkerState == {"probe", "take", "write", "finish"}
DrainState  == {"idle", "waiting", "drained", "gaveUp"}

Elements(seq) == {seq[i] : i \in 1 .. Len(seq)}
PagesOf(s) == {p \in Page : SourceOf[p] = s}

TypeOK ==
    /\ queues \subseteq Source
    /\ place \in [Source -> Int]
    /\ pending \in [Source -> Seq(Page)]
    /\ done \in [Source -> BOOLEAN]
    /\ writing \in [Source -> BOOLEAN]
    /\ totalPending \in Nat
    /\ rrCursor \in Nat
    /\ asleep \subseteq Thread
    /\ wakes \subseteq Page \cup Drainer
    /\ page \in [Page -> PageState]
    /\ worker \in [Worker -> WorkerState]
    /\ job \in [Worker -> Page \cup {NoPage}]
    /\ drain \in [Drainer -> DrainState]
    /\ expired \subseteq Drainer
    /\ fetching \subseteq Source
    /\ canceled \subseteq Source
    /\ stopping \subseteq Source

Init ==
    /\ queues = {}
    /\ place = [s \in Source |-> 0]
    /\ pending = [s \in Source |-> <<>>]
    /\ done = [s \in Source |-> FALSE]
    /\ writing = [s \in Source |-> FALSE]
    /\ totalPending = 0
    /\ rrCursor = 0
    /\ asleep = {}
    /\ wakes = {}
    /\ page = [p \in Page |-> "new"]
    /\ worker = [w \in Worker |-> "probe"]
    /\ job = [w \in Worker |-> NoPage]
    /\ drain = [d \in Drainer |-> "idle"]
    /\ expired = {}
    /\ fetching = Source
    /\ canceled = {}
    /\ stopping = {}

(***************************************************************************)
(* The condition variable and the helpers of the lane.                     *)
(***************************************************************************)
\* Mutant: Broadcast replaced by Signal.
BroadcastWakesOne == IF asleep = {} THEN asleep' = {}
                     ELSE \E t \in asleep : asleep' = asleep \ {t}

Broadcast == asleep' = {}

\* Mutant: a submit wakes nobody.
SignalNobody == UNCHANGED asleep

Signal == IF asleep = {} THEN asleep' = {}
                         ELSE \E t \in asleep : asleep' = asleep \ {t}

Blocked(s) == \/ Len(pending[s]) >= MaxPerSource
              \/ totalPending >= MaxGlobal

\* Mutant: a source whose page is being written is picked again.
IsReadyWhileWriting(s) == pending[s] # <<>>

IsReady(s) == ~writing[s] /\ pending[s] # <<>>
HasReadyWork == \E s \in queues : IsReady(s)
IsIdle == /\ totalPending = 0
          /\ \A s \in queues : ~writing[s] /\ pending[s] = <<>>

\* The queued pages of some sources, as (source, position) pairs.
Backlog(srcs) == {x \in srcs \X (1 .. MaxPerSource) :
                     x[2] <= Len(pending[x[1]])}

\* queueFor: a new queue goes to the end of lane.order.
QueueFor(s) ==
    /\ queues' = queues \cup {s}
    /\ place' = [place EXCEPT ![s] = IF s \in queues THEN @
                                     ELSE Cardinality(queues) + 1]

\* removeQueueLocked of some queues: those behind move up, and the cursor, taken
\* modulo the new length each time, is kept or falls to 0.
RemoveQueues(gone) ==
    /\ queues' = queues \ gone
    /\ place' = [s \in Source |->
           IF s \in queues \ gone
           THEN place[s] - Cardinality({g \in gone : place[g] < place[s]})
           ELSE 0]
    /\ rrCursor' = IF gone = {} \/ rrCursor < Cardinality(queues \ gone)
                   THEN rrCursor ELSE 0

(***************************************************************************)
(* submit.  The context is looked at once before the lock is taken, and    *)
(* again under it; a thread between the two, or woken up, is "entering".   *)
(***************************************************************************)
SubmitBegin(p) ==
    /\ page[p] = "new"
    /\ SourceOf[p] \in fetching
    /\ page' = [page EXCEPT ![p] = IF SourceOf[p] \in canceled
                                   THEN "rejected" ELSE "entering"]
    /\ UNCHANGED <<laneVars, asleep, wakes, worker, job, drain, expired, runVars>>

InSubmit(p) == page[p] = "entering" /\ p \notin asleep

SubmitWait(p) ==
    LET s == SourceOf[p] IN
    /\ InSubmit(p)
    /\ Blocked(s)
    /\ s \notin canceled
    /\ QueueFor(s)
    /\ asleep' = asleep \cup {p}
    /\ UNCHANGED <<pending, done, writing, totalPending, rrCursor, wakes,
                   page, worker, job, drain, expired, runVars>>

SubmitCanceled(p) ==
    LET s == SourceOf[p] IN
    /\ InSubmit(p)
    /\ s \in canceled
    /\ QueueFor(s)
    /\ page' = [page EXCEPT ![p] = "rejected"]
    /\ UNCHANGED <<pending, done, writing, totalPending, rrCursor, asleep,
                   wakes, worker, job, drain, expired, runVars>>

\* Mutant: the second look at the context is missing.
SubmitAppendUnchecked(p) ==
    LET s == SourceOf[p] IN
    /\ InSubmit(p)
    /\ ~Blocked(s)
    /\ QueueFor(s)
    /\ pending' = [pending EXCEPT ![s] = Append(@, p)]
    /\ totalPending' = totalPending + 1
    /\ page' = [page EXCEPT ![p] = "queued"]
    /\ Signal
    /\ UNCHANGED <<done, writing, rrCursor, wakes, worker, job, drain, expired,
                   runVars>>

SubmitAppend(p) ==
    LET s == SourceOf[p] IN
    /\ InSubmit(p)
    /\ ~Blocked(s)
    /\ s \notin canceled
    /\ QueueFor(s)
    /\ pending' = [pending EXCEPT ![s] = Append(@, p)]
    /\ totalPending' = totalPending + 1
    /\ page' = [page EXCEPT ![p] = "queued"]
    /\ Signal
    /\ UNCHANGED <<done, writing, rrCursor, wakes, worker, job, drain, expired,
                   runVars>>

(***************************************************************************)
(* A worker: probe for ready work, take a page, write it and report it,    *)
(* release the source.                                                     *)
(***************************************************************************)
WorkerProbe(w) ==
    /\ worker[w] = "probe"
    /\ w \notin asleep
    /\ \/ /\ HasReadyWork
          /\ worker' = [worker EXCEPT ![w] = "take"]
          /\ UNCHANGED asleep
       \/ /\ ~HasReadyWork
          /\ asleep' = asleep \cup {w}
          /\ UNCHANGED worker
    /\ UNCHANGED <<laneVars, wakes, page, job, drain, expired, runVars>>

\* selectQueueRoundRobinLocked: how far behind the cursor a source stands.
RRStart == IF rrCursor >= Cardinality(queues) THEN 0 ELSE rrCursor
Turn(s) == (place[s] - 1 - RRStart + Cardinality(queues)) % Cardinality(queues)

\* Mutant: the page that is taken stays at the head of its queue.
WorkerTakePeeks(w) ==
    /\ worker[w] = "take"
    /\ \E s \in queues :
         /\ IsReady(s)
         /\ \A r \in queues : IsReady(r) => Turn(s) <= Turn(r)
         /\ rrCursor' = place[s] % Cardinality(queues)
         /\ pending' = pending
         /\ totalPending' = IF totalPending > 0 THEN totalPending - 1
                                                ELSE totalPending
         /\ writing' = [writing EXCEPT ![s] = TRUE]
         /\ job' = [job EXCEPT ![w] = Head(pending[s])]
         /\ page' = [page EXCEPT ![Head(pending[s])] = "taken"]
    /\ worker' = [worker EXCEPT ![w] = "write"]
    /\ Broadcast
    /\ UNCHANGED <<queues, place, done, wakes, drain, expired, runVars>>

WorkerTake(w) ==
    /\ worker[w] = "take"
    /\ \E s \in queues :
         /\ IsReady(s)
         /\ \A r \in queues : IsReady(r) => Turn(s) <= Turn(r)
         /\ rrCursor' = place[s] % Cardinality(queues)
         /\ pending' = [pending EXCEPT ![s] = Tail(@)]
         /\ totalPending' = IF totalPending > 0 THEN totalPending - 1
                                                ELSE totalPending
         /\ writing' = [writing EXCEPT ![s] = TRUE]
         /\ job' = [job EXCEPT ![w] = Head(pending[s])]
         /\ page' = [page EXCEPT ![Head(pending[s])] = "taken"]
    /\ worker' = [worker EXCEPT ![w] = "write"]
    /\ Broadcast
    /\ UNCHANGED <<queues, place, done, wakes, drain, expired, runVars>>

\* Another worker took the page this one had seen.
WorkerMiss(w) ==
    /\ worker[w] = "take"
    /\ ~HasReadyWork
    /\ rrCursor' = IF queues = {} THEN rrCursor ELSE RRStart
    /\ worker' = [worker EXCEPT ![w] = "probe"]
    /\ UNCHANGED <<queues, place, pending, done, writing, totalPending, asleep,
                   wakes, page, job, drain, expired, runVars>>

\* job.Write and job.Complete run outside the lock.  The lane goes on the same
\* way whether Write succeeds, fails or panics: the page is reported once.
WorkerWrite(w) ==
    /\ worker[w] = "write"
    /\ page' = [page EXCEPT ![job[w]] = "written"]
    /\ worker' = [worker EXCEPT ![w] = "finish"]
    /\ UNCHANGED <<laneVars, asleep, wakes, job, drain, expired, runVars>>

WorkerFinish(w) ==
    LET s == SourceOf[job[w]] IN
    /\ worker[w] = "finish"
    /\ IF s \in queues
       THEN /\ writing' = [writing EXCEPT ![s] = FALSE]
            /\ IF done[s] /\ pending[s] = <<>>
               THEN /\ RemoveQueues({s})
                    /\ done' = [done EXCEPT ![s] = FALSE]
               ELSE UNCHANGED <<queues, place, done, rrCursor>>
       ELSE UNCHANGED <<queues, place, done, writing, rrCursor>>
    /\ Broadcast
    /\ worker' = [worker EXCEPT ![w] = "probe"]
    /\ job' = [job EXCEPT ![w] = NoPage]
    /\ UNCHANGED <<pending, totalPending, wakes, page, drain, expired, runVars>>

(***************************************************************************)
(* The run of a source ends its submissions, is stopped, or starts again.  *)
(***************************************************************************)
\* FinishSource, once every page worker of the run has returned.
FinishSource(s) ==
    /\ \A p \in PagesOf(s) : page[p] # "entering"
    /\ fetching' = fetching \ {s}
    /\ \/ /\ s \notin queues
          /\ UNCHANGED <<queues, place, done, rrCursor, asleep>>
       \/ /\ s \in queues /\ pending[s] = <<>> /\ ~writing[s]
          /\ RemoveQueues({s})
          /\ done' = [done EXCEPT ![s] = FALSE]
          /\ Broadcast
       \/ /\ s \in queues /\ (pending[s] # <<>> \/ writing[s])
          /\ done' = [done EXCEPT ![s] = TRUE]
          /\ Signal
          /\ UNCHANGED <<queues, place, rrCursor>>
    /\ UNCHANGED <<pending, writing, totalPending, wakes, page, worker, job,
                   drain, expired, canceled, stopping>>

\* The stop of a source cancels its context first; every submit in flight
\* gets its AfterFunc goroutine.
CancelContext(s) ==
    /\ s \in Stoppable
    /\ s \notin canceled \cup stopping
    /\ canceled' = canceled \cup {s}
    /\ stopping' = stopping \cup {s}
    /\ wakes' = wakes \cup {p \in PagesOf(s) : page[p] = "entering"}
    /\ UNCHANGED <<laneVars, asleep, page, worker, job, drain, expired, fetching>>

\* cancelSource and cancelAll: the queues of `hit' lose their pages, and go away
\* unless a write is in flight.
Discard(hit) ==
    LET idle == {s \in hit : ~writing[s]}
        lost == UNION {Elements(pending[s]) : s \in hit}
        left == totalPending - Cardinality(Backlog(hit)) IN
    /\ pending' = [s \in Source |-> IF s \in hit THEN <<>> ELSE pending[s]]
    /\ totalPending' = IF left < 0 THEN 0 ELSE left
    /\ RemoveQueues(idle)
    /\ done' = [s \in Source |-> (done[s] \/ s \in hit) /\ s \notin idle]
    /\ page' = [p \in Page |-> IF p \in lost THEN "discarded" ELSE page[p]]
    /\ Broadcast
    /\ UNCHANGED <<writing, wakes, worker, job, drain, expired>>

CancelSource(s) ==
    /\ s \in stopping
    /\ stopping' = stopping \ {s}
    /\ IF s \in queues
       THEN Discard({s})
       ELSE UNCHANGED <<laneVars, asleep, wakes, page, worker, job, drain,
                        expired>>
    /\ UNCHANGED <<fetching, canceled>>

CancelAll ==
    /\ Discard(queues)
    /\ UNCHANGED runVars

\* Complete of a discarded page, called after the lock is released.
CompleteDiscarded(p) ==
    /\ page[p] = "discarded"
    /\ page' = [page EXCEPT ![p] = "canceled"]
    /\ UNCHANGED <<laneVars, asleep, wakes, worker, job, drain, expired, runVars>>

\* CollectPages returns after writeWG.Wait; a later run of the source has a
\* context of its own.
NextRun(s) ==
    /\ s \notin fetching
    /\ \A p \in PagesOf(s) : page[p] \in Settled \cup {"new"}
    /\ \E p \in PagesOf(s) : page[p] = "new"
    /\ fetching' = fetching \cup {s}
    /\ canceled' = canceled \ {s}
    /\ UNCHANGED <<laneVars, asleep, wakes, page, worker, job, drain, expired,
                   stopping>>

(***************************************************************************)
(* waitPending.                                                            *)
(***************************************************************************)
DrainBegin(d) ==
    /\ drain[d] = "idle"
    /\ drain' = [drain EXCEPT ![d] = "waiting"]
    /\ UNCHANGED <<laneVars, asleep, wakes, page, worker, job, expired, runVars>>

\* The deadline of the drainer's context passes: its AfterFunc starts.
DrainDeadline(d) ==
    /\ drain[d] = "waiting"
    /\ d \notin expired
    /\ expired' = expired \cup {d}
    /\ wakes' = wakes \cup {d}
    /\ UNCHANGED <<laneVars, asleep, page, worker, job, drain, runVars>>

DrainStep(d) ==
    /\ drain[d] = "waiting"
    /\ d \notin asleep
    /\ \/ /\ IsIdle
          /\ drain' = [drain EXCEPT ![d] = "drained"]
          /\ UNCHANGED asleep
       \/ /\ ~IsIdle
          /\ d \in expired
          /\ drain' = [drain EXCEPT ![d] = "gaveUp"]
          /\ UNCHANGED asleep
       \/ /\ ~IsIdle
          /\ d \notin expired
          /\ asleep' = asleep \cup {d}
          /\ UNCHANGED drain
    /\ UNCHANGED <<laneVars, wakes, page, worker, job, expired, runVars>>

\* The AfterFunc goroutine of a submitter or of a drainer.
CancelWake(t) ==
    /\ t \in wakes
    /\ Broadcast
    /\ wakes' = wakes \ {t}
    /\ UNCHANGED <<laneVars, page, worker, job, drain, expired, runVars>>

-----------------------------------------------------------------------------
SubmitStep(p) == SubmitWait(p) \/ SubmitCanceled(p) \/ SubmitAppend(p)
WorkerStep(w) == \/ WorkerProbe(w) \/ WorkerTake(w) \/ WorkerMiss(w)
                 \/ WorkerWrite(w) \/ WorkerFinish(w)

Next ==
    \/ \E p \in Page : SubmitBegin(p) \/ SubmitStep(p) \/ CompleteDiscarded(p)
    \/ \E w \in Worker : WorkerStep(w)
    \/ \E s \in Source : \/ FinishSource(s) \/ CancelContext(s)
                         \/ CancelSource(s) \/ NextRun(s)
    \/ CancelAll
    \/ \E d \in Drainer : DrainBegin(d) \/ DrainDeadline(d) \/ DrainStep(d)
    \/ \E t \in Page \cup Drainer : CancelWake(t)

Spec == Init /\ [][Next]_vars

\* The Go scheduler runs every goroutine that is not blocked, sync.Mutex is
\* starvation free, and a write is bounded by its 30 s context.  Nothing obliges
\* a source to be finished, stopped or run again, nor a deadline to pass.
Fairness ==
    /\ \A p \in Page : WF_vars(SubmitStep(p)) /\ WF_vars(CompleteDiscarded(p))
    /\ \A w \in Worker : WF_vars(WorkerStep(w))
    /\ \A s \in Source : WF_vars(CancelSource(s))
    /\ \A d \in Drainer : WF_vars(DrainStep(d))
    /\ \A t \in Page \cup Drainer : WF_vars(CancelWake(t))

FairSpec == Spec /\ Fairness

-----------------------------------------------------------------------------
\* At most one page of a source is being written, and its queue stays while it
\* is: two page transactions of one source would race on the same rows.
OneWritePerSource ==
    /\ \A v, w \in Worker :
         /\ v # w
         /\ worker[v] \in {"write", "finish"}
         /\ worker[w] \in {"write", "finish"}
         => SourceOf[job[v]] # SourceOf[job[w]]
    /\ \A w \in Worker : worker[w] \in {"write", "finish"} =>
         SourceOf[job[w]] \in queues /\ writing[SourceOf[job[w]]]

\* The O(1) water level is the number of queued pages through every append, take
\* and discard, and neither limit is passed: a drifting counter would hold back
\* submitters for ever or let the buffer grow.
WaterLevel ==
    /\ totalPending = Cardinality(Backlog(Source))
    /\ totalPending <= MaxGlobal
    /\ \A s \in Source : Len(pending[s]) <= MaxPerSource

\* What the lane's mutex guards, whoever holds it: its types, one write at a time
\* per source, and a counter that stays true to the queues.
LaneSafe == TypeOK /\ OneWritePerSource /\ WaterLevel

\* Signal may wake a thread that is no worker, yet ready work never finds the
\* whole pool asleep.
NoLostWakeup == HasReadyWork => \E w \in Worker : w \notin asleep

\* A thread asleep still has its reason to sleep: a submitter is held back, a
\* drainer has something to wait for.
NoStaleSleeper ==
    /\ \A p \in Page \cap asleep : page[p] = "entering" /\ Blocked(SourceOf[p])
    /\ \A d \in Drainer \cap asleep : drain[d] = "waiting" /\ ~IsIdle

\* Nobody sleeps on the one condition variable that work, room and the end of the
\* queue share, once what it waits for is there.
NobodySleepsInVain == NoLostWakeup /\ NoStaleSleeper

\* Once the stop of a run got through CancelSource, no page of the run can enter
\* the lane any more (submit looks at the context again under the lock).
StoppedStaysOut ==
    \A s \in canceled \ stopping : pending[s] = <<>>

\* What CollectPages sees of a page: one that waits in submit is not yet accepted,
\* and a discarded one is queued until its Complete is called.
View(where) == CASE where = "entering"  -> "new"
                 [] where = "discarded" -> "queued"
                 [] where = "taken"     -> "writing"
                 [] OTHER               -> where
Seen == [p \in Page |-> View(page[p])]
Pages == INSTANCE PageWrites WITH state <- Seen

\* The lane implements PageWrites: whatever is canceled, discarded, finished or run
\* again, a page is refused, or written once or given back once, and one page of a
\* source is written at a time.
PagesAccountedFor == Pages!Safety

\* The lane is as fair to the pages as PageWrites: a queued page that may start
\* again and again is started, a started write ends.
NoPageForgotten == Pages!Fairness

\* Every page that was accepted or is about to be leaves the lane, and every call
\* of submit returns.
SubmittedLeaves ==
    \A p \in Page : page[p] = "entering" ~> page[p] \in Settled

\* A caller of waitPending is answered once its deadline has passed.
DeadlineAnswers ==
    \A d \in Drainer : d \in expired ~> drain[d] \in {"drained", "gaveUp"}

\* Whoever waits in the lane is answered, though submit and finishSource wake
\* one thread only: submitters and callers of waitPending.
EveryoneIsAnswered == SubmittedLeaves /\ DeadlineAnswers
=============================================================================
