---------------------------- MODULE Maintenance ----------------------------
(***************************************************************************)
(* The collect gate, the scheduled tasks and what excludes what            *)
(* (src/server/internal/spider: collect_lifecycle.go, spider_cron.go and   *)
(* spider_cron_dispatch.go, with the callers of the gate in                *)
(* collect_api_probe.go, collect_control.go, collect_cron_filter.go and    *)
(* collect_batch_context.go).  docs/cron-task-conflict.md states the rules *)
(* that the properties below are about.                                    *)
(*                                                                         *)
(* A thread carries out a list of tasks: the maintenance tasks of one      *)
(* second, one scheduled collection, a task started by hand, or a batch of *)
(* the collect centre.  A clear (ClearSpider) takes the same gate another  *)
(* way, a deletion occupies its source there, and the flush ticker         *)
(* publishes at any time.  A step is one critical section of the gate's    *)
(* mutex, one operation of publishMu, of a sync.Map or of the channel.     *)
(*                                                                         *)
(* What a stop does to the runs is in CollectRun: here a collection may    *)
(* end at any time.  A batch has one source.                               *)
(***************************************************************************)
EXTENDS Integers, Sequences, FiniteSets

CONSTANTS
    Job,       \* the scheduled maintenance tasks
    AutoTask,  \* the scheduled collection, sys_cron_auto_collect
    Center,    \* what a batch of the collect centre runs; no scheduled task
    Thread,    \* bound: the goroutines that run tasks at a time
    Clear,     \* calls of ClearSpider
    Deleter,   \* calls of StopSourceForDelete
    Ticker,    \* the goroutine of ensureStreamFlushLoop
    Source,
    Nobody,
    MaxFires,  \* bound: how often the clock fires a task
    MaxCalls   \* bound: tasks run by hand, clears and deletions together

Task == Job \cup {AutoTask}

ASSUME MaintenanceAssumption ==
    /\ AutoTask \notin Job /\ Center \notin Task
    /\ Thread \cap Clear = {} /\ Thread \cap Deleter = {}
    /\ Clear \cap Deleter = {}
    /\ Ticker \notin Thread \cup Clear \cup Deleter
    /\ Nobody \notin Thread \cup Clear \cup Deleter \cup {Ticker}
    /\ MaxFires \in Nat /\ MaxCalls \in Nat
    /\ IsFiniteSet(Job) /\ IsFiniteSet(Thread \cup Clear \cup Deleter)

Proc == Thread \cup Clear \cup Deleter \cup {Ticker}

VARIABLES
    pending,    \* cronPending
    sending,    \* tasks appended whose signal is not sent yet
    signal,     \* a value stands in cronFlushCh, whose capacity is 1
    loop,       \* where cronDispatchLoop is
    fires,      \* how often a task was enqueued
    claimed,    \* runningCronTasks
    marked,     \* runningMaintenanceTasks
    ran,        \* taskRanAt, as the number of times it was stored
    draining, active, publishing,   \* collectLifecycleState
    publisher,  \* who holds publishMu
    batches,    \* activeBatches
    at,         \* where each process is
    todo,       \* the tasks each thread still has to run
    idle,       \* the threads whose waitStoppedCollect found the gate idle
    calls

cronVars == <<pending, sending, signal, loop, fires>>
taskVars == <<claimed, marked, ran>>
gateVars == <<draining, active, publishing>>
vars == <<cronVars, taskVars, gateVars, publisher, batches, at, todo, idle,
          calls>>

Cleaning  == {"publish", "lock", "clean"}
Holding   == {"quiet", "drained", "endDrain"} \cup Cleaning
Sealing   == {"sealLock", "seal"}
InGate    == {"collect", "endSource", "deleting"} \cup Sealing
Finishing == {"finishLock", "finish"}
InBatch   == {"enter", "turned", "settle", "close"} \cup InGate \cup Finishing
Places == {"new", "claim", "look", "open", "mark", "gate",
           "unclaim", "off"} \cup Holding \cup InBatch

TypeOK ==
    /\ pending \in Seq(Task)
    /\ sending \in Nat /\ fires \in 0 .. MaxFires /\ calls \in 0 .. MaxCalls
    /\ signal \in BOOLEAN
    /\ loop \in {"wait", "sleep"}
    /\ claimed \subseteq Task /\ marked \subseteq Job
    /\ ran \in [Task -> Nat]
    /\ draining \in BOOLEAN
    /\ active \in [Source -> Proc \cup {Nobody}]
    /\ publishing \in Nat
    /\ publisher \in Proc \cup {Nobody}
    /\ batches \subseteq Thread
    /\ at \in [Proc -> Places]
    /\ todo \in [Thread -> Seq(Task \cup {Center})]
    /\ idle \subseteq Thread
    \* The counts of the gate are those of the processes that are in it.
    /\ publishing = Cardinality({p \in Proc : at[p] \in
            (Cleaning \ {"publish"}) \cup Sealing \cup Finishing})
    /\ \A s \in Source : active[s] # Nobody => at[active[s]] \in InGate

Init ==
    /\ pending = <<>>
    /\ sending = 0 /\ fires = 0 /\ calls = 0
    /\ signal = FALSE
    /\ loop = "wait"
    /\ claimed = {} /\ marked = {}
    /\ ran = [t \in Task |-> 0]
    /\ draining = FALSE
    /\ active = [s \in Source |-> Nobody]
    /\ publishing = 0
    /\ publisher = Nobody
    /\ batches = {}
    /\ at = [p \in Proc |-> IF p \in Thread THEN "off" ELSE "new"]
    /\ todo = [p \in Thread |-> <<>>]
    /\ idle = {}

-----------------------------------------------------------------------------
Go(p, there) == at' = [at EXCEPT ![p] = there]
Idle == \A s \in Source : active[s] = Nobody
Unused(p) == p \in Thread /\ at[p] = "off"
Task1(p) == Head(todo[p])
MayCall == calls < MaxCalls /\ calls' = calls + 1

\* isMaintenanceRunning: a registered task, or the gate.
MaintenanceRunning == marked # {} \/ draining

(***************************************************************************)
(* The clock, and cronDispatchLoop.                                        *)
(***************************************************************************)
Enqueue(t) ==
    /\ fires < MaxFires
    /\ fires' = fires + 1
    /\ pending' = Append(pending, t)
    /\ sending' = sending + 1
    /\ UNCHANGED <<signal, loop, taskVars, gateVars, publisher, batches,
                   at, todo, idle, calls>>

\* A send that finds the channel full is dropped.
Send ==
    /\ sending > 0
    /\ sending' = sending - 1
    /\ signal' = TRUE
    /\ UNCHANGED <<pending, loop, fires, taskVars, gateVars, publisher,
                   batches, at, todo, idle, calls>>

Wake ==
    /\ loop = "wait" /\ signal
    /\ signal' = FALSE
    /\ loop' = "sleep"
    /\ UNCHANGED <<pending, sending, fires, taskVars, gateVars, publisher,
                   batches, at, todo, idle, calls>>

\* planCronBatch: nothing beside a maintenance, maintenance before collection.
Due(q, busy) ==
    LET waiting(T) == {t \in T : \E i \in DOMAIN q : q[i] = t}
    IN  IF busy THEN {}
        ELSE IF waiting(Job) # {} THEN waiting(Job) ELSE waiting({AutoTask})

\* Each task that is due once, in the order of the queue.
First(q, t) == CHOOSE i \in DOMAIN q :
                   q[i] = t /\ \A j \in 1 .. i - 1 : q[j] # t
Plans(q, due) ==
    {run \in [1 .. Cardinality(due) -> due] :
        \A j, k \in DOMAIN run : j < k => First(q, run[j]) < First(q, run[k])}

\* The jobs of one second share a thread; there is one collection at most.
Flush ==
    /\ loop = "sleep"
    /\ loop' = "wait"
    /\ pending' = <<>>
    /\ LET due == Due(pending, MaintenanceRunning)
       IN  \/ due = {} /\ UNCHANGED <<at, todo>>
           \/ /\ due # {}
              /\ \E p \in Thread, run \in Plans(pending, due) :
                    /\ Unused(p)
                    /\ todo' = [todo EXCEPT ![p] = run]
                    /\ Go(p, "claim")
    /\ UNCHANGED <<sending, signal, fires, taskVars, gateVars, publisher,
                   batches, idle, calls>>

(***************************************************************************)
(* executeTask, RunTaskOnce and the collect centre.                        *)
(***************************************************************************)
\* rejectManualRun is one look; the claim comes later.
RunByHand(p, t) ==
    /\ Unused(p) /\ MayCall
    /\ ~MaintenanceRunning
    /\ todo' = [todo EXCEPT ![p] = <<t>>]
    /\ Go(p, IF t = Center THEN "open" ELSE "claim")
    /\ UNCHANGED <<cronVars, taskVars, gateVars, publisher, batches, idle>>

NextTask(p) ==
    /\ todo' = [todo EXCEPT ![p] = Tail(@)]
    /\ Go(p, IF Len(todo[p]) > 1 THEN "claim" ELSE "off")

Claim(p) ==
    /\ at[p] = "claim"
    /\ \/ /\ Task1(p) \in claimed
          /\ NextTask(p)
          /\ UNCHANGED claimed
       \/ /\ Task1(p) \notin claimed
          /\ claimed' = claimed \cup {Task1(p)}
          /\ Go(p, IF Task1(p) \in Job THEN "mark" ELSE "look")
          /\ UNCHANGED todo
    /\ UNCHANGED <<cronVars, marked, ran, gateVars, publisher, batches, idle,
                   calls>>

\* The deferred deletes of executeMaintenance and of executeTask.
Unclaim(p) ==
    /\ at[p] = "unclaim"
    /\ marked' = marked \ {Task1(p)}
    /\ claimed' = claimed \ {Task1(p)}
    /\ NextTask(p)
    /\ UNCHANGED <<cronVars, ran, gateVars, publisher, batches, idle, calls>>

Mark(p) ==
    /\ at[p] = "mark"
    /\ marked' = marked \cup {Task1(p)}
    /\ Go(p, "gate")
    /\ UNCHANGED <<cronVars, claimed, ran, gateVars, publisher, batches,
                   todo, idle, calls>>

-----------------------------------------------------------------------------
(***************************************************************************)
(* runMaintenance: take the gate or give up, stop everything               *)
(* (StopAllCollect, whose effect on the runs is CollectRun's), wait for    *)
(* what still writes, runs or publishes.  A source writes only while it is *)
(* in the gate.                                                            *)
(***************************************************************************)
BeginMaintenance(p) ==
    /\ at[p] = "gate"
    /\ draining' = TRUE
    /\ Go(p, IF draining THEN "unclaim" ELSE "quiet")
    /\ UNCHANGED <<cronVars, taskVars, active, publishing, publisher, batches,
                   todo, idle, calls>>

LookIdle(p) ==
    /\ at[p] = "quiet" /\ p \notin idle
    /\ Idle /\ publishing = 0
    /\ idle' = idle \cup {p}
    /\ UNCHANGED <<cronVars, taskVars, gateVars, publisher, batches, at,
                   todo, calls>>

LookBatches(p) ==
    /\ at[p] = "quiet" /\ p \in idle
    /\ idle' = idle \ {p}
    /\ Go(p, IF batches = {} THEN "publish" ELSE "quiet")
    /\ UNCHANGED <<cronVars, taskVars, gateVars, publisher, batches, todo,
                   calls>>

\* maintenanceExitWait is over.
GiveUp(p) ==
    /\ at[p] = "quiet"
    /\ idle' = idle \ {p}
    /\ Go(p, "endDrain")
    /\ UNCHANGED <<cronVars, taskVars, gateVars, publisher, batches, todo,
                   calls>>

(***************************************************************************)
(* beginDrain: wait for the gate, take it, wait for the runs.              *)
(***************************************************************************)
Drain(z) ==
    /\ at[z] = "new" /\ MayCall
    /\ ~draining
    /\ draining' = TRUE
    /\ Go(z, "drained")
    /\ UNCHANGED <<cronVars, taskVars, active, publishing, publisher, batches,
                   todo, idle>>

DrainQuiet(z) ==
    /\ at[z] = "drained"
    /\ Idle /\ publishing = 0
    /\ Go(z, "publish")
    /\ UNCHANGED <<cronVars, taskVars, gateVars, publisher, batches, todo,
                   idle, calls>>

\* Mutant: the timeout leaves the gate shut.
DrainTimeoutKeeps(z) ==
    /\ \/ at[z] = "drained" /\ UNCHANGED calls
       \/ at[z] = "new" /\ draining /\ MayCall
    /\ Go(z, "off")
    /\ UNCHANGED <<cronVars, taskVars, gateVars, publisher, batches, todo,
                   idle>>

DrainTimeout(z) ==
    /\ \/ at[z] = "drained" /\ UNCHANGED calls
       \/ at[z] = "new" /\ draining /\ MayCall
    /\ draining' = (draining /\ at[z] # "drained")
    /\ Go(z, "off")
    /\ UNCHANGED <<cronVars, taskVars, active, publishing, publisher, batches,
                   todo, idle>>

-----------------------------------------------------------------------------
(***************************************************************************)
(* beginPublish, publishMu and endPublish: of a maintenance or a clear, of *)
(* a source's seal, of the end of a batch, of a tick.                      *)
(***************************************************************************)
BeginPublish(p, from, to) ==
    /\ at[p] = from
    /\ publishing' = publishing + 1
    /\ Go(p, to)

Lock(p, from, to) ==
    /\ at[p] = from
    /\ publisher = Nobody
    /\ publisher' = p
    /\ Go(p, to)

\* Unlock and endPublish: who waits for the count sees it no earlier.
Unlock(p, from, to) ==
    /\ at[p] = from
    /\ publisher' = Nobody
    /\ publishing' = publishing - 1
    /\ Go(p, to)

EnterPublish(p) ==
    /\ \/ BeginPublish(p, "publish", "lock")
       \/ p \in Thread /\ BeginPublish(p, "collect", "sealLock")
       \/ p \in Thread /\ BeginPublish(p, "settle", "finishLock")
       \/ p \in Thread /\ BeginPublish(p, "turned", "finishLock")
    /\ UNCHANGED <<cronVars, taskVars, draining, active, publisher, batches,
                   todo, idle, calls>>

\* The maintenance that starts to clean notes when its task ran last.
StartCleaning(p) ==
    /\ Lock(p, "lock", "clean")
    /\ ran' = IF p \in Thread THEN [ran EXCEPT ![Task1(p)] = @ + 1] ELSE ran
    /\ UNCHANGED <<cronVars, claimed, marked, gateVars, batches, todo,
                   idle, calls>>

StartPublishing(p) ==
    /\ \/ Lock(p, "sealLock", "seal")
       \/ Lock(p, "finishLock", "finish")
    /\ UNCHANGED <<cronVars, taskVars, gateVars, batches, todo, idle, calls>>

Published(p) ==
    /\ \/ Unlock(p, "clean", "endDrain")
       \/ Unlock(p, "seal", "endSource")
       \/ Unlock(p, "finish", IF p = Ticker THEN "new" ELSE "close")
    /\ UNCHANGED <<cronVars, taskVars, draining, active, batches, todo, idle,
                   calls>>

EndDrain(p) ==
    /\ at[p] = "endDrain"
    /\ draining' = FALSE
    /\ Go(p, IF p \in Thread THEN "unclaim" ELSE "off")
    /\ UNCHANGED <<cronVars, taskVars, active, publishing, publisher, batches,
                   todo, idle, calls>>

\* drainStreamPublish, called by the ticker.
Tick ==
    /\ BeginPublish(Ticker, "new", "finishLock")
    /\ UNCHANGED <<cronVars, taskVars, draining, active, publisher, batches,
                   todo, idle, calls>>

-----------------------------------------------------------------------------
(***************************************************************************)
(* A batch: opened after a look, refused or let in, settled, closed.       *)
(***************************************************************************)
\* AutoCollectTriggered
LookBeforeCollect(p) ==
    /\ at[p] = "look"
    /\ Go(p, IF MaintenanceRunning THEN "unclaim" ELSE "open")
    /\ UNCHANGED <<cronVars, taskVars, gateVars, publisher, batches, todo,
                   idle, calls>>

OpenBatch(p) ==
    /\ at[p] = "open"
    /\ batches' = batches \cup {p}
    /\ Go(p, "enter")
    /\ UNCHANGED <<cronVars, taskVars, gateVars, publisher, todo, idle, calls>>

\* Mutant: only the sources are asked, not the gate.
BeginSourceUngated(p, s) ==
    /\ at[p] = "enter"
    /\ active[s] = Nobody
    /\ active' = [active EXCEPT ![s] = p]
    /\ ran' = IF Task1(p) = AutoTask THEN [ran EXCEPT ![AutoTask] = @ + 1]
                                  ELSE ran
    /\ Go(p, "collect")
    /\ UNCHANGED <<cronVars, claimed, marked, draining, publishing, publisher,
                   batches, todo, idle, calls>>

\* beginSource, and noteCronCollectStarted behind it.
BeginSource(p, s) ==
    /\ at[p] = "enter"
    /\ ~draining
    /\ active[s] = Nobody
    /\ active' = [active EXCEPT ![s] = p]
    /\ ran' = IF Task1(p) = AutoTask THEN [ran EXCEPT ![AutoTask] = @ + 1]
                                  ELSE ran
    /\ Go(p, "collect")
    /\ UNCHANGED <<cronVars, claimed, marked, draining, publishing, publisher,
                   batches, todo, idle, calls>>

\* Mutant: a collection that gives way still counts as having run.
RefusedNoted(p, s) ==
    /\ at[p] = "enter"
    /\ draining \/ active[s] # Nobody
    /\ ran' = IF Task1(p) = AutoTask THEN [ran EXCEPT ![AutoTask] = @ + 1]
                                  ELSE ran
    /\ Go(p, "turned")
    /\ UNCHANGED <<cronVars, claimed, marked, gateVars, publisher, batches,
                   todo, idle, calls>>

\* The gate is shut, or the source is in it.
Refused(p, s) ==
    /\ at[p] = "enter"
    /\ draining \/ active[s] # Nobody
    /\ Go(p, "turned")
    /\ UNCHANGED <<cronVars, taskVars, gateVars, publisher, batches, todo,
                   idle, calls>>

\* A run that wrote nothing ends without sealing.
CollectsNothing(p) ==
    /\ at[p] = "collect"
    /\ Go(p, "endSource")
    /\ UNCHANGED <<cronVars, taskVars, gateVars, publisher, batches, todo,
                   idle, calls>>

EndSource(p) ==
    /\ at[p] \in {"endSource", "deleting"}
    /\ active' = [s \in Source |-> IF active[s] = p THEN Nobody ELSE active[s]]
    /\ Go(p, IF p \in Thread THEN "settle" ELSE "off")
    /\ UNCHANGED <<cronVars, taskVars, draining, publishing, publisher,
                   batches,
                   todo, idle, calls>>

\* flushAndFinalize finds nothing to publish.
NothingToSettle(p) ==
    /\ at[p] \in {"turned", "settle"}
    /\ Go(p, "close")
    /\ UNCHANGED <<cronVars, taskVars, gateVars, publisher, batches, todo,
                   idle, calls>>

CloseBatch(p) ==
    /\ at[p] = "close"
    /\ batches' = batches \ {p}
    /\ IF Task1(p) = Center THEN NextTask(p)
       ELSE Go(p, "unclaim") /\ UNCHANGED todo
    /\ UNCHANGED <<cronVars, taskVars, gateVars, publisher, idle, calls>>

\* StopSourceForDelete, and its release.
OccupyForDelete(d, s) ==
    /\ at[d] = "new" /\ MayCall
    /\ ~draining
    /\ active[s] = Nobody
    /\ active' = [active EXCEPT ![s] = d]
    /\ Go(d, "deleting")
    /\ UNCHANGED <<cronVars, taskVars, draining, publishing, publisher,
                   batches,
                   todo, idle>>

-----------------------------------------------------------------------------
Runs(p) ==
    \/ Claim(p) \/ Unclaim(p) \/ Mark(p)
    \/ BeginMaintenance(p)
    \/ LookIdle(p) \/ LookBatches(p) \/ GiveUp(p)
    \/ LookBeforeCollect(p) \/ OpenBatch(p)
    \/ \E s \in Source : BeginSource(p, s) \/ Refused(p, s)
    \/ CollectsNothing(p) \/ NothingToSettle(p) \/ CloseBatch(p)

Drains(z) ==
    Drain(z) \/ DrainQuiet(z) \/ DrainTimeout(z)

Publishes(p) ==
    \/ EnterPublish(p)
    \/ StartCleaning(p) \/ StartPublishing(p) \/ Published(p)
    \/ EndDrain(p) \/ EndSource(p)

Loops == Wake \/ Flush

Next ==
    \/ \E t \in Task : Enqueue(t)
    \/ Send \/ Loops \/ Tick
    \/ \E p \in Thread : Runs(p) \/ \E t \in Task \cup {Center} : RunByHand(p, t)
    \/ \E z \in Clear : Drains(z)
    \/ \E p \in Proc : Publishes(p)
    \/ \E d \in Deleter, s \in Source : OccupyForDelete(d, s)

\* A goroutine goes on, a wait has a deadline, and a Go mutex starves nobody.
Fairness ==
    /\ WF_vars(Send) /\ WF_vars(Loops)
    /\ \A p \in Thread : WF_vars(Runs(p)) /\ WF_vars(GiveUp(p))
    /\ \A z \in Clear : WF_vars(Drains(z))
    /\ \A p \in Proc :
        /\ WF_vars(Publishes(p))
        /\ SF_vars(StartCleaning(p) \/ StartPublishing(p))

Spec == Init /\ [][Next]_vars /\ Fairness

-----------------------------------------------------------------------------
(***************************************************************************)
(* Properties                                                              *)
(***************************************************************************)

\* The gate is shut exactly while one process has shut it: neither an early
\* return nor a timeout opens another's gate or leaves its own shut (rule 1:
\* one maintenance at a time).
OneHolder ==
    /\ draining <=> \E p \in Proc : at[p] \in Holding
    /\ \A p, q \in Proc : at[p] \in Holding /\ at[q] \in Holding => p = q

\* While a maintenance or a clear works on the library, no source collects or
\* is being deleted, and nobody publishes (rules 3 and 4).
QuietClean ==
    \A p \in Proc : at[p] = "clean" =>
        /\ Idle
        /\ \A q \in Proc : at[q] \in {"clean", "seal", "finish"} => q = p

\* A maintenance starts to clean after every batch that had collected has
\* settled: what is still open was turned away (rule 4).  A clear does not
\* wait for the batches.
RunsSettled ==
    \A p \in Thread, q \in Proc : at[p] = "clean" => at[q] # "settle"

\* Rules 1, 3 and 4 of the gate together.
GateExcludes == OneHolder /\ QuietClean /\ RunsSettled

\* A scheduled task that waits in the queue will be looked at: its signal
\* stands, is about to be sent, or the loop is on its way (append before send).
NoForgottenTask ==
    pending # <<>> => signal \/ loop = "sleep" \/ sending > 0

\* What a run checks of the gate and the queue.
GateSafe == TypeOK /\ GateExcludes /\ NoForgottenTask

\* The time of the last run moves only for a maintenance that starts to clean
\* or for a collection that enters the gate: no skip and no turn given up
\* moves it (rule 5).
LastRunMeansStarted ==
    [][/\ \A t \in Job : ran'[t] # ran[t] =>
            \E p \in Thread : at[p] = "lock" /\ at'[p] = "clean" /\ Task1(p) = t
       /\ ran'[AutoTask] # ran[AutoTask] =>
            \E p \in Thread : at[p] = "enter" /\ at'[p] = "collect"
                              /\ Task1(p) = AutoTask]_vars

\* The gate does not stay shut: maintenance or clear, it gets its turn or its
\* wait times out; and every scheduled task is looked at.
GateServes ==
    /\ draining ~> ~draining
    /\ (pending # <<>>) ~> (pending = <<>>)
=============================================================================
