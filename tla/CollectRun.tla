----------------------------- MODULE CollectRun -----------------------------
(***************************************************************************)
(* The runs of one collect source: claim, start, stop and release          *)
(* (src/server/internal/spider: collect_batch_start.go, collect_occupy.go, *)
(* spider_dispatch.go, spider.go, collect_single_film.go and               *)
(* collect_control.go, and the package progress).                          *)
(*                                                                         *)
(* A request looks whether the source is busy, claims its occupancy token, *)
(* marks its progress entry as starting and goes on as a goroutine: it     *)
(* passes the dispatcher, probes the number of pages, enters the gate,     *)
(* registers a task that stops can cancel, collects, hands the source to   *)
(* the seal queue and gives everything back.  Stops, the housekeeping tick *)
(* and the seal queue interfere at any moment.  All of it is about one     *)
(* source; two sources share only the stop version.                        *)
(*                                                                         *)
(* A step is one critical section: of the entry's mutex, of taskMu, of     *)
(* collectingSourcesMu or of the gate, or one lookup.  taskMu, held over   *)
(* several steps, is the predicate TaskMuFree.                             *)
(***************************************************************************)
EXTENDS Integers

CONSTANTS
    Run,      \* requests; a request claims the source once at most
    Retry,    \* those that retry a batch (StartBatchCollectRetry)
    Single,   \* those that update one film (CollectSingleFilm)
    StopOne,  \* calls of StopCollectSource
    StopAll,  \* calls of StopAllCollect
    Keeper,   \* the housekeeping tick, and every query of the progress list
    Nobody,
    MaxPurges \* bound: how often the tick deletes an entry that ended

Stopper == StopOne \cup StopAll

ASSUME RunAssumption ==
    /\ Retry \subseteq Run /\ Single \subseteq Run /\ Retry \cap Single = {}
    /\ StopOne \cap StopAll = {}
    /\ Keeper \notin Run
    /\ Nobody \notin Run
    /\ MaxPurges \in Nat

VARIABLES
    status,     \* progress status; "none" without an entry
    epoch,      \* progressState.epoch
    total,      \* whether the pages are known, and whether there are any
    outcome,    \* progressState.sealOutcome
    occupy,     \* collectingSources: the claim whose token stands there
    task,       \* tasks: the run that is registered
    cancelled,  \* runs whose context is cancelled
    active,     \* collectLifecycle.activeSources: the run that is in it
    sealing,    \* the source is in searchReseal.sealing
    at,         \* where each request, and the tick, is
    token,      \* occupyTokens of each batch context
    current,    \* runs whose runVersion is still stopAllVersion
    runEpoch,   \* the epoch in each run's collectCtx; NoEpoch without one
    failed,     \* retErr # nil
    stop,       \* where each stop is
    purging,    \* the tick found the entry old enough to delete
    purges      \* how often it did

entryVars == <<status, epoch, total, outcome>>
tableVars == <<occupy, task, cancelled, active, sealing>>
runVars   == <<token, current, runEpoch, failed>>
purgeVars == <<purging, purges>>
vars == <<entryVars, tableVars, runVars, at, stop, purgeVars>>

NoEpoch  == -1
Active   == {"starting", "running"}
Stops    == {"stopped", "stopping"}
Terminal == {"done", "failed", "stopped"}
Status   == Active \cup Stops \cup Terminal \cup {"none", "sealing"}

\* Where a request is before, in and after the gate.
Queued == {"status", "active", "occupied", "terminal", "forget", "unheld",
           "held", "claim", "mark", "open", "context", "record", "version",
           "dispatch", "own", "probe", "probeFailed", "probed", "pages",
           "handle", "ready", "begin"}
Collecting == {"ensure", "total", "reprobe", "reprobed", "running", "collect",
               "sealMark", "hand", "unregister"}
Gated == Collecting \cup {"film", "register", "store", "epoch", "unregFail",
                          "finalize", "sealStopped", "handStopped", "end"}
Leaving == {"giveUp", "abort", "abortFail", "release", "close", "finish"}

Places == {"new", "off"} \cup Queued \cup Gated \cup Leaving
StopPlaces == {"new", "range", "mark", "cancel", "markAll", "live", "release",
               "off"}

EntryTypes ==
    /\ status \in Status
    /\ epoch \in Nat
    /\ total \in {"unknown", "none", "some"}
    /\ outcome \in {"done", "stopped"}
TableTypes ==
    /\ occupy \in Run \cup {Nobody}
    /\ task \in Run \cup {Nobody}
    /\ cancelled \subseteq Run
    /\ active \in Run \cup {Nobody}
    /\ sealing \in BOOLEAN
RunTypes ==
    /\ token \in [Run -> Run \cup {Nobody}]
    /\ current \subseteq Run
    /\ runEpoch \in [Run -> Nat \cup {NoEpoch}]
    /\ failed \in [Run -> BOOLEAN]
PlaceTypes ==
    /\ at \in [Run \cup {Keeper} -> Places]
    /\ stop \in [Stopper -> StopPlaces]
PurgeTypes ==
    /\ purging \in BOOLEAN
    /\ purges \in 0 .. MaxPurges

TypeOK == EntryTypes /\ TableTypes /\ RunTypes /\ PlaceTypes /\ PurgeTypes

Init ==
    /\ status = "none"
    /\ epoch = 0
    /\ total = "unknown"
    /\ outcome = "done"
    /\ occupy = Nobody
    /\ task = Nobody
    /\ cancelled = {}
    /\ active = Nobody
    /\ sealing = FALSE
    /\ at = [c \in Run \cup {Keeper} |-> IF c = Keeper THEN "off" ELSE "new"]
    /\ token = [r \in Run |-> Nobody]
    /\ current = {}
    /\ runEpoch = [r \in Run |-> NoEpoch]
    /\ failed = [r \in Run |-> FALSE]
    /\ stop = [x \in Stopper |-> "new"]
    /\ purging = FALSE
    /\ purges = 0

-----------------------------------------------------------------------------
Go(c, there) == at' = [at EXCEPT ![c] = there]

\* RequestStop, and a run that registers, hold taskMu over two steps.
TaskMuFree ==
    /\ \A r \in Run : at[r] # "store"
    /\ \A x \in Stopper : stop[x] # "cancel"

\* An Update, under the entry's mutex.
Settle(from, to) ==
    /\ status' = IF status \in from THEN to ELSE status
    /\ UNCHANGED <<epoch, total, outcome>>

\* UpdateRun refuses runs of an earlier epoch and what has been decided.
MayUpdate(r) ==
    runEpoch[r] = epoch /\ status \notin Terminal \cup {"stopping", "none"}

(***************************************************************************)
(* IsAlreadyQueuedOrRunning, which a request passes before it claims, and  *)
(* pruneStale: both mark an abandoned entry as failed.                     *)
(***************************************************************************)
LookTasks(r) ==
    /\ at[r] = "new"
    /\ Go(r, IF task # Nobody THEN "off" ELSE "status")
    /\ UNCHANGED <<entryVars, tableVars, runVars, stop, purgeVars>>

LookStatus(r) ==
    /\ at[r] = "status"
    /\ Go(r, IF status \in {"stopping", "sealing"} THEN "off" ELSE "active")
    /\ UNCHANGED <<entryVars, tableVars, runVars, stop, purgeVars>>

\* The source is free: a request claims it, the tick goes back to sleep.
Free(c) == IF c = Keeper THEN "off" ELSE "claim"

LookActive(c) ==
    /\ at[c] = IF c = Keeper THEN "off" ELSE "active"
    /\ \/ status \notin Active /\ Go(c, Free(c))
       \/ status \in Active /\ task # Nobody /\ Go(c, "off")
       \/ status = "running" /\ task = Nobody /\ Go(c, "unheld")
       \/ status = "starting" /\ task = Nobody /\ Go(c, "occupied")
    /\ UNCHANGED <<entryVars, tableVars, runVars, stop, purgeVars>>

\* isOccupiedCollectSource: a token of a source that has ended is stale.
LookOccupied(c) ==
    /\ at[c] = "occupied"
    /\ Go(c, IF occupy = Nobody THEN "unheld" ELSE "terminal")
    /\ UNCHANGED <<entryVars, tableVars, runVars, stop, purgeVars>>

LookTerminal(c) ==
    /\ at[c] = "terminal"
    /\ Go(c, IF status \in Terminal /\ task = Nobody THEN "forget" ELSE "held")
    /\ UNCHANGED <<entryVars, tableVars, runVars, stop, purgeVars>>

LookForget(c) ==
    /\ at[c] = "forget"
    /\ occupy' = Nobody
    /\ Go(c, "unheld")
    /\ UNCHANGED <<entryVars, task, cancelled, active, sealing, runVars, stop,
                   purgeVars>>

\* Mutant: a source that still starts is never given up.
LookDecideRunning(c) ==
    /\ at[c] \in {"unheld", "held"}
    /\ LET abandoned == /\ task = Nobody
                        /\ status = "running"
       IN  \/ /\ status \notin Active
              /\ Go(c, Free(c))
              /\ UNCHANGED entryVars
           \/ /\ status \in Active /\ abandoned
              /\ Settle(Active, "failed")
              /\ Go(c, Free(c))
           \/ /\ status \in Active /\ ~abandoned
              /\ Go(c, "off")
              /\ UNCHANGED entryVars
    /\ UNCHANGED <<tableVars, runVars, stop, purgeVars>>

\* The entry is looked at again before it is given up.
LookDecide(c) ==
    /\ at[c] \in {"unheld", "held"}
    /\ LET abandoned == /\ task = Nobody
                        /\ at[c] = "unheld" \/ status = "running"
       IN  \/ /\ status \notin Active
              /\ Go(c, Free(c))
              /\ UNCHANGED entryVars
           \/ /\ status \in Active /\ abandoned
              /\ Settle(Active, "failed")
              /\ Go(c, Free(c))
           \/ /\ status \in Active /\ ~abandoned
              /\ Go(c, "off")
              /\ UNCHANGED entryVars
    /\ UNCHANGED <<tableVars, runVars, stop, purgeVars>>

(***************************************************************************)
(* From the claim to the dispatcher.                                       *)
(***************************************************************************)
Claim(r) ==
    /\ at[r] = "claim"
    /\ IF occupy # Nobody
       THEN Go(r, "off") /\ UNCHANGED occupy
       ELSE /\ occupy' = r
            /\ Go(r, IF r \in Single THEN "context" ELSE "mark")
    /\ UNCHANGED <<entryVars, task, cancelled, active, sealing, runVars, stop,
                   purgeVars>>

MarkStarting(r) ==
    /\ at[r] = "mark"
    /\ status' = "starting"
    /\ epoch' = epoch + 1
    /\ total' = "unknown"
    /\ outcome' = "done"
    /\ Go(r, "open")
    /\ UNCHANGED <<tableVars, runVars, stop, purgeVars>>

NoQueueId(r) ==
    /\ at[r] = "mark"
    /\ occupy' = Nobody
    /\ Go(r, "off")
    /\ UNCHANGED <<entryVars, task, cancelled, active, sealing, runVars, stop,
                   purgeVars>>

\* The index may have become busy: a batch gives its sources up, a retry only
\* returns the error.
OpenBatch(r) ==
    /\ at[r] = "open"
    /\ Go(r, "context") \/ Go(r, IF r \in Retry THEN "off" ELSE "giveUp")
    /\ UNCHANGED <<entryVars, tableVars, runVars, stop, purgeVars>>

\* snapshotOccupyTokens takes the token that stands there now.
NewContext(r) ==
    /\ at[r] = "context"
    /\ token' = [token EXCEPT ![r] = occupy]
    /\ Go(r, "record")
    /\ UNCHANGED <<entryVars, tableVars, current, runEpoch, failed, stop,
                   purgeVars>>

RecordStart(r) ==
    /\ at[r] = "record"
    /\ \/ Go(r, IF r \in Single THEN "begin" ELSE "version")
       \/ Go(r, IF r \in Single THEN "close" ELSE "giveUp")
    /\ UNCHANGED <<entryVars, tableVars, runVars, stop, purgeVars>>

LoadVersion(r) ==
    /\ at[r] = "version"
    /\ current' = current \cup {r}
    /\ Go(r, "dispatch")
    /\ UNCHANGED <<entryVars, tableVars, token, runEpoch, failed, stop,
                   purgeVars>>

\* The dispatcher and the source's goroutine look twice, with the same end.
Dispatch(r) ==
    /\ at[r] = "dispatch"
    /\ Go(r, IF r \in current THEN "own" ELSE "giveUp")
    /\ UNCHANGED <<entryVars, tableVars, runVars, stop, purgeVars>>

OwnsOccupy(r) == token[r] # Nobody /\ token[r] = occupy

CheckOwner(r) ==
    /\ at[r] = "own"
    /\ Go(r, IF OwnsOccupy(r) THEN "probe" ELSE "release")
    /\ UNCHANGED <<entryVars, tableVars, runVars, stop, purgeVars>>

\* The request for the number of pages ends; it counts only for a source that
\* is still starting.  A stop is not an error; without the time of the last run
\* no request is made.
ProbeEnds(r) ==
    /\ at[r] \in {"probe", "reprobe"}
    /\ LET first == at[r] = "probe"
       IN  \/ /\ status \in Stops
              /\ Go(r, IF first THEN "probed" ELSE "reprobed")
              /\ UNCHANGED <<entryVars, failed>>
           \/ /\ status \notin Stops
              /\ Settle({"starting"}, "failed") \/ UNCHANGED entryVars
              /\ failed' = [failed EXCEPT ![r] = ~first]
              /\ Go(r, IF first THEN "probeFailed" ELSE "unregister")
           \/ /\ status \notin Stops
              /\ total' \in IF status = "starting" THEN {"none", "some"}
                                                   ELSE {total}
              /\ status' = IF status = "starting" /\ total' = "none"
                           THEN "done" ELSE status
              /\ Go(r, IF first THEN "probed" ELSE "reprobed")
              /\ UNCHANGED <<epoch, outcome, failed>>
    /\ UNCHANGED <<tableVars, token, current, runEpoch, stop, purgeVars>>

ProbeFailed(r) ==
    /\ at[r] = "probeFailed"
    /\ Settle(Active, "failed")
    /\ Go(r, "release")
    /\ UNCHANGED <<tableVars, runVars, stop, purgeVars>>

AfterProbe(r) ==
    /\ at[r] = "probed"
    /\ Go(r, IF status \in Stops THEN "giveUp" ELSE "pages")
    /\ UNCHANGED <<entryVars, tableVars, runVars, stop, purgeVars>>

HasPages(r) ==
    /\ at[r] = "pages"
    /\ Go(r, IF total = "some" THEN "handle" ELSE "release")
    /\ UNCHANGED <<entryVars, tableVars, runVars, stop, purgeVars>>

(***************************************************************************)
(* handleCollectWithStopVersion.                                           *)
(***************************************************************************)
HandleVersion(r) ==
    /\ at[r] = "handle"
    /\ Go(r, IF r \in current THEN "ready" ELSE "abort")
    /\ UNCHANGED <<entryVars, tableVars, runVars, stop, purgeVars>>

\* The source may have been disabled or deleted.
HandleReady(r) ==
    /\ at[r] = "ready"
    /\ \/ status \notin Stops /\ Go(r, "begin")
       \/ Go(r, "abort")
    /\ UNCHANGED <<entryVars, tableVars, runVars, stop, purgeVars>>

\* Mutant: the gate does not look who is in.
BeginSourceTwice(r) ==
    /\ at[r] = "begin"
    /\ active' = r
    /\ Go(r, IF r \in Single THEN "film" ELSE "register")
    /\ UNCHANGED <<entryVars, occupy, task, cancelled, sealing, runVars, stop,
                   purgeVars>>

BeginSource(r) ==
    /\ at[r] = "begin"
    /\ active = Nobody
    /\ active' = r
    /\ Go(r, IF r \in Single THEN "film" ELSE "register")
    /\ UNCHANGED <<entryVars, occupy, task, cancelled, sealing, runVars, stop,
                   purgeVars>>

\* Another run is in; or the gate is shut for maintenance, which is no error,
\* or while the index is busy.
GateRefuses(r) ==
    /\ at[r] = "begin"
    /\ \/ Go(r, IF r \in Single THEN "release" ELSE "giveUp")
       \/ Go(r, IF r \in Single THEN "release" ELSE "abort")
    /\ UNCHANGED <<entryVars, tableVars, runVars, stop, purgeVars>>

UpdateFilm(r) ==
    /\ at[r] = "film"
    /\ Go(r, "end")
    /\ UNCHANGED <<entryVars, tableVars, runVars, stop, purgeVars>>

\* TryRegisterTask: looks, and stores the task in the next step.
Register(r) ==
    /\ at[r] = "register"
    /\ TaskMuFree
    /\ r \in current
    /\ task = Nobody
    /\ status \notin Stops
    /\ Go(r, "store")
    /\ UNCHANGED <<entryVars, tableVars, runVars, stop, purgeVars>>

\* Registration refused, or the categories could not be read before.
RegisterFails(r) ==
    /\ at[r] = "register"
    /\ failed' = [failed EXCEPT ![r] = TRUE]
    /\ Go(r, "end")
    /\ UNCHANGED <<entryVars, tableVars, token, current, runEpoch, stop,
                   purgeVars>>

StoreTask(r) ==
    /\ at[r] = "store"
    /\ task' = r
    /\ Go(r, "epoch")
    /\ UNCHANGED <<entryVars, occupy, cancelled, active, sealing, runVars,
                   stop,
                   purgeVars>>

ReadEpoch(r) ==
    /\ at[r] = "epoch"
    /\ runEpoch' = [runEpoch EXCEPT ![r] = epoch]
    /\ Go(r, "ensure")
    /\ UNCHANGED <<entryVars, tableVars, token, current, failed, stop,
                   purgeVars>>

Ensure(r) ==
    /\ at[r] = "ensure"
    /\ Settle({"none"}, "starting")
    /\ Go(r, "total")
    /\ UNCHANGED <<tableVars, runVars, stop, purgeVars>>

\* The time of the last run cannot be read; or the pages: a retry has its own,
\* without a total they are probed again, and none is no error.
PageTotal(r) ==
    /\ at[r] \in {"total", "reprobed"}
    /\ \/ /\ at[r] = "total"
          /\ failed' = [failed EXCEPT ![r] = TRUE]
          /\ Go(r, "unregister")
          /\ UNCHANGED total
       \/ \E targets \in BOOLEAN :
              /\ targets => r \in Retry
              /\ total' = IF targets /\ status = "starting" THEN "some"
                                                            ELSE total
              /\ Go(r, IF targets \/ total = "some" THEN "running"
                       ELSE IF total = "unknown" /\ at[r] = "total"
                            THEN "reprobe" ELSE "unregister")
              /\ UNCHANGED failed
    /\ UNCHANGED <<status, epoch, outcome, tableVars, token, current, runEpoch,
                   stop, purgeVars>>

StartRunning(r) ==
    /\ at[r] = "running"
    /\ status' = IF MayUpdate(r) /\ status = "starting" THEN "running"
                                                        ELSE status
    /\ Go(r, "collect")
    /\ UNCHANGED <<epoch, total, outcome, tableVars, runVars, stop, purgeVars>>

(***************************************************************************)
(* CollectPages: its workers write the progress until the run ends.        *)
(***************************************************************************)
PageStarts(r) ==
    /\ at[r] = "collect"
    /\ MayUpdate(r)
    /\ status' = "running"
    /\ UNCHANGED <<epoch, total, outcome, tableVars, runVars, at, stop,
                   purgeVars>>

\* MarkStopped of a worker that finds its context cancelled.
WorkerStops(r) ==
    /\ at[r] = "collect"
    /\ r \in cancelled
    /\ Settle(Active, "stopped")
    /\ UNCHANGED <<tableVars, runVars, at, stop, purgeVars>>

\* All pages written, some failed, or cancelled; without a page written the
\* run fails.  A source whose first pages all fail is marked as failed here.
CollectEnds(r) ==
    /\ at[r] = "collect"
    /\ \E err, wrote \in BOOLEAN :
           /\ r \in cancelled \/ ~wrote => err
           /\ failed' = [failed EXCEPT ![r] = err]
           /\ Go(r, IF wrote THEN "sealMark" ELSE "unregister")
           /\ \/ UNCHANGED status
              \/ /\ err /\ MayUpdate(r)
                 /\ status' = "failed"
    /\ UNCHANGED <<epoch, total, outcome, tableVars, token, current, runEpoch,
                   stop, purgeVars>>

\* Mutant: the end of the pages also settles a run that is being stopped.
MarkSealingStopping(r) ==
    /\ at[r] \in {"sealMark", "sealStopped"}
    /\ LET stopped == at[r] = "sealStopped"
       IN  IF runEpoch[r] = epoch /\ status \in Active \cup {"stopping"}
           THEN /\ status' = "sealing"
                /\ outcome' = IF stopped THEN "stopped" ELSE "done"
                /\ Go(r, IF stopped THEN "handStopped" ELSE "hand")
           ELSE /\ Go(r, IF stopped THEN "end" ELSE "unregister")
                /\ UNCHANGED <<status, outcome>>
    /\ UNCHANGED <<epoch, total, tableVars, runVars, stop, purgeVars>>

\* markSealing: at the end of the pages, or for a stopped run at the very end.
MarkSealing(r) ==
    /\ at[r] \in {"sealMark", "sealStopped"}
    /\ LET stopped == at[r] = "sealStopped"
           from    == IF stopped THEN Active \cup {"stopping"} ELSE Active
       IN  IF runEpoch[r] = epoch /\ status \in from
           THEN /\ status' = "sealing"
                /\ outcome' = IF stopped THEN "stopped" ELSE "done"
                /\ Go(r, IF stopped THEN "handStopped" ELSE "hand")
           ELSE /\ Go(r, IF stopped THEN "end" ELSE "unregister")
                /\ UNCHANGED <<status, outcome>>
    /\ UNCHANGED <<epoch, total, tableVars, runVars, stop, purgeVars>>

\* Mutant: a stopped run does not hand its source to the seal queue.
AddSealingDone(r) ==
    /\ at[r] \in {"hand", "handStopped"}
    /\ sealing' = (sealing \/ at[r] = "hand")
    /\ Go(r, IF at[r] = "hand" THEN "unregister" ELSE "end")
    /\ UNCHANGED <<entryVars, occupy, task, cancelled, active, runVars, stop,
                   purgeVars>>

AddSealing(r) ==
    /\ at[r] \in {"hand", "handStopped"}
    /\ sealing' = TRUE
    /\ Go(r, IF at[r] = "hand" THEN "unregister" ELSE "end")
    /\ UNCHANGED <<entryVars, occupy, task, cancelled, active, runVars, stop,
                   purgeVars>>

\* UnregisterTask, and the Update that follows it for a failed run.
Unregister(r) ==
    /\ at[r] = "unregister"
    /\ TaskMuFree
    /\ task' = IF task = r THEN Nobody ELSE task
    /\ Go(r, IF task = r /\ failed[r] THEN "unregFail" ELSE "finalize")
    /\ UNCHANGED <<entryVars, occupy, cancelled, active, sealing, runVars,
                   stop,
                   purgeVars>>

UnregFail(r) ==
    /\ at[r] = "unregFail"
    /\ Settle(Active \cup {"done"}, "failed")
    /\ Go(r, "finalize")
    /\ UNCHANGED <<tableVars, runVars, stop, purgeVars>>

\* The deferred finalizer looks whether it was stopped, publishes what the run
\* wrote, and then settles a stopped run.
Finalize(r) ==
    /\ at[r] = "finalize"
    /\ Go(r, IF status = "stopping" THEN "sealStopped" ELSE "end")
    /\ UNCHANGED <<entryVars, tableVars, runVars, stop, purgeVars>>

EndSource(r) ==
    /\ at[r] = "end"
    /\ active' = Nobody
    /\ Go(r, IF failed[r] THEN "abort" ELSE "release")
    /\ UNCHANGED <<entryVars, occupy, task, cancelled, sealing, runVars, stop,
                   purgeVars>>

(***************************************************************************)
(* The ways out.                                                           *)
(***************************************************************************)
\* abandonQueuedCollectSource: MarkStopped, then the token.
GiveUp(r) ==
    /\ at[r] = "giveUp"
    /\ Settle(Active, "stopped")
    /\ Go(r, "release")
    /\ UNCHANGED <<tableVars, runVars, stop, purgeVars>>

\* abortUnstartedCollect: only the owner of the token writes the progress.
Abort(r) ==
    /\ at[r] = "abort"
    /\ Go(r, IF OwnsOccupy(r) THEN "abortFail" ELSE "release")
    /\ UNCHANGED <<entryVars, tableVars, runVars, stop, purgeVars>>

AbortFail(r) ==
    /\ at[r] = "abortFail"
    /\ Settle(Active, "failed")
    /\ Go(r, "release")
    /\ UNCHANGED <<tableVars, runVars, stop, purgeVars>>

\* Mutant: a token is given back by somebody who does not have it.
ReleaseNothing(r) ==
    /\ at[r] = "release"
    /\ token' = [token EXCEPT ![r] = Nobody]
    /\ current' = current \ {r}
    /\ failed' = [failed EXCEPT ![r] = @ /\ runEpoch[r] # NoEpoch]
    /\ Go(r, IF runEpoch[r] = NoEpoch THEN "off" ELSE "finish")
    /\ UNCHANGED <<entryVars, tableVars, runEpoch, stop, purgeVars>>

\* releaseSourceOccupy: without a token of its own, whatever stands there.
ReleaseOccupy(r) ==
    /\ at[r] = "release"
    /\ occupy' = IF token[r] \in {Nobody, occupy} THEN Nobody ELSE occupy
    /\ token' = [token EXCEPT ![r] = Nobody]
    /\ current' = current \ {r}
    /\ failed' = [failed EXCEPT ![r] = @ /\ runEpoch[r] # NoEpoch]
    /\ Go(r, IF runEpoch[r] = NoEpoch THEN "off" ELSE "finish")
    /\ UNCHANGED <<entryVars, task, cancelled, active, sealing, runEpoch,
                   stop, purgeVars>>

CloseContext(r) ==
    /\ at[r] = "close"
    /\ occupy' = IF OwnsOccupy(r) THEN Nobody ELSE occupy
    /\ token' = [token EXCEPT ![r] = Nobody]
    /\ Go(r, "off")
    /\ UNCHANGED <<entryVars, task, cancelled, active, sealing, current,
                   runEpoch, failed, stop, purgeVars>>

\* The goroutine ends with its context.
FinishRun(r) ==
    /\ at[r] = "finish"
    /\ status' = IF runEpoch[r] # epoch THEN status
                 ELSE IF status = "stopping" THEN "stopped"
                 ELSE IF failed[r] /\ status \in Active THEN "failed"
                 ELSE status
    /\ runEpoch' = [runEpoch EXCEPT ![r] = NoEpoch]
    /\ failed' = [failed EXCEPT ![r] = FALSE]
    /\ cancelled' = cancelled \ {r}
    /\ Go(r, "off")
    /\ UNCHANGED <<epoch, total, outcome, occupy, task, active, sealing, token,
                   current, stop, purgeVars>>

(***************************************************************************)
(* Stops.                                                                  *)
(***************************************************************************)
There(x, place) == stop' = [stop EXCEPT ![x] = place]

\* StopAllCollect: the new version first, then the tasks that are registered.
StopVersion(x) ==
    /\ x \in StopAll /\ stop[x] = "new"
    /\ current' = {}
    /\ There(x, "range")
    /\ UNCHANGED <<entryVars, tableVars, token, runEpoch, failed, at,
                   purgeVars>>

StopRange(x) ==
    /\ stop[x] = "range"
    /\ There(x, IF task = Nobody THEN "markAll" ELSE "mark")
    /\ UNCHANGED <<entryVars, tableVars, runVars, at, purgeVars>>

\* RequestStop: a registered run is marked, cancelled and taken out; a source
\* that still waits is stopped.
StopMark(x) ==
    /\ IF x \in StopOne THEN stop[x] = "new" ELSE stop[x] = "mark"
    /\ TaskMuFree
    /\ \/ /\ task # Nobody
          /\ Settle(Active, "stopping")
          /\ There(x, "cancel")
       \/ /\ task = Nobody
          /\ Settle(Active \cup {"stopping"}, "stopped")
          /\ There(x, IF x \in StopOne THEN "release" ELSE "markAll")
    /\ UNCHANGED <<tableVars, runVars, at, purgeVars>>

\* Mutant: the task is taken out and its context is not cancelled.
StopForgets(x) ==
    /\ stop[x] = "cancel"
    /\ task' = Nobody
    /\ There(x, IF x \in StopOne THEN "release" ELSE "markAll")
    /\ UNCHANGED <<entryVars, occupy, cancelled, active, sealing, runVars, at,
                   purgeVars>>

StopCancel(x) ==
    /\ stop[x] = "cancel"
    /\ cancelled' = cancelled \cup {task}
    /\ task' = Nobody
    /\ There(x, IF x \in StopOne THEN "release" ELSE "markAll")
    /\ UNCHANGED <<entryVars, occupy, active, sealing, runVars, at, purgeVars>>

StopMarkAll(x) ==
    /\ stop[x] = "markAll"
    /\ Settle(Active, "stopped")
    /\ There(x, "live")
    /\ UNCHANGED <<tableVars, runVars, at, purgeVars>>

\* releaseQueuedCollectOccupies spares the token of a source with a task.
StopLive(x) ==
    /\ stop[x] = "live"
    /\ There(x, IF task = Nobody THEN "release" ELSE "off")
    /\ UNCHANGED <<entryVars, tableVars, runVars, at, purgeVars>>

StopRelease(x) ==
    /\ stop[x] = "release"
    /\ occupy' = Nobody
    /\ There(x, "off")
    /\ UNCHANGED <<entryVars, task, cancelled, active, sealing, runVars, at,
                   purgeVars>>

(***************************************************************************)
(* The seal queue settles what was handed to it; the tick deletes entries  *)
(* that ended some seconds ago.                                            *)
(***************************************************************************)
MarkSealed ==
    /\ sealing
    /\ sealing' = FALSE
    /\ Settle({"sealing"}, outcome)
    /\ UNCHANGED <<occupy, task, cancelled, active, runVars, at, stop,
                   purgeVars>>

PurgeLook ==
    /\ purges < MaxPurges
    /\ status \in Terminal
    /\ ~purging
    /\ purging' = TRUE
    /\ purges' = purges + 1
    /\ UNCHANGED <<entryVars, tableVars, runVars, at, stop>>

PurgeDelete ==
    /\ purging
    /\ purging' = FALSE
    /\ status' = "none"
    /\ epoch' = 0
    /\ total' = "unknown"
    /\ outcome' = "done"
    /\ UNCHANGED <<tableVars, runVars, at, stop, purges>>

-----------------------------------------------------------------------------
Look(c) == \/ LookActive(c) \/ LookOccupied(c) \/ LookTerminal(c)
           \/ LookForget(c) \/ LookDecide(c)

Start(r) == \/ LookStatus(r) \/ Look(r) \/ Claim(r) \/ MarkStarting(r)
            \/ NoQueueId(r) \/ OpenBatch(r) \/ NewContext(r) \/ RecordStart(r)
            \/ LoadVersion(r) \/ Dispatch(r) \/ CheckOwner(r) \/ ProbeEnds(r)
            \/ ProbeFailed(r) \/ AfterProbe(r) \/ HasPages(r)
            \/ HandleVersion(r) \/ HandleReady(r) \/ BeginSource(r)
            \/ GateRefuses(r) \/ UpdateFilm(r) \/ Register(r)
            \/ RegisterFails(r) \/ StoreTask(r) \/ ReadEpoch(r) \/ Ensure(r)
            \/ PageTotal(r) \/ StartRunning(r)

Leave(r) == \/ CollectEnds(r) \/ MarkSealing(r) \/ AddSealing(r)
            \/ Unregister(r) \/ UnregFail(r) \/ Finalize(r) \/ EndSource(r)
            \/ GiveUp(r) \/ Abort(r) \/ AbortFail(r) \/ ReleaseOccupy(r)
            \/ CloseContext(r) \/ FinishRun(r)

StopStep(x) == \/ StopRange(x) \/ StopCancel(x) \/ StopMarkAll(x)
               \/ StopLive(x) \/ StopRelease(x)

Next ==
    \/ \E r \in Run : \/ LookTasks(r) \/ Start(r) \/ Leave(r)
                      \/ PageStarts(r) \/ WorkerStops(r)
    \/ Look(Keeper)
    \/ \E x \in Stopper : StopVersion(x) \/ StopMark(x) \/ StopStep(x)
    \/ MarkSealed \/ PurgeLook \/ PurgeDelete

Spec == Init /\ [][Next]_vars

\* Goroutines run, the probe and the pages end (every request has a timeout),
\* the tick comes and the seal queue settles.  A request or stop may never come.
Fairness ==
    /\ \A r \in Run : WF_vars(Start(r)) /\ WF_vars(Leave(r))
    /\ WF_vars(Look(Keeper))
    /\ WF_vars(MarkSealed)
    /\ \A x \in Stopper : WF_vars(StopStep(x))
    /\ \A x \in StopAll : WF_vars(StopMark(x))

FairSpec == Spec /\ Fairness

-----------------------------------------------------------------------------
\* Two runs of a source never collect or finish at the same time, however they
\* came past the checks, tokens and stops before the gate (beginSource).
OneCollects ==
    \A r, q \in Run : at[r] \in Gated /\ at[q] \in Gated => r = q

\* The types of the runs, and at most one of them in the gate.
RunSafe == TypeOK /\ OneCollects

\* A stop always reaches a run that collects: the run is in the task table, or
\* its context is cancelled already (TryRegisterTask, RequestStop).
Reachable ==
    \A r \in Run : at[r] \in Collecting /\ r \notin cancelled => task = r

\* A source that waits to be sealed is known to the seal queue, which settles
\* it, or in the hands of the run that is about to tell the queue.
SealingHandedOver ==
    status = "sealing" =>
        \/ sealing
        \/ \E r \in Run : at[r] \in {"hand", "handStopped"}

\* An ended request does not keep its source occupied: whatever way it took, a
\* later request can claim the source (releaseSourceOccupy and the ways out).
NoOrphanClaim ==
    \A r \in Run : occupy = r => at[r] # "off"

\* Within one epoch an ended source never runs again: no late page, probe or
\* worker of a run brings it back (UpdateRun, setStatusIf).
NoRevival ==
    [][(status \in Terminal /\ epoch' = epoch =>
            status' \in Terminal \cup {"none"})]_vars

\* Within one epoch a source that is being stopped ends as stopped, though its
\* run may finish its pages, fail or be asked to stop again meanwhile; only its
\* entry may be deleted.
StopKept ==
    [][(status = "stopping" /\ epoch' = epoch =>
            \/ status' \in {"stopping", "stopped", "none"}
            \/ status' = "sealing" /\ outcome' = "stopped")]_vars

\* What an ended or stopping source shows is final within its epoch.
StatusKept == NoRevival /\ StopKept

\* A source does not stay starting or running for ever: its run ends, or the
\* tick finds it abandoned (pruneStale), and the source can be started again.
EntrySettles == status \in Active ~> status \notin Active

\* What tasks.go:33 says of canStart: a run that passed it and StopAllCollect
\* exclude each other, so after a stop of everything no earlier run collects on.
StopAllExcludes ==
    \A x \in StopAll : stop[x] = "off" =>
        \A r \in Run : at[r] = "collect" /\ r \notin current =>
            r \in cancelled
=============================================================================
