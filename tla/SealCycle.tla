----------------------------- MODULE SealCycle -----------------------------
(***************************************************************************)
(* The seal cycle: how collected films get into the shared search index,   *)
(* and how the sources that wait for it are settled                        *)
(* (src/server/internal/spider/collect_search_reseal_queue.go and          *)
(* src/server/internal/repository/film/snapshot/search_*.go).              *)
(*                                                                         *)
(* Sources that finish hand their films to `pending' and themselves to     *)
(* `sealing'; one runner waits until no source collects, reseals the index *)
(* with the pending films and settles the sources.  Where there is no      *)
(* index, or a read fails, the reseal requests a full rebuild; searches    *)
(* load an absent index on demand.  Every "done" or "idle" of the index    *)
(* calls back into the queue.                                              *)
(*                                                                         *)
(* Locks: q.mu (the queue), searchRebuild.mu, activeFilmSearchMetasMu and  *)
(* the gate's mutex.  A step is one critical section or one access to an   *)
(* atomic flag; a lock held from one step to the next is a predicate       *)
(* (QueueFree, RebuildFree) or the variable idxMu.  Which row of a film    *)
(* the index or an image in memory holds is abstracted to "the current row *)
(* or an older one".                                                       *)
(***************************************************************************)
EXTENDS Sequences, FiniteSets, Naturals

CONSTANTS
    Source,            \* the collect sources
    Film,              \* the films, by mid
    Ending,            \* a bound: how runs end, see FinishRun
    MaxFailures,       \* a bound: reads of the database that fail
    MaxInvalidations,  \* a bound: how often the shared index is cleared
    Free               \* nobody holds activeFilmSearchMetasMu

Loader == {"scan", "load"}   \* runSearchRebuild, and the on-demand load

ASSUME SealAssumption ==
    /\ Ending \subseteq {"done", "stopped", "abandoned", "failed"}
    /\ MaxFailures \in Nat
    /\ MaxInvalidations \in Nat
    /\ Free \notin Loader

VARIABLES
    active,        \* collectLifecycle.activeSources
    rest,          \* what each run that ends still has to call, see FinishRun
    notify,        \* where each source is in notifySealWaiting
    starter,       \* sources that start the runner after that
    status,        \* progress status: open, sealing or settled
    wrote,         \* films a run wrote and has not scheduled (affectedMIDs)
    pending,       \* searchReseal.pending
    sealing,       \* searchReseal.sealing
    running,       \* searchReseal.running
    runner,        \* where searchReseal.run is
    mids,          \* the films the runner took
    read,          \* those of them whose row in the reseal's memory is current
    moved,         \* the index is no longer the one the reseal read for
    sealRunning,   \* searchSealRunning
    building,      \* isSearchIndexBuilding
    indexed,       \* activeFilmSearchMetas holds an index
    current,       \* films whose entry in the index is the current row
    idxMu,         \* the loader that holds activeFilmSearchMetasMu
    timer,         \* searchRebuild.timer # nil
    rebuilding,    \* searchRebuild.running
    loader,        \* where each loader is
    image,         \* films whose row in a loader's memory is current
    seen,          \* searchRebuild.gen is still the one the loader saw
    edits,         \* films edited in the database, not yet upserted
    givenUp,       \* history: the last full scan failed
    failures,      \* reads that failed
    invalidations  \* times the index was cleared

callVars    == <<rest, notify, starter>>
sourceVars  == <<active, callVars, status, wrote>>
queueVars   == <<pending, sealing, running>>
copyVars    == <<mids, read, moved>>
runnerVars  == <<runner, copyVars>>
flags       == <<sealRunning, building>>
indexVars   == <<indexed, current>>
rebuildVars == <<timer, rebuilding, seen>>
loaderVars  == <<idxMu, loader, image>>
boundVars   == <<givenUp, failures, invalidations>>
worldVars   == <<indexVars, rebuildVars, loaderVars, edits, boundVars>>
vars == <<sourceVars, queueVars, runnerVars, flags, worldVars>>

RunnerState == {"off", "top", "probe", "wait", "take", "seal", "load", "read",
                "install", "request", "done", "settle", "unseal", "after",
                "recheck", "still", "sched", "finish", "tell", "tellSettle"}
LoaderState == {"off", "begin", "lock", "read", "store", "tell", "settle",
                "next"}
Call == {"mark", "add", "schedule", "end"}

SourceTypes ==
    /\ active \subseteq Source
    /\ rest \in [Source -> Seq(Call)]
    /\ notify \in [Source -> {"no", "look", "tell"}]
    /\ starter \subseteq Source
    /\ status \in [Source -> {"open", "sealing", "settled"}]
    /\ wrote \in [Source -> SUBSET Film]

QueueTypes ==
    /\ pending \subseteq Film
    /\ sealing \subseteq Source
    /\ running \in BOOLEAN
    /\ runner \in RunnerState
    /\ mids \subseteq Film
    /\ read \subseteq mids
    /\ moved \in BOOLEAN
    /\ sealRunning \in BOOLEAN
    /\ building \in BOOLEAN

LoaderTypes ==
    /\ idxMu \in Loader \cup {Free}
    /\ timer \in BOOLEAN
    /\ rebuilding \in BOOLEAN
    /\ seen \in [Loader -> BOOLEAN]
    /\ loader \in [Loader -> LoaderState]
    /\ image \in [Loader -> SUBSET Film]

WorldTypes ==
    /\ indexed \in BOOLEAN
    /\ current \subseteq Film
    /\ edits \subseteq Film
    /\ givenUp \in BOOLEAN
    /\ failures \in 0 .. MaxFailures
    /\ invalidations \in 0 .. MaxInvalidations

TypeOK == SourceTypes /\ QueueTypes /\ LoaderTypes /\ WorldTypes

Init ==
    /\ active = {}
    /\ rest = [s \in Source |-> <<>>]
    /\ notify = [s \in Source |-> "no"]
    /\ starter = {}
    /\ status = [s \in Source |-> "open"]
    /\ wrote = [s \in Source |-> {}]
    /\ pending = {}
    /\ sealing = {}
    /\ running = FALSE
    /\ runner = "off"
    /\ mids = {}
    /\ read = {}
    /\ moved = FALSE
    /\ sealRunning = FALSE
    /\ building = FALSE
    /\ indexed = TRUE
    /\ current = Film
    /\ idxMu = Free
    /\ timer = FALSE
    /\ rebuilding = FALSE
    /\ loader = [l \in Loader |-> "off"]
    /\ image = [l \in Loader |-> {}]
    /\ seen = [l \in Loader |-> FALSE]
    /\ edits = {}
    /\ givenUp = FALSE
    /\ failures = 0
    /\ invalidations = 0

-----------------------------------------------------------------------------
\* run holds q.mu while it asks for the state of the rebuild.
QueueFree == runner \notin {"still", "sched"}

\* notifySearchIndexIfCurrent holds searchRebuild.mu while its listeners run.
RebuildFree == \A l \in Loader : loader[l] # "settle"

IndexFree == idxMu = Free

\* The listener of "done" and "idle": complete and MarkSealed.  A source in
\* sealing is not started again, so nothing comes between the two.
Complete ==
    /\ sealing' = {}
    /\ status' = [s \in Source |-> IF s \in sealing /\ status[s] = "sealing"
                                   THEN "settled" ELSE status[s]]

\* A row of f is written: every copy in memory is an older row now.
WriteRow(f) ==
    /\ current' = current \ {f}
    /\ read' = read \ {f}
    /\ image' = [l \in Loader |-> image[l] \ {f}]

\* A new index, or none, while the reseal holds rows read for the old one.
MoveIndex == moved' = (runner \in {"read", "install"})

\* The shared index is replaced by one whose up to date films are `films'.
Publish(films) ==
    /\ indexed' = TRUE
    /\ current' = films

ReadFails == /\ failures < MaxFailures
             /\ failures' = failures + 1

(***************************************************************************)
(* A source.  beginSource looks at both flags under the gate's mutex; a    *)
(* source that waits for the index counts as running and is not started.   *)
(***************************************************************************)
BeginSource(s) ==
    /\ s \notin active
    /\ status[s] # "sealing"
    /\ ~sealRunning
    /\ ~building
    /\ active' = active \cup {s}
    /\ status' = [status EXCEPT ![s] = "open"]
    /\ UNCHANGED <<callVars, wrote, queueVars, runnerVars, flags, worldVars>>

Collecting(s) == s \in active /\ rest[s] = <<>>

WriteFilm(s, f) ==
    /\ Collecting(s)
    /\ WriteRow(f)
    /\ wrote' = [wrote EXCEPT ![s] = @ \cup {f}]
    /\ UNCHANGED <<active, callVars, status, queueVars, runner, mids, moved,
                   flags, indexed, rebuildVars, idxMu, loader, edits,
                   boundVars>>

\* What is left to do when a run ends: done (handleCollect calls addSealing and
\* its deferred finalizer then schedules the films), stopped (the finalizer
\* schedules first), abandoned (markSealing refuses), failed without a page.
Rest == [done      |-> <<"mark", "add", "schedule", "end">>,
         stopped   |-> <<"schedule", "mark", "add", "end">>,
         abandoned |-> <<"schedule", "end">>,
         failed    |-> <<"end">>]

FinishRun(s, ending) ==
    /\ Collecting(s)
    /\ ending = "failed" => wrote[s] = {}
    /\ rest' = [rest EXCEPT ![s] = Rest[ending]]
    /\ UNCHANGED <<active, notify, starter, status, wrote, queueVars,
                   runnerVars, flags, worldVars>>

Calls(s, call) ==
    /\ rest[s] # <<>> /\ Head(rest[s]) = call
    /\ notify[s] = "no"
    /\ s \notin starter
    /\ rest' = [rest EXCEPT ![s] = Tail(@)]

MarkSealing(s) ==
    /\ Calls(s, "mark")
    /\ status' = [status EXCEPT ![s] = "sealing"]
    /\ UNCHANGED <<active, notify, starter, wrote, queueVars, runnerVars, flags,
                   worldVars>>

\* Under q.mu: the caller that finds no runner marks one as running; it starts
\* the goroutine after notifySealWaiting.
StartRunner(s) ==
    /\ running' = TRUE
    /\ starter' = IF running THEN starter ELSE starter \cup {s}
    /\ notify' = [notify EXCEPT ![s] = "look"]

AddSealing(s) ==
    /\ Calls(s, "add")
    /\ QueueFree
    /\ sealing' = sealing \cup {s}
    /\ StartRunner(s)
    /\ UNCHANGED <<active, status, wrote, pending, runnerVars, flags,
                   worldVars>>

\* sealFinishedSource takes the films of the run and schedules them.
ScheduleReseal(s) ==
    /\ Calls(s, "schedule")
    /\ QueueFree
    /\ wrote' = [wrote EXCEPT ![s] = {}]
    /\ pending' = pending \cup wrote[s]
    /\ \/ wrote[s] = {} /\ UNCHANGED <<running, starter, notify>>
       \/ wrote[s] # {} /\ StartRunner(s)
    /\ UNCHANGED <<active, status, sealing, runnerVars, flags, worldVars>>

\* notifySealWaiting reads the flags, and clears one of them in a later step.
SealWaitingLook(s) ==
    /\ notify[s] = "look"
    /\ notify' = [notify EXCEPT ![s] = IF sealRunning \/ building
                                       THEN "no" ELSE "tell"]
    /\ UNCHANGED <<active, rest, starter, status, wrote, queueVars, runnerVars,
                   flags, worldVars>>

SealWaitingTell(s) ==
    /\ notify[s] = "tell"
    /\ notify' = [notify EXCEPT ![s] = "no"]
    /\ building' = FALSE
    /\ UNCHANGED <<active, rest, starter, status, wrote, queueVars, runnerVars,
                   sealRunning, worldVars>>

GoRun(s) ==
    /\ s \in starter
    /\ notify[s] = "no"
    /\ starter' = starter \ {s}
    /\ runner' = "top"
    /\ UNCHANGED <<active, rest, notify, status, wrote, queueVars, copyVars,
                   flags, worldVars>>

EndSource(s) ==
    /\ Calls(s, "end")
    /\ active' = active \ {s}
    /\ UNCHANGED <<notify, starter, status, wrote, queueVars, runnerVars, flags,
                   worldVars>>

(***************************************************************************)
(* The runner of the queue.                                                *)
(***************************************************************************)
\* Mutant: films that come in while the sources are settled are not looked at.
RunTopSealingOnly ==
    /\ runner = "top"
    /\ IF sealing = {} THEN running' = FALSE /\ runner' = "off"
                       ELSE running' = running /\ runner' = "probe"
    /\ UNCHANGED <<sourceVars, pending, sealing, copyVars, flags, worldVars>>

\* Mutant: a cycle without films is not run.
RunTopPendingOnly ==
    /\ runner = "top"
    /\ IF pending = {} THEN running' = FALSE /\ runner' = "off"
                       ELSE running' = running /\ runner' = "probe"
    /\ UNCHANGED <<sourceVars, pending, sealing, copyVars, flags, worldVars>>

RunTop ==
    /\ runner = "top"
    /\ IF pending = {} /\ sealing = {}
       THEN running' = FALSE /\ runner' = "off"
       ELSE running' = running /\ runner' = "probe"
    /\ UNCHANGED <<sourceVars, pending, sealing, copyVars, flags, worldVars>>

\* collecting() of the gate, and waitUntilIdle.
RunProbe ==
    /\ runner = "probe"
    /\ runner' = IF active = {} THEN "take" ELSE "wait"
    /\ UNCHANGED <<sourceVars, queueVars, copyVars, flags, worldVars>>

RunWait ==
    /\ runner = "wait"
    /\ active = {}
    /\ runner' = "top"
    /\ UNCHANGED <<sourceVars, queueVars, copyVars, flags, worldVars>>

RunTake ==
    /\ runner = "take"
    /\ mids' = pending
    /\ pending' = {}
    /\ runner' = IF pending = {} THEN "after" ELSE "seal"
    /\ UNCHANGED <<sourceVars, sealing, running, read, moved, flags, worldVars>>

RunSeal ==
    /\ runner = "seal"
    /\ sealRunning' = TRUE
    /\ runner' = "load"
    /\ UNCHANGED <<sourceVars, queueVars, copyVars, building, worldVars>>

(***************************************************************************)
(* ResealSearchIndexMids.  The rows are read without a lock; they are      *)
(* installed only if the index did not change meanwhile.                   *)
(***************************************************************************)
ResealLoad ==
    /\ runner = "load"
    /\ IF indexed THEN /\ runner' = "read"
                       /\ moved' = FALSE
                       /\ building' = TRUE
                  ELSE /\ runner' = "request"
                       /\ UNCHANGED <<moved, building>>
    /\ UNCHANGED <<sourceVars, queueVars, mids, read, sealRunning, worldVars>>

ResealRead ==
    /\ runner = "read"
    /\ \/ /\ read' = mids
          /\ runner' = "install"
          /\ UNCHANGED failures
       \/ /\ ReadFails
          /\ runner' = "request"
          /\ UNCHANGED read
    /\ UNCHANGED <<sourceVars, queueVars, mids, moved, flags, indexVars,
                   rebuildVars, loaderVars, edits, givenUp, invalidations>>

\* Mutant: the base of the rows is not compared with the index.
ResealInstallBlind ==
    /\ runner = "install"
    /\ IndexFree
    /\ read' = {}
    /\ \/ /\ ~indexed
          /\ runner' = "request"
          /\ UNCHANGED <<indexVars, moved>>
       \/ /\ indexed
          /\ Publish((current \ mids) \cup read)
          /\ runner' = "done"
          /\ UNCHANGED moved
    /\ UNCHANGED <<sourceVars, queueVars, mids, flags, rebuildVars, loaderVars,
                   edits, boundVars>>

ResealInstall ==
    /\ runner = "install"
    /\ IndexFree
    /\ read' = {}
    /\ \/ /\ ~indexed
          /\ runner' = "request"
          /\ UNCHANGED <<indexVars, moved>>
       \/ /\ indexed /\ moved
          /\ runner' = "read"
          /\ moved' = FALSE
          /\ UNCHANGED indexVars
       \/ /\ indexed /\ ~moved
          /\ Publish((current \ mids) \cup read)
          /\ runner' = "done"
          /\ UNCHANGED moved
    /\ UNCHANGED <<sourceVars, queueVars, mids, flags, rebuildVars, loaderVars,
                   edits, boundVars>>

\* RequestActiveFilmSearchIndexRebuild: a new generation, and a timer unless a
\* rebuild runs, which then goes round again.
RequestRebuild ==
    /\ runner = "request"
    /\ RebuildFree
    /\ seen' = [l \in Loader |-> FALSE]
    /\ building' = TRUE
    /\ timer' = (timer \/ ~rebuilding)
    /\ runner' = "unseal"
    /\ UNCHANGED <<sourceVars, queueVars, copyVars, sealRunning, indexVars,
                   rebuilding, loaderVars, edits, boundVars>>

\* The reseal's "done" clears the flag, then its listener settles the sources.
ResealDone ==
    /\ runner = "done"
    /\ building' = FALSE
    /\ runner' = "settle"
    /\ UNCHANGED <<sourceVars, queueVars, copyVars, sealRunning, worldVars>>

ResealSettle ==
    /\ runner = "settle"
    /\ Complete
    /\ runner' = "unseal"
    /\ UNCHANGED <<active, callVars, wrote, pending, running, copyVars, flags,
                   worldVars>>

RunUnseal ==
    /\ runner = "unseal"
    /\ sealRunning' = FALSE
    /\ runner' = "after"
    /\ UNCHANGED <<sourceVars, queueVars, copyVars, building, worldVars>>

\* The second operand of the disjunction, which needs searchRebuild.mu, is
\* only evaluated when the first one is false.
RunAfter ==
    /\ runner = "after"
    /\ \/ /\ building
          /\ runner' = "recheck"
       \/ /\ ~building
          /\ RebuildFree
          /\ runner' = IF timer \/ rebuilding THEN "recheck" ELSE "finish"
    /\ UNCHANGED <<sourceVars, queueVars, copyVars, flags, worldVars>>

RunRecheck ==
    /\ runner = "recheck"
    /\ runner' = "still"
    /\ UNCHANGED <<sourceVars, queueVars, copyVars, flags, worldVars>>

\* Films that came in are sealed next, and the sources are left to the end of
\* a rebuild that is still due.
LeaveToRebuild(due) ==
    IF pending # {} \/ ~due
    THEN running' = running /\ runner' = "top" /\ mids' = {}
    ELSE running' = FALSE /\ runner' = "off" /\ mids' = {}

\* Under q.mu, first the flag, then searchRebuild.mu.
RunStill ==
    /\ runner = "still"
    /\ IF building THEN LeaveToRebuild(TRUE)
                   ELSE /\ runner' = "sched"
                        /\ UNCHANGED <<running, mids>>
    /\ UNCHANGED <<sourceVars, pending, sealing, read, moved, flags, worldVars>>

\* Mutant: run leaves although films came in.
RunSchedLeaves ==
    /\ runner = "sched"
    /\ RebuildFree
    /\ running' = FALSE
    /\ runner' = "off"
    /\ mids' = {}
    /\ UNCHANGED <<sourceVars, pending, sealing, read, moved, flags, worldVars>>

RunSched ==
    /\ runner = "sched"
    /\ RebuildFree
    /\ LeaveToRebuild(timer \/ rebuilding)
    /\ UNCHANGED <<sourceVars, pending, sealing, read, moved, flags, worldVars>>

RunFinish ==
    /\ runner = "finish"
    /\ Complete
    /\ runner' = IF mids = {} THEN "tell" ELSE "top"
    /\ mids' = {}
    /\ UNCHANGED <<active, callVars, wrote, pending, running, read, moved,
                   flags, worldVars>>

\* A cycle without films still announces its end.
RunTell ==
    /\ runner = "tell"
    /\ building' = FALSE
    /\ runner' = "tellSettle"
    /\ UNCHANGED <<sourceVars, queueVars, copyVars, sealRunning, worldVars>>

RunTellSettle ==
    /\ runner = "tellSettle"
    /\ Complete
    /\ runner' = "top"
    /\ UNCHANGED <<active, callVars, wrote, pending, running, copyVars, flags,
                   worldVars>>

(***************************************************************************)
(* The two full loads: the rebuild the timer starts, and the load a search *)
(* starts when there is no index.  Both read and store under               *)
(* activeFilmSearchMetasMu.                                                *)
(***************************************************************************)
StartRebuild ==
    /\ timer
    /\ RebuildFree
    /\ timer' = FALSE
    /\ rebuilding' = TRUE
    /\ loader' = IF rebuilding THEN loader
                               ELSE [loader EXCEPT !["scan"] = "begin"]
    /\ UNCHANGED <<sourceVars, queueVars, runnerVars, flags, indexVars, seen,
                   idxMu, image, edits, boundVars>>

LoadOnDemand ==
    /\ loader["load"] = "off"
    /\ ~indexed
    /\ loader' = [loader EXCEPT !["load"] = "begin"]
    /\ UNCHANGED <<sourceVars, queueVars, runnerVars, flags, indexVars,
                   rebuildVars, idxMu, image, edits, boundVars>>

LoaderSee(l) ==
    /\ loader[l] = "begin"
    /\ RebuildFree
    /\ seen' = [seen EXCEPT ![l] = TRUE]
    /\ loader' = [loader EXCEPT ![l] = "lock"]
    /\ UNCHANGED <<sourceVars, queueVars, runnerVars, flags, indexVars, timer,
                   rebuilding, idxMu, image, edits, boundVars>>

LoaderLock(l) ==
    /\ loader[l] = "lock"
    /\ IndexFree
    /\ IF l = "load" /\ indexed
       THEN /\ loader' = [loader EXCEPT ![l] = "off"]
            /\ seen' = [seen EXCEPT ![l] = FALSE]
            /\ UNCHANGED <<idxMu, building>>
       ELSE /\ loader' = [loader EXCEPT ![l] = "read"]
            /\ idxMu' = l
            /\ building' = TRUE
            /\ UNCHANGED seen
    /\ UNCHANGED <<sourceVars, queueVars, runnerVars, sealRunning, indexVars,
                   timer, rebuilding, image, edits, boundVars>>

\* A failed scan gives the lock back before it reports; a failed load after.
LoaderRead(l) ==
    /\ loader[l] = "read"
    /\ \/ /\ image' = [image EXCEPT ![l] = Film]
          /\ loader' = [loader EXCEPT ![l] = "store"]
          /\ UNCHANGED <<idxMu, givenUp, failures>>
       \/ /\ ReadFails
          /\ loader' = [loader EXCEPT ![l] = "tell"]
          /\ idxMu' = IF l = "scan" THEN Free ELSE idxMu
          /\ givenUp' = (givenUp \/ l = "scan")
          /\ UNCHANGED image
    /\ UNCHANGED <<sourceVars, queueVars, runnerVars, flags, indexVars,
                   rebuildVars, edits, invalidations>>

LoaderStore(l) ==
    /\ loader[l] = "store"
    /\ Publish(image[l])
    /\ MoveIndex
    /\ givenUp' = FALSE
    /\ image' = [image EXCEPT ![l] = {}]
    /\ loader' = [loader EXCEPT ![l] = "tell"]
    /\ UNCHANGED <<sourceVars, queueVars, runner, mids, read, flags,
                   rebuildVars, idxMu, edits, failures, invalidations>>

\* What follows the notification: the load gives the index back and ends, a
\* scan gives it back and looks for another round.
LoaderLeave(l) ==
    /\ loader' = [loader EXCEPT ![l] = IF l = "scan" THEN "next" ELSE "off"]
    /\ seen' = [seen EXCEPT !["load"] = @ /\ l # "load"]
    /\ idxMu' = IF idxMu = l THEN Free ELSE idxMu

\* notifySearchIndexIfCurrent: the flag and then the listener, under
\* searchRebuild.mu; nothing for a generation that has passed.
LoaderTell(l) ==
    /\ loader[l] = "tell"
    /\ RebuildFree
    /\ IF seen[l] THEN /\ building' = FALSE
                       /\ loader' = [loader EXCEPT ![l] = "settle"]
                       /\ UNCHANGED <<seen, idxMu>>
                  ELSE /\ LoaderLeave(l)
                       /\ UNCHANGED building
    /\ UNCHANGED <<sourceVars, queueVars, runnerVars, sealRunning, indexVars,
                   timer, rebuilding, image, edits, boundVars>>

LoaderSettle(l) ==
    /\ loader[l] = "settle"
    /\ QueueFree
    /\ Complete
    /\ LoaderLeave(l)
    /\ UNCHANGED <<active, callVars, wrote, pending, running, runnerVars, flags,
                   indexVars, timer, rebuilding, image, edits, boundVars>>

\* The end of a round of runSearchRebuild: another one if it was requested.
RebuildNext ==
    /\ loader["scan"] = "next"
    /\ RebuildFree
    /\ IF seen["scan"] THEN /\ rebuilding' = FALSE
                            /\ loader' = [loader EXCEPT !["scan"] = "off"]
                       ELSE /\ loader' = [loader EXCEPT !["scan"] = "begin"]
                            /\ UNCHANGED rebuilding
    /\ UNCHANGED <<sourceVars, queueVars, runnerVars, flags, indexVars, timer,
                   seen, idxMu, image, edits, boundVars>>

(***************************************************************************)
(* The rest of the server: an administrator's edit of a film, which then   *)
(* updates the index under its lock, and operations that clear it.         *)
(***************************************************************************)
EditFilm(f) ==
    /\ f \notin edits
    /\ WriteRow(f)
    /\ edits' = edits \cup {f}
    /\ UNCHANGED <<sourceVars, queueVars, runner, mids, moved, flags, indexed,
                   rebuildVars, idxMu, loader, boundVars>>

\* Without an index the upsert loads one first, and gives up when that fails.
UpsertFilm(f) ==
    /\ f \in edits
    /\ IndexFree
    /\ edits' = edits \ {f}
    /\ \/ /\ indexed
          /\ Publish(current \cup {f})
          /\ MoveIndex
          /\ UNCHANGED failures
       \/ /\ ~indexed
          /\ ReadFails
          /\ UNCHANGED <<indexVars, moved>>
    /\ UNCHANGED <<sourceVars, queueVars, runner, mids, read, flags,
                   rebuildVars, loaderVars, givenUp, invalidations>>

ClearIndex ==
    /\ indexed
    /\ IndexFree
    /\ invalidations < MaxInvalidations
    /\ invalidations' = invalidations + 1
    /\ indexed' = FALSE
    /\ MoveIndex
    /\ UNCHANGED <<sourceVars, queueVars, runner, mids, read, flags, current,
                   rebuildVars, loaderVars, edits, givenUp, failures>>

-----------------------------------------------------------------------------
SourceStep(s) == \/ MarkSealing(s) \/ AddSealing(s) \/ ScheduleReseal(s)
                 \/ SealWaitingLook(s) \/ SealWaitingTell(s) \/ GoRun(s)
                 \/ EndSource(s)

RunnerStep == \/ RunTop \/ RunProbe \/ RunWait \/ RunTake \/ RunSeal
              \/ ResealLoad \/ ResealRead \/ ResealInstall \/ RequestRebuild
              \/ ResealDone \/ ResealSettle
              \/ RunUnseal \/ RunAfter \/ RunRecheck \/ RunStill \/ RunSched
              \/ RunFinish \/ RunTell \/ RunTellSettle

LoaderStep(l) == \/ LoaderSee(l) \/ LoaderLock(l) \/ LoaderRead(l)
                 \/ LoaderStore(l) \/ LoaderTell(l) \/ LoaderSettle(l)

Next ==
    \/ \E s \in Source : BeginSource(s) \/ SourceStep(s)
    \/ \E s \in Source, ending \in Ending : FinishRun(s, ending)
    \/ \E s \in Source, f \in Film : WriteFilm(s, f)
    \/ RunnerStep
    \/ StartRebuild \/ LoadOnDemand \/ RebuildNext
    \/ \E l \in Loader : LoaderStep(l)
    \/ \E f \in Film : EditFilm(f) \/ UpsertFilm(f)
    \/ ClearIndex

Spec == Init /\ [][Next]_vars

\* Goroutines that are not blocked run on, timers fire.  Nothing obliges a run
\* to start or to end, a search to load, or an administrator to do anything.
Fairness ==
    /\ \A s \in Source : WF_vars(SourceStep(s))
    /\ WF_vars(RunnerStep)
    /\ WF_vars(StartRebuild)
    /\ WF_vars(RebuildNext)
    /\ \A l \in Loader : WF_vars(LoaderStep(l))
    /\ \A f \in Film : WF_vars(UpsertFilm(f))

FairSpec == Spec /\ Fairness

-----------------------------------------------------------------------------
\* The queue has one runner, or one source that is about to start it, exactly
\* while it is marked as running.
OneRunner ==
    /\ running <=> (runner # "off" \/ starter # {})
    /\ runner # "off" => starter = {}
    /\ \A s, r \in starter : s = r

\* Scheduled films are never left to nobody: the runner may only leave the
\* queue, at the end of a cycle or to a rebuild, when there is no film in it.
PendingServed == pending # {} => running

\* The queue keeps its types, has one runner, and never has films and no runner.
QueueServed == TypeOK /\ OneRunner /\ PendingServed

\* A full scan is on its way that will read the database after this moment.
RebuildDue == \/ timer
              \/ rebuilding /\ ~seen["scan"]
              \/ loader["scan"] \in {"begin", "lock", "read"}

BeingSealed == IF runner \in {"seal", "load", "read", "install", "request"}
               THEN mids ELSE {}

\* Every film whose entry in the index is out of date is still on somebody's
\* list: a run that has not scheduled it, the queue, the runner, an edit that
\* has yet to upsert it, or a rebuild.  Only a full scan that failed gives
\* films up.
IndexKeepsUp ==
    indexed /\ ~givenUp /\ ~RebuildDue =>
        Film \ current \subseteq
            pending \cup BeingSealed \cup image["scan"] \cup edits
                \cup UNION {wrote[s] : s \in Source}

\* The runner waits while anybody collects, and reads again after every edit.
Quiet == active = {} /\ edits = {}

\* Once collection and editing pause, every scheduled film gets into the
\* index...
FilmsGetIndexed ==
    <>[]Quiet => \A f \in Film : f \in pending ~> f \in current

\* ...and every source that waits for the index is settled.
SealingSettles ==
    <>[]Quiet =>
        \A s \in Source : status[s] = "sealing" ~> status[s] = "settled"

-----------------------------------------------------------------------------
(***************************************************************************)
(* What comments of the code say of the cycle, and the code does not keep. *)
(***************************************************************************)
\* collect_search_reseal_queue.go:110: the sources handed over are settled when
\* the rebuild ends, so somebody is there who will settle them.
SealingServed ==
    sealing # {} => \/ running
                    \/ RebuildDue
                    \/ \E l \in Loader :
                         loader[l] \in {"store", "tell", "settle"}

\* The same comment, line 111: films that come in during the rebuild are sealed
\* next.  They are not when run waits for searchRebuild.mu under q.mu, and the
\* listener of a loader for q.mu under searchRebuild.mu.
NoDeadlyEmbrace ==
    ~ (runner = "sched" /\ \E l \in Loader : loader[l] = "settle")
=============================================================================
