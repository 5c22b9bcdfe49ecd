---------------------------- MODULE SourceAdmin ----------------------------
(***************************************************************************)
(* Administration of the collect sources: the deletion queue and its one   *)
(* worker (collect_service_delete.go), the category sync of one source     *)
(* (spider_category_sync.go, collect_category.go), the edit of a source's  *)
(* address and the addition of a source (collect_service.go,               *)
(* spider_repo.go), and the start and end of a collect run as far as these *)
(* three can meet it (spider.go, collect_lifecycle.go).                    *)
(*                                                                         *)
(* Every request runs in a goroutine of its own, a Caller; the deletion    *)
(* worker is one goroutine for all sources.  A category tree and a stored  *)
(* film are known by the address they were fetched from.                   *)
(***************************************************************************)
EXTENDS Naturals, Sequences, FiniteSets

CONSTANTS Source,      \* ids of collect sources
          Address,     \* the addresses a source may have
          Caller,      \* request goroutines
          Capacity,    \* room of deleteSourceQueue
          Deletions,   \* bound: deletions the worker carries out
          Additions    \* bound: sources added

None == "none"

\* An address is something, and the bounds are numbers.
ASSUME SourceAssumption ==
    /\ None \notin Address
    /\ Capacity \in Nat /\ Deletions \in Nat /\ Additions \in Nat

VARIABLES
    row,       \* row[s]: the address in the source's row, None without a row
    tree,      \* tree[s]: the address the stored categories came from
    films,     \* films[s]: the addresses the stored films came from
    deleting,  \* deletingSources, the flag the pages show
    syncing,   \* syncingSources
    queue,     \* deleteSourceQueue
    occupied,  \* sources progress.IsTaskRunning answers yes for
    active,    \* collectLifecycle.activeSources
    gate,      \* gate[s]: which mutex sourceExclusive holds for s
    held,      \* the mutexes held, as <<source, number>>
    caller,    \* what each request goroutine does
    worker,    \* what the deletion worker does
    run,       \* run[s]: what the source's collect run does
    deletions, additions,
    overtaken  \* history: the sources whose categories were last applied
               \* under a mutex that a deletion had replaced meanwhile

vars == <<row, tree, films, deleting, syncing, queue, occupied, active, gate,
          held, caller, worker, run, deletions, additions, overtaken>>

store == <<row, tree, films, overtaken>>
flags == <<deleting, syncing>>
mutex == <<gate, held>>
counts == <<deletions, additions>>

Idle == [at |-> "idle"]
Confirms == {"ask", "keep", "clear"}

\* What a request, the worker and a run know while they are at it.
Requests ==
    {Idle} \cup [at : {"press", "sent", "applied"}, site : Source]
           \cup [at : {"sync"}, site : Source, confirm : Confirms]
           \cup [at : {"fetch"}, site : Source, addr : Address,
                 confirm : Confirms]
           \cup [at : {"locks", "checks", "applies"}, site : Source,
                 addr : Address, confirm : Confirms \ {"ask"},
                 mutex : Source \X (0 .. Deletions)]
           \cup [at : {"edit"}, site : Source, old : Address, addr : Address]
Deleting ==
    {Idle} \cup [at : {"waits", "forgets", "ends"}, site : Source]
           \cup [at : {"locks", "checks", "occupies", "purges"},
                 site : Source, mutex : Source \X (0 .. Deletions)]
Collecting ==
    {Idle} \cup [at : {"claimed"}]
           \cup [at : {"loaded", "begun", "collects"}, addr : Address]

At(c, place) == caller[c].at = place
Goes(c, place) == caller' = [caller EXCEPT ![c].at = place]
Leaves(c, place) ==
    caller' = [caller EXCEPT ![c] = [at |-> place, site |-> @.site]]
Rests(c) == caller' = [caller EXCEPT ![c] = Idle]

TypeOK ==
    /\ row \in [Source -> Address \cup {None}]
    /\ tree \in [Source -> Address \cup {None}]
    /\ films \in [Source -> SUBSET Address]
    /\ deleting \subseteq Source /\ syncing \subseteq Source
    /\ queue \in Seq(Source) /\ Len(queue) <= Capacity
    /\ occupied \subseteq Source /\ active \subseteq Source
    /\ gate \in [Source -> 0 .. Deletions]
    /\ held \subseteq Source \X (0 .. Deletions)
    /\ caller \in [Caller -> Requests]
    /\ worker \in Deleting
    /\ run \in [Source -> Collecting]
    /\ overtaken \subseteq Source
    /\ deletions \in 0 .. Deletions /\ additions \in 0 .. Additions

\* Sources that have been synced once and collected from, at rest.
Init ==
    /\ row \in [Source -> Address]
    /\ tree = row
    /\ films = [s \in Source |-> {row[s]}]
    /\ deleting = {} /\ syncing = {} /\ queue = <<>>
    /\ occupied = {} /\ active = {}
    /\ gate = [s \in Source |-> 0] /\ held = {}
    /\ caller = [c \in Caller |-> Idle]
    /\ worker = Idle
    /\ run = [s \in Source |-> Idle]
    /\ deletions = 0 /\ additions = 0
    /\ overtaken = {}

-----------------------------------------------------------------------------
(* sourceExclusive                                                         *)

\* LoadOrStore: the mutex is looked up first and locked later.
Looked(s) == <<s, gate[s]>>
Lock(m) == m \notin held /\ held' = held \cup {m}
Unlock(m) == held' = held \ {m}

\* DropSourceRuntime: the next caller makes a mutex of its own.
ForgetGate(s) == gate' = [gate EXCEPT ![s] = @ + 1]

-----------------------------------------------------------------------------
(* A press of delete: TriggerDelFilmSource                                 *)

PressChecks(c, s) ==
    /\ At(c, "idle")
    /\ row[s] # None /\ s \notin occupied /\ s \notin deleting
    /\ caller' = [caller EXCEPT ![c] = [at |-> "press", site |-> s]]
    /\ UNCHANGED <<store, flags, queue, occupied, active, mutex, worker, run,
                   counts>>

PressSends(c) ==
    /\ At(c, "press")
    /\ IF Len(queue) < Capacity
       THEN /\ queue' = Append(queue, caller[c].site)
            /\ Goes(c, "sent")
       ELSE Rests(c) /\ UNCHANGED queue
    /\ UNCHANGED <<store, flags, occupied, active, mutex, worker, run, counts>>

\* The flag is raised after the send.
PressMarks(c) ==
    /\ At(c, "sent")
    /\ deleting' = deleting \cup {caller[c].site}
    /\ Rests(c)
    /\ UNCHANGED <<store, syncing, queue, occupied, active, mutex, worker, run,
                   counts>>

-----------------------------------------------------------------------------
(* The deletion worker: processAsyncDeleteSource, DelFilmSource            *)

Worker(place) == worker.at = place
WorkerGoes(place) == worker' = [worker EXCEPT !.at = place]
WorkerLeaves(place) == worker' = [at |-> place, site |-> worker.site]

WorkerTakes ==
    /\ Worker("idle") /\ queue # <<>> /\ deletions < Deletions
    /\ worker' = [at |-> "waits", site |-> Head(queue)]
    /\ queue' = Tail(queue)
    /\ deleting' = deleting \cup {Head(queue)}
    /\ deletions' = deletions + 1
    /\ UNCHANGED <<store, syncing, occupied, active, mutex, caller, run,
                   additions>>

\* waitDeleteIdle: the search index comes to rest in time, or the worker
\* gives up after half an hour.
WorkerWaits ==
    /\ Worker("waits")
    /\ \/ worker' = [at |-> "locks", site |-> worker.site,
                     mutex |-> Looked(worker.site)]
       \/ WorkerLeaves("ends")
    /\ UNCHANGED <<store, flags, queue, occupied, active, mutex, caller, run,
                   counts>>

WorkerLocks ==
    /\ Worker("locks")
    /\ Lock(worker.mutex)
    /\ WorkerGoes("checks")
    /\ UNCHANGED <<store, flags, queue, occupied, active, gate, caller, run,
                   counts>>

\* Under the mutex: the row must be there and no run may have the source.
\* StopSourceForDelete is also refused during maintenance.
WorkerChecks ==
    /\ Worker("checks")
    /\ \/ /\ row[worker.site] # None /\ worker.site \notin occupied
          /\ WorkerGoes("occupies")
          /\ UNCHANGED held
       \/ Unlock(worker.mutex) /\ WorkerLeaves("ends")
    /\ UNCHANGED <<store, flags, queue, occupied, active, gate, caller, run,
                   counts>>

WorkerOccupies ==
    /\ Worker("occupies")
    /\ IF worker.site \in active
       THEN Unlock(worker.mutex) /\ WorkerLeaves("ends") /\ UNCHANGED active
       ELSE /\ active' = active \cup {worker.site}
            /\ WorkerGoes("purges")
            /\ UNCHANGED held
    /\ UNCHANGED <<store, flags, queue, occupied, gate, caller, run, counts>>

\* DelCollectResource: films, categories and the row in one transaction.
Purged(s) ==
    /\ row' = [row EXCEPT ![s] = None]
    /\ tree' = [tree EXCEPT ![s] = None]
    /\ films' = [films EXCEPT ![s] = {}]
    /\ overtaken' = overtaken \ {s}

WorkerPurges ==
    /\ Worker("purges")
    /\ \/ Purged(worker.site) /\ syncing' = syncing \ {worker.site}
          /\ WorkerLeaves("forgets")
       \/ UNCHANGED <<store, syncing>> /\ WorkerLeaves("ends")
    /\ active' = active \ {worker.site}
    /\ Unlock(worker.mutex)
    /\ UNCHANGED <<deleting, queue, occupied, gate, caller, run, counts>>

WorkerForgets ==
    /\ Worker("forgets")
    /\ ForgetGate(worker.site)
    /\ WorkerLeaves("ends")
    /\ UNCHANGED <<store, flags, queue, occupied, active, held, caller, run,
                   counts>>

\* The broadcast of the outcome lowers the flag, and so does the defer.
WorkerEnds ==
    /\ Worker("ends")
    /\ deleting' = deleting \ {worker.site}
    /\ worker' = Idle
    /\ UNCHANGED <<store, syncing, queue, occupied, active, mutex, caller, run,
                   counts>>

-----------------------------------------------------------------------------
(* The category sync: SyncSourceCategories, CollectCategory                *)

Syncing(s, confirm) == [at |-> "sync", site |-> s, confirm |-> confirm]
LowersFlag(c) == syncing' = syncing \ {caller[c].site} /\ Rests(c)

\* An administrator asks for the categories of one source.
SyncAsked(c, s, confirm) ==
    /\ At(c, "idle") /\ row[s] # None /\ s \notin occupied
    /\ caller' = [caller EXCEPT ![c] = Syncing(s, confirm)]
    /\ UNCHANGED <<store, flags, queue, occupied, active, mutex, worker, run,
                   counts>>

SyncStarts(c) ==
    /\ At(c, "sync")
    /\ LET s == caller[c].site
       IN  IF row[s] = None
           THEN LowersFlag(c)
           ELSE /\ syncing' = syncing \cup {s}
                /\ caller' = [caller EXCEPT ![c] =
                       [at |-> "fetch", site |-> s, addr |-> row[s],
                        confirm |-> caller[c].confirm]]
    /\ UNCHANGED <<store, deleting, queue, occupied, active, mutex, worker,
                   run, counts>>

\* SyncAllSourceCategories and SyncMissingSourceCategories raise the flag
\* with the row in hand and fetch under the mutex.
ListStarts(c, s) ==
    /\ At(c, "idle") /\ row[s] # None
    /\ syncing' = syncing \cup {s}
    /\ caller' = [caller EXCEPT ![c] =
           [at |-> "locks", site |-> s, addr |-> row[s], confirm |-> "keep",
            mutex |-> Looked(s)]]
    /\ UNCHANGED <<store, deleting, queue, occupied, active, mutex, worker,
                   run, counts>>

\* The stored tree is another than the fetched one.
Differs(c) == tree[caller[c].site] \notin {None, caller[c].addr}

\* The fetch fails, or its tree differs from the stored one and the
\* administrator is asked first, or the tree is to be applied.
SyncFetches(c) ==
    /\ At(c, "fetch")
    /\ \/ LowersFlag(c)
       \/ /\ ~(caller[c].confirm = "ask" /\ Differs(c))
          /\ caller' = [caller EXCEPT ![c] =
                 [at |-> "locks", site |-> @.site, addr |-> @.addr,
                  confirm |-> IF @.confirm = "ask" THEN "keep" ELSE @.confirm,
                  mutex |-> Looked(@.site)]]
          /\ UNCHANGED syncing
    /\ UNCHANGED <<store, deleting, queue, occupied, active, mutex, worker,
                   run, counts>>

SyncLocks(c) ==
    /\ At(c, "locks")
    /\ Lock(caller[c].mutex)
    /\ Goes(c, "checks")
    /\ UNCHANGED <<store, flags, queue, occupied, active, gate, worker, run,
                   counts>>

\* Mutant: the sync does not look for the row once it has the mutex.
SyncChecksNothing(c) ==
    /\ At(c, "checks")
    /\ Goes(c, "applies")
    /\ UNCHANGED <<store, flags, queue, occupied, active, mutex, worker, run,
                   counts>>

\* Under the mutex the source must still have its row.
SyncChecks(c) ==
    /\ At(c, "checks")
    /\ IF row[caller[c].site] # None
       THEN Goes(c, "applies") /\ UNCHANGED <<syncing, held>>
       ELSE LowersFlag(c) /\ Unlock(caller[c].mutex)
    /\ UNCHANGED <<store, deleting, queue, occupied, active, gate, worker,
                   run, counts>>

\* ApplyCategoryTree, one transaction; "clear" takes the films with it when
\* the tree has changed.
SyncApplies(c) ==
    /\ At(c, "applies")
    /\ LET s == caller[c].site
       IN  \/ /\ tree' = [tree EXCEPT ![s] = caller[c].addr]
              /\ films' = IF caller[c].confirm = "clear" /\ Differs(c)
                          THEN [films EXCEPT ![s] = {}] ELSE films
              /\ overtaken' = IF caller[c].mutex = Looked(s)
                              THEN overtaken \ {s} ELSE overtaken \cup {s}
              /\ Leaves(c, "applied")
              /\ UNCHANGED syncing
           \/ LowersFlag(c) /\ UNCHANGED <<tree, films, overtaken>>
    /\ Unlock(caller[c].mutex)
    /\ UNCHANGED <<row, deleting, queue, occupied, active, gate, worker, run,
                   counts>>

\* Mutant: the flag stays up.
SyncEndsQuietly(c) ==
    /\ At(c, "applied")
    /\ Rests(c)
    /\ UNCHANGED <<store, flags, queue, occupied, active, mutex, worker,
                   run, counts>>

SyncEnds(c) ==
    /\ At(c, "applied")
    /\ LowersFlag(c)
    /\ UNCHANGED <<store, deleting, queue, occupied, active, mutex, worker,
                   run, counts>>

-----------------------------------------------------------------------------
(* Editing and adding: updateFilmSourceCore, SaveFilmSource                *)

Taken(s, a) == \E other \in Source \ {s} : row[other] = a

\* A change of address is refused while the source is being collected.
EditChecks(c, s, a) ==
    /\ At(c, "idle") /\ row[s] # None
    /\ a # row[s] => s \notin occupied
    /\ caller' = [caller EXCEPT ![c] =
           [at |-> "edit", site |-> s, old |-> row[s], addr |-> a]]
    /\ UNCHANGED <<store, flags, queue, occupied, active, mutex, worker, run,
                   counts>>

\* UpdateCollectSourceReplacingData saves the row, there or not; a changed
\* address takes films and categories with it and starts a sync.
EditCommits(c) ==
    /\ At(c, "edit")
    /\ LET s == caller[c].site
           a == caller[c].addr
       IN  IF Taken(s, a)
           THEN Rests(c) /\ UNCHANGED <<store, syncing>>
           ELSE /\ row' = [row EXCEPT ![s] = a]
                /\ IF a = caller[c].old
                   THEN Rests(c) /\ UNCHANGED <<tree, films, syncing>>
                   ELSE /\ tree' = [tree EXCEPT ![s] = None]
                        /\ films' = [films EXCEPT ![s] = {}]
                        /\ syncing' = syncing \cup {s}
                        /\ caller' = [caller EXCEPT ![c] = Syncing(s, "ask")]
    /\ UNCHANGED <<deleting, queue, occupied, active, mutex, worker, run,
                   counts, overtaken>>

Adds(c, s, a) ==
    /\ At(c, "idle") /\ row[s] = None /\ ~Taken(s, a)
    /\ additions < Additions
    /\ additions' = additions + 1
    /\ row' = [row EXCEPT ![s] = a]
    /\ syncing' = syncing \cup {s}
    /\ caller' = [caller EXCEPT ![c] = Syncing(s, "ask")]
    /\ UNCHANGED <<tree, films, deleting, queue, occupied, active, mutex,
                   worker, run, deletions, overtaken>>

-----------------------------------------------------------------------------
(* A collect run, where it meets the above                                 *)

Runs(s, place) == run[s].at = place
RunRests(s) == run' = [run EXCEPT ![s] = Idle]

RunClaims(s) ==
    /\ Runs(s, "idle") /\ row[s] # None
    /\ occupied' = occupied \cup {s}
    /\ run' = [run EXCEPT ![s].at = "claimed"]
    /\ UNCHANGED <<store, flags, queue, active, mutex, caller, worker, counts>>

RunLoads(s) ==
    /\ Runs(s, "claimed")
    /\ IF row[s] = None
       THEN RunRests(s) /\ occupied' = occupied \ {s}
       ELSE /\ run' = [run EXCEPT ![s] = [at |-> "loaded", addr |-> row[s]]]
            /\ UNCHANGED occupied
    /\ UNCHANGED <<store, flags, queue, active, mutex, caller, worker, counts>>

RunBegins(s) ==
    /\ Runs(s, "loaded")
    /\ IF s \in active
       THEN RunRests(s) /\ occupied' = occupied \ {s} /\ UNCHANGED active
       ELSE /\ active' = active \cup {s}
            /\ run' = [run EXCEPT ![s].at = "begun"]
            /\ UNCHANGED occupied
    /\ UNCHANGED <<store, flags, queue, mutex, caller, worker, counts>>

RunEnds(s) ==
    /\ run[s].at \in {"begun", "collects"}
    /\ RunRests(s)
    /\ active' = active \ {s} /\ occupied' = occupied \ {s}
    /\ UNCHANGED <<store, flags, queue, mutex, caller, worker, counts>>

\* ensureMasterCategoriesReady: no categories, no collecting.
RunReady(s) ==
    /\ Runs(s, "begun") /\ tree[s] # None
    /\ run' = [run EXCEPT ![s].at = "collects"]
    /\ UNCHANGED <<store, flags, queue, occupied, active, mutex, caller,
                   worker, counts>>

RunSaves(s) ==
    /\ Runs(s, "collects")
    /\ films' = [films EXCEPT ![s] = @ \cup {run[s].addr}]
    /\ UNCHANGED <<row, tree, flags, queue, occupied, active, mutex, caller,
                   worker, run, counts, overtaken>>

-----------------------------------------------------------------------------
Press(c) == PressSends(c) \/ PressMarks(c) \/ \E s \in Source : PressChecks(c, s)
Delete == \/ WorkerTakes \/ WorkerWaits \/ WorkerLocks \/ WorkerChecks
          \/ WorkerOccupies \/ WorkerPurges \/ WorkerForgets \/ WorkerEnds
Sync(c) == \/ \E s \in Source : \/ ListStarts(c, s)
                                \/ \E confirm \in Confirms :
                                      SyncAsked(c, s, confirm)
           \/ SyncStarts(c) \/ SyncFetches(c) \/ SyncLocks(c) \/ SyncChecks(c)
           \/ SyncApplies(c) \/ SyncEnds(c)
Edit(c) == \/ EditCommits(c)
           \/ \E s \in Source, a \in Address : EditChecks(c, s, a) \/ Adds(c, s, a)
Run(s) == \/ RunClaims(s) \/ RunLoads(s) \/ RunBegins(s) \/ RunReady(s)
          \/ RunSaves(s) \/ RunEnds(s)

Next == \/ Delete
        \/ \E c \in Caller : Press(c) \/ Sync(c) \/ Edit(c)
        \/ \E s \in Source : Run(s)

Spec == Init /\ [][Next]_vars

-----------------------------------------------------------------------------
(* Properties                                                              *)

\* A source whose row is deleted leaves no categories and no films: the run
\* and the syncs that were under way find the row gone or are kept out
\* (WithSourceExclusive, beginSource, ensureMasterCategoriesReady).  The
\* exception is a sync that has looked its mutex up before one deletion forgot
\* it and applies after the next.
NothingLeftBehind ==
    \A s \in Source \ overtaken :
        row[s] = None => tree[s] = None /\ films[s] = {}

\* Without the exception, which DropSourceRuntime makes.
NothingEverLeft ==
    \A s \in Source : row[s] = None => tree[s] = None /\ films[s] = {}

\* A source the pages show as syncing has a sync under way: every early
\* return and every failure of a sync lowers the flag.
SyncingMeansUnderWay ==
    \A s \in syncing : \E c \in Caller :
        /\ caller[c].at \in {"sync", "fetch", "locks", "checks", "applies",
                             "applied"}
        /\ caller[c].site = s

\* The registers keep their types, and the syncs they show are under way.
RegistersTrue == TypeOK /\ SyncingMeansUnderWay

\* A source the pages show as deleting is queued for deletion or being
\* deleted (IsSourceDeleting: whether the asynchronous deletion is running).
DeletingMeansUnderWay ==
    \A s \in deleting : \/ \E i \in 1 .. Len(queue) : queue[i] = s
                        \/ worker.at # "idle" /\ worker.site = s

\* The deletion of a source and a write of its categories never overlap
\* (source_exclusive.go).
WritesStayApart ==
    ~\E c \in Caller : /\ worker.at = "purges" /\ At(c, "applies")
                       /\ caller[c].site = worker.site

\* A run collects from the address its source has: a change of address is
\* refused while the source is being collected (updateFilmSourceCore).
RunsKeepTheAddress ==
    \A s \in Source : Runs(s, "collects") => run[s].addr = row[s]
=============================================================================
