-------------------------- MODULE SealCycleProofs --------------------------
(***************************************************************************)
(* Proofs about the seal cycle, for every set of sources and films and for *)
(* every number of failures and invalidations.                             *)
(***************************************************************************)
EXTENDS SealCycle, TLAPS

\* The rows of the reseal are in memory only while it is about to install them.
ReadAtInstall == read # {} => runner = "install"

QueueInv == TypeOK /\ OneRunner /\ PendingServed /\ ReadAtInstall

\* Somebody will write the current row of f into the index, a loader aside.
Listed(f) == \/ f \in pending
             \/ f \in BeingSealed
             \/ f \in edits
             \/ \E s \in Source : f \in wrote[s]

\* IndexKeepsUp, film by film.
KeptUp ==
    indexed /\ ~givenUp /\ ~RebuildDue =>
        \A f \in Film : f \in current \/ f \in image["scan"] \/ Listed(f)

\* A row written after a loader has read it is listed when the loader stores.
ImagesListed ==
    \A l \in Loader : loader[l] = "store" /\ ~RebuildDue =>
        \A f \in Film : f \in image[l] \/ Listed(f)

\* So is a row written after the reseal has read it, and without the reseal:
\* while the index is the one it read for, no upsert has taken it off the list.
RowsListed ==
    /\ runner \in {"read", "install"} => indexed \/ moved
    /\ runner = "install" /\ ~moved =>
           \A f \in mids : \/ f \in read
                           \/ f \in pending
                           \/ f \in edits
                           \/ \E s \in Source : f \in wrote[s]

\* A loader reads and stores under activeFilmSearchMetasMu.
Locked == \A l \in Loader : loader[l] \in {"read", "store"} => idxMu = l

\* The timer is not set while a rebuild runs.
OneTimer == ~ (timer /\ rebuilding)

IndexInv == KeptUp /\ ImagesListed /\ RowsListed /\ Locked /\ OneTimer

-----------------------------------------------------------------------------
\* What the operators shared by several actions do to the types of their
\* variables.
\* The variables fall into groups; most steps leave most groups alone.
LEMMA SourceTypesFrame == SourceTypes /\ UNCHANGED sourceVars => SourceTypes'
  BY DEF SourceTypes, sourceVars, callVars

LEMMA QueueTypesFrame ==
    QueueTypes /\ UNCHANGED <<queueVars, runnerVars, flags>> => QueueTypes'
  BY DEF QueueTypes, queueVars, runnerVars, copyVars, flags

LEMMA LoaderTypesFrame ==
    LoaderTypes /\ UNCHANGED <<loaderVars, rebuildVars>> => LoaderTypes'
  BY DEF LoaderTypes, loaderVars, rebuildVars

LEMMA WorldTypesFrame ==
    WorldTypes /\ UNCHANGED <<indexVars, edits, boundVars>> => WorldTypes'
  BY DEF WorldTypes, indexVars, boundVars

LEMMA CompleteTypes ==
    TypeOK /\ Complete =>
        /\ sealing' = {}
        /\ status' \in [Source -> {"open", "sealing", "settled"}]
  BY DEF TypeOK, SourceTypes, Complete

LEMMA WriteRowTypes ==
    ASSUME NEW f \in Film, TypeOK, WriteRow(f)
    PROVE  /\ current' \subseteq Film
           /\ read' \subseteq read
           /\ image' \in [Loader -> SUBSET Film]
  BY DEF TypeOK, QueueTypes, LoaderTypes, WorldTypes, WriteRow

LEMMA MoveIndexTypes == MoveIndex => moved' \in BOOLEAN
  BY SMT DEF MoveIndex

LEMMA StartRunnerTypes ==
    ASSUME NEW s \in Source, TypeOK, StartRunner(s)
    PROVE  /\ running' = TRUE
           /\ starter' \subseteq Source
           /\ notify' \in [Source -> {"no", "look", "tell"}]
  BY DEF TypeOK, SourceTypes, StartRunner

LEMMA CallsTypes ==
    ASSUME NEW s \in Source, NEW call, TypeOK, Calls(s, call)
    PROVE  rest' \in [Source -> Seq(Call)]
<1>1. rest[s] \in Seq(Call) /\ rest[s] # <<>>
  BY DEF Calls, TypeOK, SourceTypes
<1>2. Tail(rest[s]) \in Seq(Call)
  BY <1>1
<1>. QED
  BY <1>2 DEF Calls, TypeOK, SourceTypes

LEMMA LoaderLeaveTypes ==
    ASSUME NEW l \in Loader, TypeOK, LoaderLeave(l)
    PROVE  /\ loader' \in [Loader -> LoaderState]
           /\ seen' \in [Loader -> BOOLEAN]
           /\ idxMu' \in Loader \cup {Free}
<1>1. loader' \in [Loader -> LoaderState]
  BY DEF TypeOK, LoaderTypes, LoaderLeave, LoaderState
<1>2. seen' \in [Loader -> BOOLEAN]
  BY DEF TypeOK, LoaderTypes, LoaderLeave
<1>3. idxMu' \in Loader \cup {Free}
  BY DEF TypeOK, LoaderTypes, LoaderLeave
<1>. QED
  BY <1>1, <1>2, <1>3

-----------------------------------------------------------------------------
\* Every variable of the cycle keeps its type (TypeOK of SealCycle).
LEMMA TypeStep == TypeOK /\ ReadAtInstall /\ [Next]_vars => TypeOK'
<1>. SUFFICES ASSUME TypeOK, ReadAtInstall, [Next]_vars PROVE TypeOK'
  OBVIOUS
<1>. USE SourceTypesFrame, QueueTypesFrame, LoaderTypesFrame, WorldTypesFrame
<1>. USE DEF TypeOK, vars, callVars, sourceVars, queueVars, copyVars,
runnerVars,
         flags, indexVars, rebuildVars, loaderVars, boundVars, worldVars
<1>1. ASSUME NEW s \in Source, BeginSource(s) PROVE TypeOK'
  <2>1. status' \in [Source -> {"open", "sealing", "settled"}]
    BY <1>1 DEF BeginSource, SourceTypes
  <2>. QED
    BY <1>1, <2>1 DEF BeginSource, SourceTypes
<1>2. ASSUME NEW s \in Source, NEW ending \in Ending, FinishRun(s, ending)
      PROVE TypeOK'
  <2>1. Rest[ending] \in Seq(Call)
    <3>1. ending \in {"done", "stopped", "abandoned", "failed"}
      BY SealAssumption
    <3>2. /\ Rest["done"] = <<"mark", "add", "schedule", "end">>
          /\ Rest["stopped"] = <<"schedule", "mark", "add", "end">>
          /\ Rest["abandoned"] = <<"schedule", "end">>
          /\ Rest["failed"] = <<"end">>
      BY DEF Rest
    <3>3. /\ Rest["done"] \in Seq(Call)
          /\ Rest["stopped"] \in Seq(Call)
          /\ Rest["abandoned"] \in Seq(Call)
          /\ Rest["failed"] \in Seq(Call)
      BY <3>2 DEF Call
    <3>. QED
      BY <3>1, <3>3
  <2>2. rest' \in [Source -> Seq(Call)]
    BY <1>2, <2>1 DEF FinishRun, SourceTypes
  <2>. QED
    BY <1>2, <2>2 DEF FinishRun, SourceTypes
<1>4. ASSUME NEW s \in Source, SourceStep(s) PROVE TypeOK'
  <2>1. CASE MarkSealing(s)
    <3>1. rest' \in [Source -> Seq(Call)]
      BY <2>1, CallsTypes DEF MarkSealing
    <3>2. status' \in [Source -> {"open", "sealing", "settled"}]
      BY <2>1 DEF MarkSealing, SourceTypes
    <3>. QED
      BY <2>1, <3>1, <3>2 DEF MarkSealing, SourceTypes
  <2>2. CASE AddSealing(s)
    <3>1. rest' \in [Source -> Seq(Call)]
      BY <2>2, CallsTypes DEF AddSealing
    <3>. QED
      BY <2>2, <3>1, StartRunnerTypes DEF AddSealing, SourceTypes, QueueTypes
  <2>3. CASE ScheduleReseal(s)
    <3>1. rest' \in [Source -> Seq(Call)]
      BY <2>3, CallsTypes DEF ScheduleReseal
    <3>2. wrote' \in [Source -> SUBSET Film] /\ pending' \subseteq Film
      BY <2>3 DEF ScheduleReseal, SourceTypes, QueueTypes
    <3>3. /\ running' \in BOOLEAN
          /\ starter' \subseteq Source
          /\ notify' \in [Source -> {"no", "look", "tell"}]
      BY <2>3, StartRunnerTypes DEF ScheduleReseal, SourceTypes, QueueTypes
    <3>. QED
      BY <2>3, <3>1, <3>2, <3>3 DEF ScheduleReseal, SourceTypes, QueueTypes
  <2>4. CASE SealWaitingLook(s)
    BY <2>4 DEF SealWaitingLook, SourceTypes
  <2>5. CASE SealWaitingTell(s)
    BY <2>5 DEF SealWaitingTell, SourceTypes, QueueTypes
  <2>6. CASE GoRun(s)
    BY <2>6 DEF GoRun, SourceTypes, QueueTypes, RunnerState
  <2>7. CASE EndSource(s)
    <3>1. rest' \in [Source -> Seq(Call)]
      BY <2>7, CallsTypes DEF EndSource
    <3>. QED
      BY <2>7, <3>1 DEF EndSource, SourceTypes
  <2>. QED
    BY <1>4, <2>1, <2>2, <2>3, <2>4, <2>5, <2>6, <2>7 DEF SourceStep
<1>5. ASSUME NEW s \in Source, NEW f \in Film, WriteFilm(s, f) PROVE TypeOK'
  <2>1. wrote' \in [Source -> SUBSET Film]
    BY <1>5 DEF WriteFilm, SourceTypes
  <2>2. SourceTypes'
    BY <1>5, <2>1 DEF WriteFilm, SourceTypes
  <2>3. QueueTypes' /\ WorldTypes'
    BY <1>5, WriteRowTypes DEF WriteFilm, QueueTypes, WorldTypes
  <2>4. LoaderTypes'
    BY <1>5, WriteRowTypes DEF WriteFilm, LoaderTypes
  <2>. QED
    BY <2>2, <2>3, <2>4
<1>6. ASSUME RunnerStep PROVE TypeOK'
  <2>1. CASE RunTop
    BY <2>1 DEF RunTop, QueueTypes, RunnerState
  <2>2. CASE RunProbe
    BY <2>2 DEF RunProbe, QueueTypes, RunnerState
  <2>3. CASE RunWait
    BY <2>3 DEF RunWait, QueueTypes, RunnerState
  <2>4. CASE RunTake
    <3>1. read = {}
      BY <2>4 DEF RunTake, ReadAtInstall
    <3>. QED
      BY <2>4, <3>1 DEF RunTake, QueueTypes, RunnerState
  <2>5. CASE RunSeal
    BY <2>5 DEF RunSeal, QueueTypes, RunnerState
  <2>6. CASE ResealLoad
    BY <2>6 DEF ResealLoad, QueueTypes, RunnerState
  <2>7. CASE ResealRead
    <3>1. failures' \in 0 .. MaxFailures
      BY <2>7, SealAssumption DEF ResealRead, ReadFails, QueueTypes, WorldTypes
    <3>. QED
      BY <2>7, <3>1 DEF ResealRead, QueueTypes, WorldTypes, RunnerState
  <2>8. CASE ResealInstall
    BY <2>8 DEF ResealInstall, Publish, QueueTypes, WorldTypes, RunnerState
  <2>9. CASE RequestRebuild
    <3>1. seen' \in [Loader -> BOOLEAN]
      BY <2>9 DEF RequestRebuild
    <3>. QED
      BY <2>9, <3>1 DEF RequestRebuild, QueueTypes, LoaderTypes, RunnerState
  <2>10. CASE ResealDone
    BY <2>10 DEF ResealDone, QueueTypes, RunnerState
  <2>11. CASE ResealSettle
    BY <2>11, CompleteTypes DEF ResealSettle, SourceTypes, QueueTypes,
       RunnerState
  <2>12. CASE RunUnseal
    BY <2>12 DEF RunUnseal, QueueTypes, RunnerState
  <2>13. CASE RunAfter
    BY <2>13 DEF RunAfter, QueueTypes, RunnerState
  <2>14. CASE RunRecheck
    BY <2>14 DEF RunRecheck, QueueTypes, RunnerState
  <2>15. CASE RunStill
    <3>1. read = {}
      BY <2>15 DEF RunStill, ReadAtInstall
    <3>. QED
      BY <2>15, <3>1 DEF RunStill, LeaveToRebuild, QueueTypes, RunnerState
  <2>16. CASE RunSched
    <3>1. read = {}
      BY <2>16 DEF RunSched, ReadAtInstall
    <3>. QED
      BY <2>16, <3>1 DEF RunSched, LeaveToRebuild, QueueTypes, RunnerState
  <2>17. CASE RunFinish
    <3>1. read = {}
      BY <2>17 DEF RunFinish, ReadAtInstall
    <3>. QED
      BY <2>17, <3>1, CompleteTypes DEF RunFinish, SourceTypes, QueueTypes,
         RunnerState
  <2>18. CASE RunTell
    BY <2>18 DEF RunTell, QueueTypes, RunnerState
  <2>19. CASE RunTellSettle
    BY <2>19, CompleteTypes DEF RunTellSettle, SourceTypes, QueueTypes,
       RunnerState
  <2>. QED
    BY <1>6, <2>1, <2>2, <2>3, <2>4, <2>5, <2>6, <2>7, <2>8, <2>9, <2>10,
       <2>11, <2>12, <2>13, <2>14, <2>15, <2>16, <2>17, <2>18, <2>19
    DEF RunnerStep
<1>7. ASSUME StartRebuild PROVE TypeOK'
  <2>1. loader' \in [Loader -> LoaderState]
    BY <1>7 DEF StartRebuild, LoaderTypes, LoaderState
  <2>. QED
    BY <1>7, <2>1 DEF StartRebuild, LoaderTypes
<1>8. ASSUME LoadOnDemand PROVE TypeOK'
  <2>1. loader' \in [Loader -> LoaderState]
    BY <1>8 DEF LoadOnDemand, LoaderTypes, LoaderState
  <2>. QED
    BY <1>8, <2>1 DEF LoadOnDemand, LoaderTypes
<1>9. ASSUME RebuildNext PROVE TypeOK'
  <2>1. loader' \in [Loader -> LoaderState]
    BY <1>9 DEF RebuildNext, LoaderTypes, LoaderState
  <2>. QED
    BY <1>9, <2>1 DEF RebuildNext, LoaderTypes
<1>10. ASSUME NEW l \in Loader, LoaderStep(l) PROVE TypeOK'
  <2>1. CASE LoaderSee(l)
    <3>1. loader' \in [Loader -> LoaderState] /\ seen' \in [Loader -> BOOLEAN]
      BY <2>1 DEF LoaderSee, LoaderTypes, LoaderState
    <3>. QED
      BY <2>1, <3>1 DEF LoaderSee, LoaderTypes
  <2>2. CASE LoaderLock(l)
    <3>1. loader' \in [Loader -> LoaderState] /\ seen' \in [Loader -> BOOLEAN]
      BY <2>2 DEF LoaderLock, QueueTypes, LoaderTypes, LoaderState
    <3>2. idxMu' \in Loader \cup {Free} /\ building' \in BOOLEAN
      BY <2>2 DEF LoaderLock, QueueTypes, LoaderTypes
    <3>. QED
      BY <2>2, <3>1, <3>2 DEF LoaderLock, QueueTypes, LoaderTypes
  <2>3. CASE LoaderRead(l)
    <3>1. loader' \in [Loader -> LoaderState]
      BY <2>3 DEF LoaderRead, LoaderTypes, WorldTypes, LoaderState
    <3>2. image' \in [Loader -> SUBSET Film]
      BY <2>3 DEF LoaderRead, LoaderTypes, WorldTypes
    <3>3. failures' \in 0 .. MaxFailures
      BY <2>3, SealAssumption DEF LoaderRead, ReadFails, LoaderTypes, WorldTypes
    <3>4. idxMu' \in Loader \cup {Free} /\ givenUp' \in BOOLEAN
      BY <2>3 DEF LoaderRead, LoaderTypes, WorldTypes
    <3>. QED
      BY <2>3, <3>1, <3>2, <3>3, <3>4 DEF LoaderRead, LoaderTypes, WorldTypes
  <2>4. CASE LoaderStore(l)
    <3>1. loader' \in [Loader -> LoaderState]
      BY <2>4 DEF LoaderStore, QueueTypes, LoaderTypes, WorldTypes, LoaderState
    <3>2. image' \in [Loader -> SUBSET Film]
      BY <2>4 DEF LoaderStore, QueueTypes, LoaderTypes, WorldTypes
    <3>3. indexed' \in BOOLEAN /\ current' \subseteq Film /\ moved' \in BOOLEAN
      BY <2>4, MoveIndexTypes DEF LoaderStore, QueueTypes, LoaderTypes,
         WorldTypes, Publish
    <3>. QED
      BY <2>4, <3>1, <3>2, <3>3 DEF LoaderStore, QueueTypes, LoaderTypes,
         WorldTypes
  <2>5. CASE LoaderTell(l)
    <3>1. /\ loader' \in [Loader -> LoaderState]
          /\ seen' \in [Loader -> BOOLEAN]
          /\ idxMu' \in Loader \cup {Free}
          /\ building' \in BOOLEAN
      <4>1. CASE seen[l]
        BY <2>5, <4>1 DEF LoaderTell, QueueTypes, LoaderTypes, LoaderState
      <4>2. CASE ~seen[l]
        BY <2>5, <4>2, LoaderLeaveTypes DEF LoaderTell, QueueTypes, LoaderTypes
      <4>. QED
        BY <4>1, <4>2
    <3>. QED
      BY <2>5, <3>1 DEF LoaderTell, QueueTypes, LoaderTypes
  <2>6. CASE LoaderSettle(l)
    BY <2>6, LoaderLeaveTypes, CompleteTypes DEF LoaderSettle, SourceTypes,
       QueueTypes, LoaderTypes
  <2>. QED
    BY <1>10, <2>1, <2>2, <2>3, <2>4, <2>5, <2>6 DEF LoaderStep
<1>11. ASSUME NEW f \in Film, EditFilm(f) PROVE TypeOK'
  BY <1>11, WriteRowTypes DEF EditFilm, QueueTypes, LoaderTypes, WorldTypes
<1>12. ASSUME NEW f \in Film, UpsertFilm(f) PROVE TypeOK'
  <2>1. indexed' \in BOOLEAN /\ current' \subseteq Film /\ moved' \in BOOLEAN
    BY <1>12, MoveIndexTypes DEF UpsertFilm, QueueTypes, WorldTypes, Publish
  <2>2. failures' \in 0 .. MaxFailures
    BY <1>12, SealAssumption DEF UpsertFilm, QueueTypes, WorldTypes, ReadFails
  <2>. QED
    BY <1>12, <2>1, <2>2 DEF UpsertFilm, QueueTypes, WorldTypes
<1>13. ASSUME ClearIndex PROVE TypeOK'
  <2>1. invalidations' \in 0 .. MaxInvalidations
    BY <1>13, SealAssumption DEF ClearIndex, QueueTypes, WorldTypes
  <2>. QED
    BY <1>13, <2>1, MoveIndexTypes DEF ClearIndex, QueueTypes, WorldTypes
<1>14. ASSUME UNCHANGED vars PROVE TypeOK'
  BY <1>14
<1>. QED
  BY <1>1, <1>2, <1>4, <1>5, <1>6, <1>7, <1>8, <1>9, <1>10, <1>11, <1>12, <1>13,
     <1>14 DEF Next

-----------------------------------------------------------------------------
\* A step that leaves the queue, its runner and its starters alone, and reads no
\* rows, keeps what is said of them.
LEMMA QueueFrame ==
    ASSUME QueueInv,
           UNCHANGED <<running, runner, starter, pending>>,
           read' \subseteq read
    PROVE  OneRunner' /\ PendingServed' /\ ReadAtInstall'
  BY DEF QueueInv, OneRunner, PendingServed, ReadAtInstall

\* A step of the runner that stays in the queue, and takes films at most.
LEMMA RunnerFrame ==
    ASSUME QueueInv, runner # "off", runner' # "off",
           UNCHANGED <<running, starter>>,
           pending' \subseteq pending,
           read' # {} => runner' = "install"
    PROVE  OneRunner' /\ PendingServed' /\ ReadAtInstall'
  BY DEF QueueInv, OneRunner, PendingServed, ReadAtInstall

\* A caller of addSealing or scheduleSearchReseal.
LEMMA StarterFrame ==
    ASSUME QueueInv, NEW s \in Source, StartRunner(s), UNCHANGED <<runner,
    read>>
    PROVE  OneRunner' /\ PendingServed' /\ ReadAtInstall'
  BY DEF QueueInv, OneRunner, PendingServed, ReadAtInstall, StartRunner

LEMMA QueueStep == QueueInv /\ [Next]_vars => QueueInv'
<1>. SUFFICES ASSUME QueueInv, [Next]_vars
              PROVE  OneRunner' /\ PendingServed' /\ ReadAtInstall'
  BY TypeStep DEF QueueInv
<1>. USE DEF vars, callVars, sourceVars, queueVars, copyVars, runnerVars, flags,
         indexVars, rebuildVars, loaderVars, boundVars, worldVars
<1>1. ASSUME NEW s \in Source, BeginSource(s)
      PROVE  OneRunner' /\ PendingServed' /\ ReadAtInstall'
  BY <1>1, QueueFrame DEF BeginSource
<1>2. ASSUME NEW s \in Source, NEW ending \in Ending, FinishRun(s, ending)
      PROVE  OneRunner' /\ PendingServed' /\ ReadAtInstall'
  BY <1>2, QueueFrame DEF FinishRun
<1>3. ASSUME NEW s \in Source, SourceStep(s)
      PROVE  OneRunner' /\ PendingServed' /\ ReadAtInstall'
  <2>1. CASE MarkSealing(s)
    BY <2>1, QueueFrame DEF MarkSealing
  <2>2. CASE AddSealing(s)
    BY <2>2, StarterFrame DEF AddSealing
  <2>3. CASE ScheduleReseal(s)
    <3>1. CASE wrote[s] = {}
      <4>1. UNCHANGED <<running, runner, starter, pending, read>>
        BY <2>3, <3>1 DEF ScheduleReseal
      <4>. QED
        BY <4>1, QueueFrame
    <3>2. CASE wrote[s] # {}
      BY <2>3, <3>2, StarterFrame DEF ScheduleReseal
    <3>. QED
      BY <3>1, <3>2
  <2>4. CASE SealWaitingLook(s)
    BY <2>4, QueueFrame DEF SealWaitingLook
  <2>5. CASE SealWaitingTell(s)
    BY <2>5, QueueFrame DEF SealWaitingTell
  <2>6. CASE GoRun(s)
    <3>1. runner = "off" /\ running /\ read = {}
      BY <2>6 DEF GoRun, QueueInv, OneRunner, ReadAtInstall
    <3>2. starter = {s}
      BY <2>6 DEF GoRun, QueueInv, OneRunner
    <3>3. /\ starter' = {} /\ runner' = "top"
          /\ UNCHANGED <<running, pending, read>>
      BY <2>6, <3>2 DEF GoRun
    <3>. QED
      BY <3>1, <3>3 DEF OneRunner, PendingServed, ReadAtInstall
  <2>7. CASE EndSource(s)
    BY <2>7, QueueFrame DEF EndSource
  <2>. QED
    BY <1>3, <2>1, <2>2, <2>3, <2>4, <2>5, <2>6, <2>7 DEF SourceStep
<1>4. ASSUME NEW s \in Source, NEW f \in Film, WriteFilm(s, f)
      PROVE  OneRunner' /\ PendingServed' /\ ReadAtInstall'
  BY <1>4, QueueFrame DEF WriteFilm, WriteRow
<1>5. ASSUME RunnerStep PROVE OneRunner' /\ PendingServed' /\ ReadAtInstall'
  <2>1. CASE RunTop
    <3>1. CASE pending = {} /\ sealing = {}
      BY <2>1, <3>1 DEF RunTop, QueueInv, OneRunner, PendingServed,
         ReadAtInstall
    <3>2. CASE ~ (pending = {} /\ sealing = {})
      BY <2>1, <3>2 DEF RunTop, QueueInv, OneRunner, PendingServed,
         ReadAtInstall
    <3>. QED
      BY <3>1, <3>2
  <2>2. ASSUME runner \in {"still", "sched"}, NEW due, LeaveToRebuild(due),
               UNCHANGED <<starter, pending, read>>
        PROVE  OneRunner' /\ PendingServed' /\ ReadAtInstall'
    BY <2>2 DEF LeaveToRebuild, QueueInv, OneRunner, PendingServed,
       ReadAtInstall
  <2>3. CASE RunStill
    <3>1. CASE building
      BY <2>2, <2>3, <3>1 DEF RunStill
    <3>2. CASE ~building
      <4>1. /\ runner = "still" /\ runner' = "sched"
            /\ UNCHANGED <<running, starter, pending, read>>
        BY <2>3, <3>2 DEF RunStill
      <4>. QED
        BY <4>1, RunnerFrame DEF QueueInv, ReadAtInstall
    <3>. QED
      BY <3>1, <3>2
  <2>4. CASE RunSched
    BY <2>2, <2>4 DEF RunSched
  <2>5. CASE RunProbe
    BY <2>5, RunnerFrame DEF RunProbe, QueueInv, ReadAtInstall
  <2>6. CASE RunWait
    BY <2>6, RunnerFrame DEF RunWait, QueueInv, ReadAtInstall
  <2>7. CASE RunTake
    BY <2>7, RunnerFrame DEF RunTake, QueueInv, ReadAtInstall
  <2>8. CASE RunSeal
    BY <2>8, RunnerFrame DEF RunSeal, QueueInv, ReadAtInstall
  <2>9. CASE ResealLoad
    BY <2>9, RunnerFrame DEF ResealLoad, QueueInv, ReadAtInstall
  <2>10. CASE ResealRead
    BY <2>10, RunnerFrame DEF ResealRead, QueueInv, ReadAtInstall
  <2>11. CASE ResealInstall
    BY <2>11, RunnerFrame DEF ResealInstall, QueueInv, ReadAtInstall
  <2>12. CASE RequestRebuild
    BY <2>12, RunnerFrame DEF RequestRebuild, QueueInv, ReadAtInstall
  <2>13. CASE ResealDone
    BY <2>13, RunnerFrame DEF ResealDone, QueueInv, ReadAtInstall
  <2>14. CASE ResealSettle
    BY <2>14, RunnerFrame DEF ResealSettle, QueueInv, ReadAtInstall
  <2>15. CASE RunUnseal
    BY <2>15, RunnerFrame DEF RunUnseal, QueueInv, ReadAtInstall
  <2>16. CASE RunAfter
    BY <2>16, RunnerFrame DEF RunAfter, QueueInv, ReadAtInstall
  <2>17. CASE RunRecheck
    BY <2>17, RunnerFrame DEF RunRecheck, QueueInv, ReadAtInstall
  <2>18. CASE RunFinish
    BY <2>18, RunnerFrame DEF RunFinish, QueueInv, ReadAtInstall
  <2>19. CASE RunTell
    BY <2>19, RunnerFrame DEF RunTell, QueueInv, ReadAtInstall
  <2>20. CASE RunTellSettle
    BY <2>20, RunnerFrame DEF RunTellSettle, QueueInv, ReadAtInstall
  <2>. QED
    BY <1>5, <2>1, <2>3, <2>4, <2>5, <2>6, <2>7, <2>8, <2>9, <2>10, <2>11,
       <2>12, <2>13, <2>14, <2>15, <2>16, <2>17, <2>18, <2>19,
       <2>20 DEF RunnerStep
<1>6. ASSUME StartRebuild PROVE OneRunner' /\ PendingServed' /\ ReadAtInstall'
  BY <1>6, QueueFrame DEF StartRebuild
<1>7. ASSUME LoadOnDemand PROVE OneRunner' /\ PendingServed' /\ ReadAtInstall'
  BY <1>7, QueueFrame DEF LoadOnDemand
<1>8. ASSUME RebuildNext PROVE OneRunner' /\ PendingServed' /\ ReadAtInstall'
  BY <1>8, QueueFrame DEF RebuildNext
<1>9. ASSUME NEW l \in Loader, LoaderStep(l)
      PROVE  OneRunner' /\ PendingServed' /\ ReadAtInstall'
  <2>1. UNCHANGED <<running, runner, starter, pending, read>>
    BY <1>9 DEF LoaderStep, LoaderSee, LoaderLock, LoaderRead, LoaderStore,
                LoaderTell, LoaderSettle
  <2>. QED
    BY <2>1, QueueFrame
<1>10. ASSUME NEW f \in Film, EditFilm(f)
      PROVE  OneRunner' /\ PendingServed' /\ ReadAtInstall'
  BY <1>10, QueueFrame DEF EditFilm, WriteRow
<1>11. ASSUME NEW f \in Film, UpsertFilm(f)
      PROVE  OneRunner' /\ PendingServed' /\ ReadAtInstall'
  BY <1>11, QueueFrame DEF UpsertFilm
<1>12. ASSUME ClearIndex PROVE OneRunner' /\ PendingServed' /\ ReadAtInstall'
  BY <1>12, QueueFrame DEF ClearIndex
<1>13. ASSUME UNCHANGED vars
       PROVE OneRunner' /\ PendingServed' /\ ReadAtInstall'
  BY <1>13, QueueFrame
<1>. QED
  BY <1>1, <1>2, <1>3, <1>4, <1>5, <1>6, <1>7, <1>8, <1>9, <1>10, <1>11, <1>12,
     <1>13 DEF Next

THEOREM QueueInvariant == Spec => []QueueInv
<1>1. Init => TypeOK
  <2>. SUFFICES ASSUME Init PROVE TypeOK
    OBVIOUS
  <2>1. rest \in [Source -> Seq(Call)]
    BY DEF Init
  <2>2. /\ notify \in [Source -> {"no", "look", "tell"}]
        /\ status \in [Source -> {"open", "sealing", "settled"}]
        /\ wrote \in [Source -> SUBSET Film]
    BY DEF Init
  <2>3. /\ loader \in [Loader -> LoaderState]
        /\ image \in [Loader -> SUBSET Film]
        /\ seen \in [Loader -> BOOLEAN]
    BY DEF Init, LoaderState
  <2>4. failures \in 0 .. MaxFailures /\ invalidations \in 0 .. MaxInvalidations
    BY SealAssumption DEF Init
  <2>5. SourceTypes
    BY <2>1, <2>2 DEF Init, SourceTypes
  <2>6. QueueTypes
    BY DEF Init, QueueTypes, RunnerState
  <2>7. LoaderTypes
    BY <2>3 DEF Init, LoaderTypes
  <2>8. WorldTypes
    BY <2>4 DEF Init, WorldTypes
  <2>. QED
    BY <2>5, <2>6, <2>7, <2>8 DEF TypeOK
<1>2. Init => OneRunner /\ PendingServed /\ ReadAtInstall
  BY DEF Init, OneRunner, PendingServed, ReadAtInstall
<1>3. Init => QueueInv
  BY <1>1, <1>2 DEF QueueInv
<1>. QED
  BY <1>3, QueueStep, PTL DEF Spec

-----------------------------------------------------------------------------
\* Steps that move films between the lists, and leave the loaders alone.
LEMMA ListFrame ==
    ASSUME IndexInv,
           UNCHANGED <<indexed, givenUp, timer, rebuilding, seen, loader,
                       idxMu>>,
           \A f \in Film :
               /\ Listed(f) => Listed(f)'
               /\ f \in current => f \in current' \/ Listed(f)'
               /\ \A l \in Loader :
                      f \in image[l] => f \in image'[l] \/ Listed(f)'
    PROVE  KeptUp' /\ ImagesListed' /\ Locked' /\ OneTimer'
<1>1. RebuildDue' <=> RebuildDue
  BY DEF RebuildDue
<1>2. KeptUp'
  BY <1>1 DEF IndexInv, KeptUp, Loader
<1>3. ImagesListed'
  BY <1>1 DEF IndexInv, ImagesListed
<1>4. Locked' /\ OneTimer'
  BY DEF IndexInv, Locked, OneTimer
<1>. QED
  BY <1>2, <1>3, <1>4

\* Steps of the sources and of the runner that touch no list.
LEMMA IndexFrame ==
    ASSUME IndexInv,
           UNCHANGED <<indexed, givenUp, timer, rebuilding, seen, loader,
                       idxMu>>,
           UNCHANGED <<wrote, pending, edits, moved, current, image>>,
           BeingSealed' = BeingSealed,
           runner' \in {"read", "install"} => UNCHANGED <<runner, mids, read>>
    PROVE  IndexInv'
<1>1. \A f \in Film : Listed(f) => Listed(f)'
  BY DEF Listed
<1>2. KeptUp' /\ ImagesListed' /\ Locked' /\ OneTimer'
  BY <1>1, ListFrame
<1>3. RowsListed'
  BY DEF IndexInv, RowsListed
<1>. QED
  BY <1>2, <1>3 DEF IndexInv

\* A row of f is written, and f goes on a list.
LEMMA WriteFrame ==
    ASSUME QueueInv, IndexInv, NEW f \in Film, WriteRow(f),
           UNCHANGED <<indexed, givenUp, timer, rebuilding, seen, loader,
                       idxMu>>,
           UNCHANGED <<runner, mids, pending, moved>>,
           edits \subseteq edits',
           \A s \in Source : wrote[s] \subseteq wrote'[s],
           f \in edits' \/ \E s \in Source : f \in wrote'[s]
    PROVE  IndexInv'
<1>1. BeingSealed' = BeingSealed
  BY DEF BeingSealed
<1>2. \A h \in Film : Listed(h) => Listed(h)'
  BY <1>1 DEF Listed
<1>3. \A h \in Film : h = f => Listed(h)'
  BY DEF Listed
<1>4. \A h \in Film : /\ h \in current => h \in current' \/ h = f
                      /\ h \in read => h \in read' \/ h = f
  BY DEF WriteRow
<1>5. \A h \in Film, l \in Loader : h \in image[l] => h \in image'[l] \/ h = f
  BY DEF WriteRow
<1>6. KeptUp' /\ ImagesListed' /\ Locked' /\ OneTimer'
  <2>1. \A h \in Film :
           /\ Listed(h) => Listed(h)'
           /\ h \in current => h \in current' \/ Listed(h)'
           /\ \A l \in Loader : h \in image[l] => h \in image'[l] \/ Listed(h)'
    BY <1>2, <1>3, <1>4, <1>5 DEF Listed
  <2>. QED
    BY <2>1, ListFrame
<1>7. ASSUME runner = "install", ~moved, NEW h \in mids
      PROVE  \/ h \in read'
             \/ h \in pending'
             \/ h \in edits'
             \/ \E s \in Source : h \in wrote'[s]
  <2>1. h \in read => h \in read' \/ h = f
    <3>1. mids \subseteq Film
      BY DEF QueueInv, TypeOK, SourceTypes, QueueTypes, LoaderTypes, WorldTypes
    <3>. QED
      BY <1>4, <3>1
  <2>2. \/ h \in read
        \/ h \in pending
        \/ h \in edits
        \/ \E s \in Source : h \in wrote[s]
    BY <1>7 DEF IndexInv, RowsListed
  <2>. QED
    BY <2>1, <2>2
<1>8. RowsListed'
  BY <1>7 DEF IndexInv, RowsListed
<1>. QED
  BY <1>6, <1>8 DEF IndexInv

\* Steps of the loaders that neither read nor store.
LEMMA LoaderFrame ==
    ASSUME IndexInv,
           UNCHANGED <<wrote, pending, edits, runner, mids, read, moved,
           indexed,
                       current, image, givenUp>>,
           RebuildDue => RebuildDue',
           \A l \in Loader : loader'[l] = "store" => loader[l] = "store"
    PROVE  KeptUp' /\ ImagesListed' /\ RowsListed'
<1>1. \A f \in Film : Listed(f)' <=> Listed(f)
  BY DEF Listed, BeingSealed
<1>2. KeptUp'
  BY <1>1 DEF IndexInv, KeptUp
<1>3. ImagesListed'
  BY <1>1 DEF IndexInv, ImagesListed
<1>4. RowsListed'
  BY DEF IndexInv, RowsListed
<1>. QED
  BY <1>2, <1>3, <1>4

LEMMA SourceIndexStep ==
    ASSUME QueueInv, IndexInv, NEW s \in Source, BeginSource(s) \/ SourceStep(s)
    PROVE  IndexInv'
<1>. USE DEF vars, callVars, sourceVars, queueVars, copyVars, runnerVars, flags,
         indexVars, rebuildVars, loaderVars, boundVars, worldVars
<1>1. CASE BeginSource(s)
  BY <1>1, IndexFrame DEF BeginSource, BeingSealed
<1>2. CASE MarkSealing(s)
  BY <1>2, IndexFrame DEF MarkSealing, BeingSealed
<1>3. CASE AddSealing(s)
  BY <1>3, IndexFrame DEF AddSealing, BeingSealed
<1>4. CASE ScheduleReseal(s)
  <2>1. BeingSealed' = BeingSealed
    BY <1>4 DEF ScheduleReseal, BeingSealed
  <2>2. pending' = pending \cup wrote[s] /\ UNCHANGED edits
    BY <1>4 DEF ScheduleReseal
  <2>3. \A r \in Source : r # s => wrote'[r] = wrote[r]
    BY <1>4 DEF ScheduleReseal, QueueInv, TypeOK
  <2>4. \A f : (\E r \in Source : f \in wrote[r]) =>
                 f \in pending' \/ \E r \in Source : f \in wrote'[r]
    BY <2>2, <2>3
  <2>5. \A f \in Film : Listed(f) => Listed(f)'
    BY <2>1, <2>2, <2>4 DEF Listed
  <2>6. KeptUp' /\ ImagesListed' /\ Locked' /\ OneTimer'
    BY <1>4, <2>5, ListFrame DEF ScheduleReseal
  <2>7. RowsListed'
    BY <1>4, <2>2, <2>4 DEF ScheduleReseal, IndexInv, RowsListed
  <2>. QED
    BY <2>6, <2>7 DEF IndexInv
<1>5. CASE SealWaitingLook(s)
  BY <1>5, IndexFrame DEF SealWaitingLook, BeingSealed
<1>6. CASE SealWaitingTell(s)
  BY <1>6, IndexFrame DEF SealWaitingTell, BeingSealed
<1>7. CASE GoRun(s)
  <2>1. runner = "off" /\ runner' = "top"
    BY <1>7 DEF GoRun, QueueInv, OneRunner
  <2>. QED
    BY <1>7, <2>1, IndexFrame DEF GoRun, BeingSealed
<1>8. CASE EndSource(s)
  BY <1>8, IndexFrame DEF EndSource, BeingSealed
<1>. QED
  BY <1>1, <1>2, <1>3, <1>4, <1>5, <1>6, <1>7, <1>8 DEF SourceStep

\* The runner's steps outside a reseal.
LEMMA RunnerIndexStep ==
    ASSUME QueueInv, IndexInv,
           RunTop \/ RunProbe \/ RunWait \/ RunSeal \/
           ResealDone \/ ResealSettle \/ RunUnseal \/ RunAfter \/
           RunRecheck \/ RunFinish \/ RunTell \/ RunTellSettle \/
           RunStill \/ RunSched \/ RunTake
    PROVE  IndexInv'
<1>. USE DEF vars, callVars, sourceVars, queueVars, copyVars, runnerVars, flags,
         indexVars, rebuildVars, loaderVars, boundVars, worldVars
<1>1. CASE RunTop
  BY <1>1, IndexFrame DEF RunTop, BeingSealed
<1>2. CASE RunProbe
  BY <1>2, IndexFrame DEF RunProbe, BeingSealed
<1>3. CASE RunWait
  BY <1>3, IndexFrame DEF RunWait, BeingSealed
<1>4. CASE RunSeal
  BY <1>4, IndexFrame DEF RunSeal, BeingSealed
<1>5. CASE ResealDone
  BY <1>5, IndexFrame DEF ResealDone, BeingSealed
<1>6. CASE ResealSettle
  BY <1>6, IndexFrame DEF ResealSettle, BeingSealed
<1>7. CASE RunUnseal
  BY <1>7, IndexFrame DEF RunUnseal, BeingSealed
<1>8. CASE RunAfter
  BY <1>8, IndexFrame DEF RunAfter, BeingSealed
<1>9. CASE RunRecheck
  BY <1>9, IndexFrame DEF RunRecheck, BeingSealed
<1>10. CASE RunFinish
  BY <1>10, IndexFrame DEF RunFinish, BeingSealed
<1>11. CASE RunTell
  BY <1>11, IndexFrame DEF RunTell, BeingSealed
<1>12. CASE RunTellSettle
  BY <1>12, IndexFrame DEF RunTellSettle, BeingSealed
<1>13. CASE RunStill
  BY <1>13, IndexFrame DEF RunStill, LeaveToRebuild, BeingSealed
<1>14. CASE RunSched
  BY <1>14, IndexFrame DEF RunSched, LeaveToRebuild, BeingSealed
<1>15. CASE RunTake
  <2>1. /\ pending' = {} /\ UNCHANGED <<edits, wrote>>
        /\ runner' \in {"after", "seal"}
    BY <1>15 DEF RunTake
  <2>2. BeingSealed = {} /\ BeingSealed' = pending
    BY <1>15 DEF RunTake, BeingSealed
  <2>3. \A f \in Film : Listed(f) => Listed(f)'
    BY <2>1, <2>2 DEF Listed
  <2>4. KeptUp' /\ ImagesListed' /\ Locked' /\ OneTimer'
    BY <1>15, <2>3, ListFrame DEF RunTake
  <2>5. RowsListed'
    BY <2>1 DEF RowsListed
  <2>. QED
    BY <2>4, <2>5 DEF IndexInv
<1>. QED
  BY <1>1, <1>2, <1>3, <1>4, <1>5, <1>6, <1>7, <1>8, <1>9, <1>10, <1>11, <1>12,
     <1>13, <1>14, <1>15

\* The reseal: it lists the films until their rows are in the index.
LEMMA ResealIndexStep ==
    ASSUME QueueInv, IndexInv,
           ResealLoad \/ ResealRead \/ ResealInstall \/ RequestRebuild
    PROVE  IndexInv'
<1>. USE DEF vars, callVars, sourceVars, queueVars, copyVars, runnerVars, flags,
         indexVars, rebuildVars, loaderVars, boundVars, worldVars
<1>1. CASE ResealLoad
  <2>1. BeingSealed' = BeingSealed
    BY <1>1 DEF ResealLoad, BeingSealed
  <2>2. \A f \in Film : Listed(f) => Listed(f)'
    BY <1>1, <2>1 DEF ResealLoad, Listed
  <2>3. KeptUp' /\ ImagesListed' /\ Locked' /\ OneTimer'
    BY <1>1, <2>2, ListFrame DEF ResealLoad
  <2>4. RowsListed'
    BY <1>1 DEF ResealLoad, RowsListed
  <2>. QED
    BY <2>3, <2>4 DEF IndexInv
<1>2. CASE ResealRead
  <2>1. BeingSealed' = BeingSealed
    BY <1>2 DEF ResealRead, BeingSealed
  <2>2. \A f \in Film : Listed(f) => Listed(f)'
    BY <1>2, <2>1 DEF ResealRead, Listed
  <2>3. KeptUp' /\ ImagesListed' /\ Locked' /\ OneTimer'
    BY <1>2, <2>2, ListFrame DEF ResealRead
  <2>4. RowsListed'
    BY <1>2 DEF ResealRead, IndexInv, RowsListed
  <2>. QED
    BY <2>3, <2>4 DEF IndexInv
<1>3. CASE ResealInstall
  <2>1. CASE ~indexed \/ moved
    <3>1. BeingSealed' = BeingSealed /\ UNCHANGED indexVars
      BY <1>3, <2>1 DEF ResealInstall, BeingSealed
    <3>2. \A f \in Film : Listed(f) => Listed(f)'
      BY <1>3, <3>1 DEF ResealInstall, Listed
    <3>3. KeptUp' /\ ImagesListed' /\ Locked' /\ OneTimer'
      BY <1>3, <3>1, <3>2, ListFrame DEF ResealInstall
    <3>4. RowsListed'
      BY <1>3, <2>1 DEF ResealInstall, RowsListed
    <3>. QED
      BY <3>3, <3>4 DEF IndexInv
  <2>2. CASE indexed /\ ~moved
    <3>1. /\ runner = "install" /\ runner' = "done"
          /\ indexed' = TRUE /\ current' = (current \ mids) \cup read
          /\ UNCHANGED <<pending, edits, wrote, image, loader, idxMu, timer,
                         rebuilding, seen, givenUp>>
      BY <1>3, <2>2 DEF ResealInstall, Publish
    <3>2. RebuildDue' <=> RebuildDue
      BY <3>1 DEF RebuildDue
    <3>3. \A l \in Loader : loader[l] # "store"
      BY <1>3, SealAssumption DEF ResealInstall, IndexFree, IndexInv, Locked
    <3>4. \A f \in mids : \/ f \in read \/ f \in pending \/ f \in edits
                         \/ \E s \in Source : f \in wrote[s]
      BY <2>2, <3>1 DEF IndexInv, RowsListed
    <3>5. KeptUp'
      <4>. SUFFICES ASSUME ~givenUp', ~RebuildDue', NEW f \in Film
                    PROVE  f \in current' \/ f \in image'["scan"] \/ Listed(f)'
        BY DEF KeptUp
      <4>1. f \in current \/ f \in image["scan"] \/ Listed(f)
        BY <2>2, <3>1, <3>2 DEF IndexInv, KeptUp
      <4>2. CASE f \in mids
        BY <3>1, <3>4, <4>2 DEF Listed
      <4>3. CASE f \notin mids
        BY <3>1, <4>1, <4>3 DEF Listed, BeingSealed
      <4>. QED
        BY <4>2, <4>3
    <3>6. ImagesListed'
      BY <3>1, <3>3 DEF ImagesListed
    <3>7. RowsListed'
      BY <3>1 DEF RowsListed
    <3>8. Locked' /\ OneTimer'
      BY <3>1 DEF IndexInv, Locked, OneTimer
    <3>. QED
      BY <3>5, <3>6, <3>7, <3>8 DEF IndexInv
  <2>. QED
    BY <2>1, <2>2
<1>4. CASE RequestRebuild
  <2>1. RebuildDue'
    <3>1. seen'["scan"] = FALSE /\ UNCHANGED rebuilding
      BY <1>4 DEF RequestRebuild, Loader
    <3>2. timer' \/ rebuilding
      BY <1>4 DEF RequestRebuild
    <3>. QED
      BY <3>1, <3>2 DEF RebuildDue
  <2>2. KeptUp' /\ ImagesListed'
    BY <2>1 DEF KeptUp, ImagesListed
  <2>3. RowsListed'
    BY <1>4 DEF RequestRebuild, RowsListed
  <2>4. Locked'
    BY <1>4 DEF RequestRebuild, IndexInv, Locked
  <2>5. OneTimer'
    BY <1>4 DEF RequestRebuild, IndexInv, OneTimer
  <2>. QED
    BY <2>2, <2>3, <2>4, <2>5 DEF IndexInv
<1>. QED
  BY <1>1, <1>2, <1>3, <1>4

\* A rebuild that is due stays due until it reads.
LEMMA RebuildIndexStep ==
    ASSUME QueueInv, IndexInv, StartRebuild \/ LoadOnDemand \/ RebuildNext
    PROVE  IndexInv'
<1>. USE DEF vars, callVars, sourceVars, queueVars, copyVars, runnerVars, flags,
         indexVars, rebuildVars, loaderVars, boundVars, worldVars
<1>. loader \in [Loader -> LoaderState]
  BY DEF QueueInv, TypeOK, SourceTypes, QueueTypes, LoaderTypes, WorldTypes
<1>1. CASE StartRebuild
  <2>1. /\ ~rebuilding
        /\ rebuilding' = TRUE /\ timer' = FALSE
        /\ loader' = [loader EXCEPT !["scan"] = "begin"]
    BY <1>1 DEF StartRebuild, IndexInv, OneTimer
  <2>2. loader'["scan"] = "begin"
    BY <2>1 DEF Loader
  <2>3. RebuildDue'
    BY <2>2 DEF RebuildDue
  <2>4. KeptUp' /\ ImagesListed' /\ RowsListed'
    BY <1>1, <2>1, <2>3, LoaderFrame DEF StartRebuild
  <2>5. Locked' /\ OneTimer'
    BY <1>1, <2>1 DEF StartRebuild, IndexInv, Locked, OneTimer
  <2>. QED
    BY <2>4, <2>5 DEF IndexInv
<1>2. CASE LoadOnDemand
  <2>1. loader'["scan"] = loader["scan"]
    BY <1>2 DEF LoadOnDemand, Loader
  <2>2. RebuildDue' <=> RebuildDue
    BY <1>2, <2>1 DEF LoadOnDemand, RebuildDue
  <2>3. KeptUp' /\ ImagesListed' /\ RowsListed'
    BY <1>2, <2>2, LoaderFrame DEF LoadOnDemand
  <2>4. Locked' /\ OneTimer'
    BY <1>2 DEF LoadOnDemand, IndexInv, Locked, OneTimer
  <2>. QED
    BY <2>3, <2>4 DEF IndexInv
<1>3. CASE RebuildNext
  <2>1. RebuildDue => RebuildDue'
    <3>1. CASE seen["scan"]
      BY <1>3, <3>1 DEF RebuildNext, RebuildDue
    <3>2. CASE ~seen["scan"]
      <4>1. loader'["scan"] = "begin"
        BY <1>3, <3>2 DEF RebuildNext, Loader
      <4>. QED
        BY <4>1 DEF RebuildDue
    <3>. QED
      BY <3>1, <3>2
  <2>2. \A l \in Loader :
           loader'[l] \in {"read", "store"} => loader'[l] = loader[l]
    BY <1>3 DEF RebuildNext
  <2>3. KeptUp' /\ ImagesListed' /\ RowsListed'
    BY <1>3, <2>1, <2>2, LoaderFrame DEF RebuildNext
  <2>4. Locked' /\ OneTimer'
    BY <1>3, <2>2 DEF RebuildNext, IndexInv, Locked, OneTimer
  <2>. QED
    BY <2>3, <2>4 DEF IndexInv
<1>. QED
  BY <1>1, <1>2, <1>3

\* What follows the notification of a loader.
LEMMA LeaveFrame ==
    ASSUME QueueInv, IndexInv, NEW l \in Loader, LoaderLeave(l),
           loader[l] \notin {"begin", "lock", "read", "store"},
           UNCHANGED <<wrote, pending, edits, runner, mids, read, moved,
           indexed,
                       current, image, givenUp, timer, rebuilding>>
    PROVE  IndexInv'
<1>. /\ loader \in [Loader -> LoaderState]
     /\ seen \in [Loader -> BOOLEAN]
  BY DEF QueueInv, TypeOK, SourceTypes, QueueTypes, LoaderTypes, WorldTypes
<1>1. seen'["scan"] = seen["scan"]
  BY DEF LoaderLeave, Loader
<1>2. loader["scan"] \in {"begin", "lock", "read"} =>
          loader'["scan"] \in {"begin", "lock", "read"}
  BY DEF LoaderLeave
<1>3. RebuildDue => RebuildDue'
  BY <1>1, <1>2 DEF RebuildDue
<1>4. \A k \in Loader : loader'[k] \in {"read", "store"} =>
                         k # l /\ loader'[k] = loader[k]
  BY DEF LoaderLeave
<1>5. KeptUp' /\ ImagesListed' /\ RowsListed'
  BY <1>3, <1>4, LoaderFrame
<1>6. Locked'
  BY <1>4 DEF IndexInv, Locked, LoaderLeave
<1>7. OneTimer'
  BY DEF IndexInv, OneTimer
<1>. QED
  BY <1>5, <1>6, <1>7 DEF IndexInv

LEMMA LoaderIndexStep ==
    ASSUME QueueInv, IndexInv, NEW l \in Loader, LoaderStep(l)
    PROVE  IndexInv'
<1>. USE DEF vars, callVars, sourceVars, queueVars, copyVars, runnerVars, flags,
         indexVars, rebuildVars, loaderVars, boundVars, worldVars
<1>. /\ loader \in [Loader -> LoaderState]
     /\ seen \in [Loader -> BOOLEAN]
     /\ image \in [Loader -> SUBSET Film]
  BY DEF QueueInv, TypeOK, SourceTypes, QueueTypes, LoaderTypes, WorldTypes
<1>1. CASE LoaderSee(l)
  <2>1. RebuildDue => RebuildDue'
    <3>1. CASE l = "scan"
      <4>1. loader'["scan"] = "lock"
        BY <1>1, <3>1 DEF LoaderSee
      <4>. QED
        BY <4>1 DEF RebuildDue
    <3>2. CASE l # "scan"
      <4>1. loader'["scan"] = loader["scan"] /\ seen'["scan"] = seen["scan"]
        BY <1>1, <3>2 DEF LoaderSee, Loader
      <4>. QED
        BY <1>1, <4>1 DEF LoaderSee, RebuildDue
    <3>. QED
      BY <3>1, <3>2
  <2>2. \A k \in Loader :
           loader'[k] \in {"read", "store"} => loader'[k] = loader[k]
    BY <1>1 DEF LoaderSee
  <2>3. KeptUp' /\ ImagesListed' /\ RowsListed'
    BY <1>1, <2>1, <2>2, LoaderFrame DEF LoaderSee
  <2>4. Locked' /\ OneTimer'
    BY <1>1, <2>2 DEF LoaderSee, IndexInv, Locked, OneTimer
  <2>. QED
    BY <2>3, <2>4 DEF IndexInv
<1>2. CASE LoaderLock(l)
  <2>1. RebuildDue => RebuildDue'
    <3>1. CASE l = "scan"
      <4>1. loader'["scan"] = "read"
        BY <1>2, <3>1 DEF LoaderLock
      <4>. QED
        BY <4>1 DEF RebuildDue
    <3>2. CASE l # "scan"
      <4>1. loader'["scan"] = loader["scan"] /\ seen'["scan"] = seen["scan"]
        BY <1>2, <3>2 DEF LoaderLock, Loader
      <4>. QED
        BY <1>2, <4>1 DEF LoaderLock, RebuildDue
    <3>. QED
      BY <3>1, <3>2
  <2>2. \A k \in Loader : loader'[k] = "store" => loader[k] = "store"
    BY <1>2 DEF LoaderLock
  <2>3. KeptUp' /\ ImagesListed' /\ RowsListed'
    BY <1>2, <2>1, <2>2, LoaderFrame DEF LoaderLock
  <2>4. \A k \in Loader : loader[k] \notin {"read", "store"}
    BY <1>2, SealAssumption DEF LoaderLock, IndexFree, IndexInv, Locked
  <2>5. Locked'
    BY <1>2, <2>4 DEF LoaderLock, Locked
  <2>6. OneTimer'
    BY <1>2 DEF LoaderLock, IndexInv, OneTimer
  <2>. QED
    BY <2>3, <2>5, <2>6 DEF IndexInv
<1>3. CASE LoaderRead(l)
  <2>1. \A f \in Film : Listed(f)' <=> Listed(f)
    BY <1>3 DEF LoaderRead, Listed, BeingSealed
  <2>2. \A k \in Loader : k # l => loader[k] \notin {"read", "store"}
    BY <1>3 DEF LoaderRead, IndexInv, Locked
  <2>3. \A k \in Loader :
           k # l => loader'[k] = loader[k] /\ image'[k] = image[k]
    BY <1>3 DEF LoaderRead
  <2>4. KeptUp'
    <3>1. CASE l = "scan"
      <4>1. givenUp' \/ image'["scan"] = Film
        BY <1>3, <3>1 DEF LoaderRead
      <4>. QED
        BY <4>1 DEF KeptUp
    <3>2. CASE l # "scan"
      <4>1. /\ loader'["scan"] = loader["scan"] /\ image'["scan"] = image["scan"]
            /\ UNCHANGED <<indexed, current, timer, rebuilding, seen>>
        BY <1>3, <2>3, <3>2 DEF LoaderRead, Loader
      <4>2. RebuildDue' <=> RebuildDue
        BY <4>1 DEF RebuildDue
      <4>3. givenUp => givenUp'
        BY <1>3, <3>2 DEF LoaderRead
      <4>. QED
        BY <2>1, <4>1, <4>2, <4>3 DEF IndexInv, KeptUp
    <3>. QED
      BY <3>1, <3>2
  <2>5. ImagesListed'
    <3>1. loader'[l] = "store" => image'[l] = Film
      BY <1>3 DEF LoaderRead
    <3>. QED
      BY <2>2, <2>3, <3>1 DEF ImagesListed
  <2>6. RowsListed'
    BY <1>3 DEF LoaderRead, IndexInv, RowsListed
  <2>7. Locked'
    <3>1. loader'[l] \in {"read", "store"} => idxMu' = l
      BY <1>3 DEF LoaderRead, IndexInv, Locked
    <3>. QED
      BY <2>2, <2>3, <3>1 DEF Locked
  <2>8. OneTimer'
    BY <1>3 DEF LoaderRead, IndexInv, OneTimer
  <2>. QED
    BY <2>4, <2>5, <2>6, <2>7, <2>8 DEF IndexInv
<1>4. CASE LoaderStore(l)
  <2>1. \A f \in Film : Listed(f)' <=> Listed(f)
    BY <1>4 DEF LoaderStore, Listed, BeingSealed
  <2>2. \A k \in Loader : k # l => loader[k] \notin {"read", "store"}
    BY <1>4 DEF LoaderStore, IndexInv, Locked
  <2>3. \A k \in Loader : loader'[k] = IF k = l THEN "tell" ELSE loader[k]
    BY <1>4 DEF LoaderStore
  <2>4. KeptUp'
    <3>1. loader'["scan"] \in {"begin", "lock", "read"} <=>
              loader["scan"] \in {"begin", "lock", "read"}
      BY <1>4, <2>3 DEF LoaderStore, Loader
    <3>2. RebuildDue' <=> RebuildDue
      BY <1>4, <3>1 DEF LoaderStore, RebuildDue
    <3>3. ~RebuildDue => \A f \in Film : f \in image[l] \/ Listed(f)
      BY <1>4 DEF LoaderStore, IndexInv, ImagesListed
    <3>4. current' = image[l]
      BY <1>4 DEF LoaderStore, Publish
    <3>. QED
      BY <2>1, <3>2, <3>3, <3>4 DEF KeptUp
  <2>5. ImagesListed'
    BY <2>2, <2>3 DEF ImagesListed
  <2>6. RowsListed'
    BY <1>4 DEF LoaderStore, Publish, MoveIndex, RowsListed
  <2>7. Locked'
    BY <2>2, <2>3 DEF Locked
  <2>8. OneTimer'
    BY <1>4 DEF LoaderStore, IndexInv, OneTimer
  <2>. QED
    BY <2>4, <2>5, <2>6, <2>7, <2>8 DEF IndexInv
<1>5. CASE LoaderTell(l)
  <2>1. CASE seen[l]
    <3>1. \A k \in Loader : loader'[k] = IF k = l THEN "settle" ELSE loader[k]
      BY <1>5, <2>1 DEF LoaderTell
    <3>2. loader[l] = "tell" /\ UNCHANGED <<timer, rebuilding, seen, idxMu>>
      BY <1>5, <2>1 DEF LoaderTell
    <3>3. RebuildDue => RebuildDue'
      BY <3>1, <3>2 DEF RebuildDue, Loader
    <3>4. KeptUp' /\ ImagesListed' /\ RowsListed'
      BY <1>5, <3>1, <3>3, LoaderFrame DEF LoaderTell
    <3>5. Locked' /\ OneTimer'
      BY <3>1, <3>2 DEF IndexInv, Locked, OneTimer
    <3>. QED
      BY <3>4, <3>5 DEF IndexInv
  <2>2. CASE ~seen[l]
    BY <1>5, <2>2, LeaveFrame DEF LoaderTell
  <2>. QED
    BY <2>1, <2>2
<1>6. CASE LoaderSettle(l)
  BY <1>6, LeaveFrame DEF LoaderSettle
<1>. QED
  BY <1>1, <1>2, <1>3, <1>4, <1>5, <1>6 DEF LoaderStep

\* Edits, upserts and the clearing of the index.
LEMMA WorldIndexStep ==
    ASSUME QueueInv, IndexInv,
           (\E f \in Film : EditFilm(f) \/ UpsertFilm(f)) \/ ClearIndex
    PROVE  IndexInv'
<1>. USE DEF vars, callVars, sourceVars, queueVars, copyVars, runnerVars, flags,
         indexVars, rebuildVars, loaderVars, boundVars, worldVars
<1>1. ASSUME NEW f \in Film, EditFilm(f) PROVE IndexInv'
  BY <1>1, WriteFrame DEF EditFilm
<1>2. ASSUME NEW f \in Film, UpsertFilm(f) PROVE IndexInv'
  <2>1. /\ UNCHANGED <<pending, wrote, runner, mids, read, image, loader, idxMu,
                       timer, rebuilding, seen, givenUp>>
        /\ edits' = edits \ {f}
    BY <1>2 DEF UpsertFilm
  <2>2. RebuildDue' <=> RebuildDue
    BY <2>1 DEF RebuildDue
  <2>3. \A h \in Film : Listed(h) /\ h # f => Listed(h)'
    BY <2>1 DEF Listed, BeingSealed
  <2>4. \A l \in Loader : loader[l] # "store"
    BY <1>2, SealAssumption DEF UpsertFilm, IndexFree, IndexInv, Locked
  <2>5. KeptUp'
    <3>1. CASE indexed
      <4>1. current' = current \cup {f}
        BY <1>2, <3>1 DEF UpsertFilm, Publish
      <4>. QED
        BY <2>1, <2>2, <2>3, <3>1, <4>1 DEF IndexInv, KeptUp
    <3>2. CASE ~indexed
      <4>1. ~indexed'
        BY <1>2, <3>2 DEF UpsertFilm
      <4>. QED
        BY <4>1 DEF KeptUp
    <3>. QED
      BY <3>1, <3>2
  <2>6. ImagesListed'
    BY <2>1, <2>4 DEF ImagesListed
  <2>7. RowsListed'
    <3>1. CASE indexed
      BY <1>2, <2>1, <3>1 DEF UpsertFilm, Publish, MoveIndex, RowsListed
    <3>2. CASE ~indexed
      BY <1>2, <2>1, <3>2 DEF UpsertFilm, IndexInv, RowsListed
    <3>. QED
      BY <3>1, <3>2
  <2>8. Locked' /\ OneTimer'
    BY <2>1 DEF IndexInv, Locked, OneTimer
  <2>. QED
    BY <2>5, <2>6, <2>7, <2>8 DEF IndexInv
<1>3. CASE ClearIndex
  <2>1. /\ UNCHANGED <<loader, idxMu, timer, rebuilding, runner>>
        /\ ~indexed'
    BY <1>3 DEF ClearIndex
  <2>2. KeptUp'
    BY <2>1 DEF KeptUp
  <2>3. ImagesListed'
    BY <1>3, SealAssumption
    DEF ClearIndex, IndexFree, IndexInv, Locked, ImagesListed
  <2>4. RowsListed'
    BY <1>3 DEF ClearIndex, MoveIndex, RowsListed
  <2>5. Locked' /\ OneTimer'
    BY <2>1 DEF IndexInv, Locked, OneTimer
  <2>. QED
    BY <2>2, <2>3, <2>4, <2>5 DEF IndexInv
<1>. QED
  BY <1>1, <1>2, <1>3

LEMMA IndexStep == QueueInv /\ IndexInv /\ [Next]_vars => IndexInv'
<1>. SUFFICES ASSUME QueueInv, IndexInv, [Next]_vars PROVE IndexInv'
  OBVIOUS
<1>. USE DEF vars, callVars, sourceVars, queueVars, copyVars, runnerVars, flags,
         indexVars, rebuildVars, loaderVars, boundVars, worldVars
<1>1. ASSUME NEW s \in Source, BeginSource(s) \/ SourceStep(s) PROVE IndexInv'
  BY <1>1, SourceIndexStep
<1>2. ASSUME NEW s \in Source, NEW ending \in Ending, FinishRun(s, ending)
      PROVE IndexInv'
  BY <1>2, IndexFrame DEF FinishRun, BeingSealed
<1>3. ASSUME NEW s \in Source, NEW f \in Film, WriteFilm(s, f) PROVE IndexInv'
  <2>1. \A r \in Source : wrote[r] \subseteq wrote'[r]
    BY <1>3 DEF WriteFilm, QueueInv, TypeOK, SourceTypes
  <2>2. f \in wrote'[s]
    BY <1>3 DEF WriteFilm, QueueInv, TypeOK, SourceTypes
  <2>. QED
    BY <1>3, <2>1, <2>2, WriteFrame DEF WriteFilm
<1>4. CASE RunnerStep
  BY <1>4, RunnerIndexStep, ResealIndexStep DEF RunnerStep
<1>5. CASE StartRebuild \/ LoadOnDemand \/ RebuildNext
  BY <1>5, RebuildIndexStep
<1>6. ASSUME NEW l \in Loader, LoaderStep(l) PROVE IndexInv'
  BY <1>6, LoaderIndexStep
<1>7. CASE (\E f \in Film : EditFilm(f) \/ UpsertFilm(f)) \/ ClearIndex
  BY <1>7, WorldIndexStep
<1>8. CASE UNCHANGED vars
  BY <1>8, IndexFrame DEF BeingSealed
<1>. QED
  BY <1>1, <1>2, <1>3, <1>4, <1>5, <1>6, <1>7, <1>8 DEF Next

-----------------------------------------------------------------------------
\* Every variable of the cycle keeps its type.
THEOREM TypeCorrect == Spec => []TypeOK
<1>1. QueueInv => TypeOK
  BY DEF QueueInv
<1>. QED
  BY <1>1, QueueInvariant, PTL

\* searchReseal.running says exactly whether the queue has a runner, or a caller
\* of addSealing or scheduleSearchReseal that is about to start it.
THEOREM OneRunnerHolds == Spec => []OneRunner
<1>1. QueueInv => OneRunner
  BY DEF QueueInv
<1>. QED
  BY <1>1, QueueInvariant, PTL

\* The runner never leaves the queue with films in it.
THEOREM PendingServedHolds == Spec => []PendingServed
<1>1. QueueInv => PendingServed
  BY DEF QueueInv
<1>. QED
  BY <1>1, QueueInvariant, PTL

\* No film that is out of date in the index is forgotten: neither by a reseal
\* whose rows got old, nor by one that failed, nor by a rebuild.
THEOREM IndexKeepsUpHolds == Spec => []IndexKeepsUp
<1>1. Init => IndexInv
  BY DEF Init, IndexInv, KeptUp, ImagesListed, RowsListed, Locked, OneTimer
<1>2. IndexInv => IndexKeepsUp
  BY DEF IndexInv, KeptUp, IndexKeepsUp, Listed
<1>. QED
  BY <1>1, <1>2, QueueInvariant, IndexStep, PTL DEF Spec

-----------------------------------------------------------------------------
(* The conjunction the run checks, from its parts.                          *)

(* The queue keeps its types, has one runner, and never holds work nobody   *)
(* will pick up (collect_search_reseal_queue.go).                           *)
THEOREM QueueServedHolds == Spec => []QueueServed
BY TypeCorrect, OneRunnerHolds, PendingServedHolds, PTL DEF QueueServed

=============================================================================
