-------------------------- MODULE CollectRunProofs --------------------------
(***************************************************************************)
(* Proofs about the runs of a source, for every set of requests and stops  *)
(* and for every number of deletions.                                      *)
(***************************************************************************)
EXTENDS CollectRun, TLAPS

\* taskMu has one holder, and a holder has seen the task it acts on.
TaskMuHeld ==
    /\ \A x \in Stopper : stop[x] = "cancel" => task # Nobody
    /\ \A x, y \in Stopper : stop[x] = "cancel" /\ stop[y] = "cancel" => x = y
    /\ \A r \in Run : at[r] = "store" => task = Nobody
    /\ \A r \in Run, x \in Stopper : ~(at[r] = "store" /\ stop[x] = "cancel")

\* The gate knows who is in.
GateHeld == \A r \in Run : at[r] \in Gated <=> active = r

\* A run is in the task table or cancelled from the moment it registered.
Registered ==
    \A r \in Run : at[r] \in Collecting \cup {"epoch"} =>
        task = r \/ r \in cancelled

RunInv == TypeOK /\ TaskMuHeld /\ GateHeld /\ Registered /\ SealingHandedOver

\* Where a request is before it claims, and once it has claimed.
Unclaimed == {"new", "status", "active", "occupied", "terminal", "forget",
              "unheld", "held", "claim"}
Waiting == {"mark", "open", "context"}

\* The claim that stands belongs to a request that has yet to give it back and
\* that took it into its context, if it has one.
ClaimHeld ==
    \A r \in Run :
        /\ at[r] \in Unclaimed \cup Waiting => token[r] = Nobody
        /\ occupy = r => at[r] \notin Unclaimed \cup {"off", "finish"}
        /\ occupy = r /\ at[r] \notin Waiting =>
               \/ token[r] = r
               \/ token[r] = Nobody /\ at[r] \in {"giveUp", "release"}

USE RunAssumption
USE DEF Stopper, NoEpoch, Active, Stops, Terminal, Status, Queued, Collecting,
        Gated, Leaving, Places, StopPlaces
USE DEF entryVars, tableVars, runVars, purgeVars
USE DEF Go, There, Settle, Free, TaskMuFree, MayUpdate, OwnsOccupy
USE DEF TypeOK, EntryTypes, TableTypes, RunTypes, PlaceTypes, PurgeTypes

-----------------------------------------------------------------------------
\* The invariant behind the first theorems, action by action.
USE DEF RunInv, TaskMuHeld, GateHeld, Registered, SealingHandedOver

LEMMA RunInvInit == Init => RunInv
<1>. SUFFICES ASSUME Init
              PROVE  RunInv
  OBVIOUS
<1>1. EntryTypes /\ RunTypes
  BY DEF Init
<1>2. TableTypes
  BY DEF Init
<1>3. PlaceTypes
  <2>1. at \in [Run \cup {Keeper} -> {"new", "off"}]
    BY DEF Init
  <2>2. stop \in [Stopper -> {"new"}]
    BY DEF Init
  <2>. QED
    BY <2>1, <2>2
<1>4. PurgeTypes
  <2>1. purging = FALSE /\ purges = 0
    BY DEF Init
  <2>2. 0 \in 0 .. MaxPurges
    BY RunAssumption
  <2>. QED
    BY <2>1, <2>2
<1>5. \A r \in Run : at[r] = "new"
  BY DEF Init
<1>6. TaskMuHeld /\ GateHeld /\ Registered /\ SealingHandedOver
  BY <1>5 DEF Init
<1>. QED
  BY <1>1, <1>2, <1>3, <1>4, <1>6

\* A request, or the tick, looks whether the entry is abandoned.
LEMMA LookKeepsRunInv ==
    ASSUME RunInv, NEW c \in Run \cup {Keeper}, Look(c)
    PROVE  RunInv'
<1>1. CASE LookActive(c)
  BY <1>1 DEF LookActive
<1>2. CASE LookOccupied(c)
  BY <1>2 DEF LookOccupied
<1>3. CASE LookTerminal(c)
  BY <1>3 DEF LookTerminal
<1>4. CASE LookForget(c)
  BY <1>4 DEF LookForget
<1>5. CASE LookDecide(c)
  BY <1>5 DEF LookDecide
<1>. QED
  BY <1>1, <1>2, <1>3, <1>4, <1>5 DEF Look

\* From the claim to the first page.
LEMMA StartKeepsRunInv ==
    ASSUME RunInv, NEW r \in Run, Start(r)
    PROVE  RunInv'
<1>1. CASE Look(r)
  BY <1>1, LookKeepsRunInv
<1>2. CASE LookStatus(r)
  BY <1>2 DEF LookStatus
<1>3. CASE Claim(r)
  BY <1>3 DEF Claim
<1>4. CASE MarkStarting(r)
  BY <1>4 DEF MarkStarting
<1>5. CASE NoQueueId(r)
  BY <1>5 DEF NoQueueId
<1>6. CASE OpenBatch(r)
  BY <1>6 DEF OpenBatch
<1>7. CASE NewContext(r)
  BY <1>7 DEF NewContext
<1>8. CASE RecordStart(r)
  BY <1>8 DEF RecordStart
<1>9. CASE LoadVersion(r)
  BY <1>9 DEF LoadVersion
<1>10. CASE Dispatch(r)
  BY <1>10 DEF Dispatch
<1>11. CASE CheckOwner(r)
  BY <1>11 DEF CheckOwner
<1>12. CASE ProbeEnds(r)
  <2>1. EntryTypes'
    BY <1>12 DEF ProbeEnds
  <2>2. status # "sealing" => status' # "sealing"
    BY <1>12 DEF ProbeEnds
  <2>3. failed' \in [Run -> BOOLEAN]
    <3>1. failed' = failed \/ \E f \in BOOLEAN :
                                  failed' = [failed EXCEPT ![r] = f]
      BY <1>12 DEF ProbeEnds
    <3>. QED
      BY <3>1
  <2>4. \/ /\ at[r] = "probe"
           /\ Go(r, "probed") \/ Go(r, "probeFailed")
        \/ /\ at[r] = "reprobe"
           /\ Go(r, "reprobed") \/ Go(r, "unregister")
    BY <1>12 DEF ProbeEnds
  <2>5. UNCHANGED <<tableVars, token, current, runEpoch, stop, purgeVars>>
    BY <1>12 DEF ProbeEnds
  <2>6. TypeOK'
    BY <2>1, <2>3, <2>4, <2>5
  <2>7. (TaskMuHeld /\ GateHeld)'
    BY <2>4, <2>5
  <2>8. (Registered /\ SealingHandedOver)'
    BY <2>2, <2>4, <2>5
  <2>. QED
    BY <2>6, <2>7, <2>8
<1>13. CASE ProbeFailed(r)
  BY <1>13 DEF ProbeFailed
<1>14. CASE AfterProbe(r)
  BY <1>14 DEF AfterProbe
<1>15. CASE HasPages(r)
  BY <1>15 DEF HasPages
<1>16. CASE HandleVersion(r)
  BY <1>16 DEF HandleVersion
<1>17. CASE HandleReady(r)
  BY <1>17 DEF HandleReady
<1>18. CASE BeginSource(r)
  BY <1>18 DEF BeginSource
<1>19. CASE GateRefuses(r)
  BY <1>19 DEF GateRefuses
<1>20. CASE UpdateFilm(r)
  BY <1>20 DEF UpdateFilm
<1>21. CASE Register(r)
  BY <1>21 DEF Register
<1>22. CASE RegisterFails(r)
  BY <1>22 DEF RegisterFails
<1>23. CASE StoreTask(r)
  BY <1>23 DEF StoreTask
<1>24. CASE ReadEpoch(r)
  BY <1>24 DEF ReadEpoch
<1>25. CASE Ensure(r)
  BY <1>25 DEF Ensure
<1>26. CASE PageTotal(r)
  <2>1. EntryTypes' /\ status' = status
    BY <1>26 DEF PageTotal
  <2>2. failed' \in [Run -> BOOLEAN]
    <3>1. failed' = failed \/ failed' = [failed EXCEPT ![r] = TRUE]
      BY <1>26 DEF PageTotal
    <3>. QED
      BY <3>1
  <2>3. /\ at[r] \in {"total", "reprobed"}
        /\ \E there \in {"unregister", "running", "reprobe"} : Go(r, there)
    BY <1>26 DEF PageTotal
  <2>4. UNCHANGED <<tableVars, token, current, runEpoch, stop, purgeVars>>
    BY <1>26 DEF PageTotal
  <2>5. TypeOK'
    BY <2>1, <2>2, <2>3, <2>4
  <2>6. (TaskMuHeld /\ GateHeld)'
    BY <2>3, <2>4
  <2>7. (Registered /\ SealingHandedOver)'
    BY <2>1, <2>3, <2>4
  <2>. QED
    BY <2>5, <2>6, <2>7
<1>27. CASE StartRunning(r)
  BY <1>27 DEF StartRunning
<1>. QED
  BY <1>1, <1>2, <1>3, <1>4, <1>5, <1>6, <1>7, <1>8, <1>9, <1>10, <1>11,
     <1>12, <1>13, <1>14, <1>15, <1>16, <1>17, <1>18, <1>19, <1>20, <1>21,
     <1>22, <1>23, <1>24, <1>25, <1>26, <1>27 DEF Start

\* The end of the pages and the ways out.
LEMMA LeaveKeepsRunInv ==
    ASSUME RunInv, NEW r \in Run, Leave(r)
    PROVE  RunInv'
<1>1. CASE CollectEnds(r)
  BY <1>1 DEF CollectEnds
<1>2. CASE MarkSealing(r)
  BY <1>2 DEF MarkSealing
<1>3. CASE AddSealing(r)
  BY <1>3 DEF AddSealing
<1>4. CASE Unregister(r)
  BY <1>4 DEF Unregister
<1>5. CASE UnregFail(r)
  BY <1>5 DEF UnregFail
<1>6. CASE Finalize(r)
  BY <1>6 DEF Finalize
<1>7. CASE EndSource(r)
  BY <1>7 DEF EndSource
<1>8. CASE GiveUp(r)
  BY <1>8 DEF GiveUp
<1>9. CASE Abort(r)
  BY <1>9 DEF Abort
<1>10. CASE AbortFail(r)
  BY <1>10 DEF AbortFail
<1>11. CASE ReleaseOccupy(r)
  BY <1>11 DEF ReleaseOccupy
<1>12. CASE CloseContext(r)
  BY <1>12 DEF CloseContext
<1>13. CASE FinishRun(r)
  BY <1>13 DEF FinishRun
<1>. QED
  BY <1>1, <1>2, <1>3, <1>4, <1>5, <1>6, <1>7, <1>8, <1>9, <1>10, <1>11,
     <1>12, <1>13 DEF Leave

\* The steps of a stop after its first.
LEMMA StopKeepsRunInv ==
    ASSUME RunInv, NEW x \in Stopper, StopStep(x)
    PROVE  RunInv'
<1>1. CASE StopRange(x)
  BY <1>1 DEF StopRange
<1>2. CASE StopCancel(x)
  BY <1>2 DEF StopCancel
<1>3. CASE StopMarkAll(x)
  BY <1>3 DEF StopMarkAll
<1>4. CASE StopLive(x)
  BY <1>4 DEF StopLive
<1>5. CASE StopRelease(x)
  BY <1>5 DEF StopRelease
<1>. QED
  BY <1>1, <1>2, <1>3, <1>4, <1>5 DEF StopStep

\* Every step keeps the invariant.
LEMMA RunInvStep == RunInv /\ [Next]_vars => RunInv'
<1>. SUFFICES ASSUME RunInv, [Next]_vars
              PROVE  RunInv'
  OBVIOUS
<1>1. ASSUME NEW r \in Run,
             \/ LookTasks(r) \/ Start(r) \/ Leave(r)
             \/ PageStarts(r) \/ WorkerStops(r)
      PROVE  RunInv'
  <2>1. CASE LookTasks(r)
    BY <2>1 DEF LookTasks
  <2>2. CASE Start(r)
    BY <2>2, StartKeepsRunInv
  <2>3. CASE Leave(r)
    BY <2>3, LeaveKeepsRunInv
  <2>4. CASE PageStarts(r)
    BY <2>4 DEF PageStarts
  <2>5. CASE WorkerStops(r)
    BY <2>5 DEF WorkerStops
  <2>. QED
    BY <1>1, <2>1, <2>2, <2>3, <2>4, <2>5
<1>2. CASE Look(Keeper)
  BY <1>2, LookKeepsRunInv
<1>3. ASSUME NEW x \in Stopper, StopVersion(x) \/ StopMark(x) \/ StopStep(x)
      PROVE  RunInv'
  <2>1. CASE StopVersion(x)
    BY <2>1 DEF StopVersion
  <2>2. CASE StopMark(x)
    BY <2>2 DEF StopMark
  <2>3. CASE StopStep(x)
    BY <2>3, StopKeepsRunInv
  <2>. QED
    BY <1>3, <2>1, <2>2, <2>3
<1>4. CASE MarkSealed
  <2>1. /\ EntryTypes' /\ status' # "sealing"
        /\ sealing' = FALSE
        /\ UNCHANGED <<occupy, task, cancelled, active, runVars, at, stop,
                       purgeVars>>
    BY <1>4 DEF MarkSealed
  <2>2. TypeOK'
    BY <2>1
  <2>. QED
    BY <2>1, <2>2
<1>5. CASE PurgeLook
  BY <1>5 DEF PurgeLook
<1>6. CASE PurgeDelete
  BY <1>6 DEF PurgeDelete
<1>7. CASE UNCHANGED vars
  BY <1>7 DEF vars
<1>. QED
  BY <1>1, <1>2, <1>3, <1>4, <1>5, <1>6, <1>7 DEF Next

LEMMA RunInvHolds == Spec => []RunInv
  BY RunInvInit, RunInvStep, PTL DEF Spec

-----------------------------------------------------------------------------
\* The variables of the runs keep their types, for any requests and stops.
THEOREM TypeCorrect == Spec => []TypeOK
<1>1. RunInv => TypeOK
  OBVIOUS
<1>. QED
  BY RunInvHolds, <1>1, PTL

\* Two runs of a source are never in the gate together, whatever stops, claims
\* and tokens did before it.
THEOREM OneCollectsHolds == Spec => []OneCollects
<1>1. RunInv => OneCollects
  BY DEF OneCollects
<1>. QED
  BY RunInvHolds, <1>1, PTL

\* A run that collects is in the task table or cancelled, so a stop reaches it.
THEOREM ReachableHolds == Spec => []Reachable
<1>1. RunInv => Reachable
  BY DEF Reachable
<1>. QED
  BY RunInvHolds, <1>1, PTL

\* A source that waits to be sealed is known to the seal queue, or about to be.
THEOREM SealingHandedOverHolds == Spec => []SealingHandedOver
<1>1. RunInv => SealingHandedOver
  OBVIOUS
<1>. QED
  BY RunInvHolds, <1>1, PTL

-----------------------------------------------------------------------------
\* What every step does to an entry that has ended or is being stopped.
Settled ==
    epoch' = epoch =>
        /\ status \in Terminal => status' \in Terminal \cup {"none"}
        /\ status = "stopping" =>
               \/ status' \in {"stopping", "stopped", "none"}
               \/ status' = "sealing" /\ outcome' = "stopped"


\* A request, or the tick, looks whether the entry is abandoned.
LEMMA LookSettles ==
    ASSUME TypeOK, NEW c \in Run \cup {Keeper}, Look(c)
    PROVE  Settled
<1>1. CASE LookActive(c)
  BY <1>1 DEF LookActive, Settled
<1>2. CASE LookOccupied(c)
  BY <1>2 DEF LookOccupied, Settled
<1>3. CASE LookTerminal(c)
  BY <1>3 DEF LookTerminal, Settled
<1>4. CASE LookForget(c)
  BY <1>4 DEF LookForget, Settled
<1>5. CASE LookDecide(c)
  BY <1>5 DEF LookDecide, Settled
<1>. QED
  BY <1>1, <1>2, <1>3, <1>4, <1>5 DEF Look

\* From the claim to the first page; a new epoch starts with MarkStarting.
LEMMA StartSettles ==
    ASSUME TypeOK, NEW r \in Run, Start(r)
    PROVE  Settled
<1>1. CASE Look(r)
  BY <1>1, LookSettles
<1>2. CASE LookStatus(r)
  BY <1>2 DEF LookStatus, Settled
<1>3. CASE Claim(r)
  BY <1>3 DEF Claim, Settled
<1>4. CASE MarkStarting(r)
  BY <1>4 DEF MarkStarting, Settled
<1>5. CASE NoQueueId(r)
  BY <1>5 DEF NoQueueId, Settled
<1>6. CASE OpenBatch(r)
  BY <1>6 DEF OpenBatch, Settled
<1>7. CASE NewContext(r)
  BY <1>7 DEF NewContext, Settled
<1>8. CASE RecordStart(r)
  BY <1>8 DEF RecordStart, Settled
<1>9. CASE LoadVersion(r)
  BY <1>9 DEF LoadVersion, Settled
<1>10. CASE Dispatch(r)
  BY <1>10 DEF Dispatch, Settled
<1>11. CASE CheckOwner(r)
  BY <1>11 DEF CheckOwner, Settled
<1>12. CASE ProbeEnds(r)
  BY <1>12 DEF ProbeEnds, Settled
<1>13. CASE ProbeFailed(r)
  BY <1>13 DEF ProbeFailed, Settled
<1>14. CASE AfterProbe(r)
  BY <1>14 DEF AfterProbe, Settled
<1>15. CASE HasPages(r)
  BY <1>15 DEF HasPages, Settled
<1>16. CASE HandleVersion(r)
  BY <1>16 DEF HandleVersion, Settled
<1>17. CASE HandleReady(r)
  BY <1>17 DEF HandleReady, Settled
<1>18. CASE BeginSource(r)
  BY <1>18 DEF BeginSource, Settled
<1>19. CASE GateRefuses(r)
  BY <1>19 DEF GateRefuses, Settled
<1>20. CASE UpdateFilm(r)
  BY <1>20 DEF UpdateFilm, Settled
<1>21. CASE Register(r)
  BY <1>21 DEF Register, Settled
<1>22. CASE RegisterFails(r)
  BY <1>22 DEF RegisterFails, Settled
<1>23. CASE StoreTask(r)
  BY <1>23 DEF StoreTask, Settled
<1>24. CASE ReadEpoch(r)
  BY <1>24 DEF ReadEpoch, Settled
<1>25. CASE Ensure(r)
  BY <1>25 DEF Ensure, Settled
<1>26. CASE PageTotal(r)
  BY <1>26 DEF PageTotal, Settled
<1>27. CASE StartRunning(r)
  BY <1>27 DEF StartRunning, Settled
<1>. QED
  BY <1>1, <1>2, <1>3, <1>4, <1>5, <1>6, <1>7, <1>8, <1>9, <1>10, <1>11,
     <1>12, <1>13, <1>14, <1>15, <1>16, <1>17, <1>18, <1>19, <1>20, <1>21,
     <1>22, <1>23, <1>24, <1>25, <1>26, <1>27 DEF Start

\* The end of the pages and the ways out.
LEMMA LeaveSettles ==
    ASSUME TypeOK, NEW r \in Run, Leave(r)
    PROVE  Settled
<1>1. CASE CollectEnds(r)
  BY <1>1 DEF CollectEnds, Settled
<1>2. CASE MarkSealing(r)
  BY <1>2 DEF MarkSealing, Settled
<1>3. CASE AddSealing(r)
  BY <1>3 DEF AddSealing, Settled
<1>4. CASE Unregister(r)
  BY <1>4 DEF Unregister, Settled
<1>5. CASE UnregFail(r)
  BY <1>5 DEF UnregFail, Settled
<1>6. CASE Finalize(r)
  BY <1>6 DEF Finalize, Settled
<1>7. CASE EndSource(r)
  BY <1>7 DEF EndSource, Settled
<1>8. CASE GiveUp(r)
  BY <1>8 DEF GiveUp, Settled
<1>9. CASE Abort(r)
  BY <1>9 DEF Abort, Settled
<1>10. CASE AbortFail(r)
  BY <1>10 DEF AbortFail, Settled
<1>11. CASE ReleaseOccupy(r)
  BY <1>11 DEF ReleaseOccupy, Settled
<1>12. CASE CloseContext(r)
  BY <1>12 DEF CloseContext, Settled
<1>13. CASE FinishRun(r)
  BY <1>13 DEF FinishRun, Settled
<1>. QED
  BY <1>1, <1>2, <1>3, <1>4, <1>5, <1>6, <1>7, <1>8, <1>9, <1>10, <1>11,
     <1>12, <1>13 DEF Leave

\* The steps of a stop after its first.
LEMMA StopSettles ==
    ASSUME TypeOK, NEW x \in Stopper, StopStep(x)
    PROVE  Settled
<1>1. CASE StopRange(x)
  BY <1>1 DEF StopRange, Settled
<1>2. CASE StopCancel(x)
  BY <1>2 DEF StopCancel, Settled
<1>3. CASE StopMarkAll(x)
  BY <1>3 DEF StopMarkAll, Settled
<1>4. CASE StopLive(x)
  BY <1>4 DEF StopLive, Settled
<1>5. CASE StopRelease(x)
  BY <1>5 DEF StopRelease, Settled
<1>. QED
  BY <1>1, <1>2, <1>3, <1>4, <1>5 DEF StopStep

\* Every step of the specification.
LEMMA StepSettles == TypeOK /\ [Next]_vars => Settled
<1>. SUFFICES ASSUME TypeOK, [Next]_vars
              PROVE  Settled
  OBVIOUS
<1>1. ASSUME NEW r \in Run,
             \/ LookTasks(r) \/ Start(r) \/ Leave(r)
             \/ PageStarts(r) \/ WorkerStops(r)
      PROVE  Settled
  <2>1. CASE LookTasks(r)
    BY <2>1 DEF LookTasks, Settled
  <2>2. CASE Start(r)
    BY <2>2, StartSettles
  <2>3. CASE Leave(r)
    BY <2>3, LeaveSettles
  <2>4. CASE PageStarts(r)
    BY <2>4 DEF PageStarts, Settled
  <2>5. CASE WorkerStops(r)
    BY <2>5 DEF WorkerStops, Settled
  <2>. QED
    BY <1>1, <2>1, <2>2, <2>3, <2>4, <2>5
<1>2. CASE Look(Keeper)
  BY <1>2, LookSettles
<1>3. ASSUME NEW x \in Stopper, StopVersion(x) \/ StopMark(x) \/ StopStep(x)
      PROVE  Settled
  <2>1. CASE StopVersion(x)
    BY <2>1 DEF StopVersion, Settled
  <2>2. CASE StopMark(x)
    BY <2>2 DEF StopMark, Settled
  <2>3. CASE StopStep(x)
    BY <2>3, StopSettles
  <2>. QED
    BY <1>3, <2>1, <2>2, <2>3
<1>4. CASE MarkSealed
  BY <1>4 DEF MarkSealed, Settled
<1>5. CASE PurgeLook
  BY <1>5 DEF PurgeLook, Settled
<1>6. CASE PurgeDelete
  BY <1>6 DEF PurgeDelete, Settled
<1>7. CASE UNCHANGED vars
  BY <1>7 DEF vars, Settled
<1>. QED
  BY <1>1, <1>2, <1>3, <1>4, <1>5, <1>6, <1>7 DEF Next

\* Within one epoch an ended source never runs again.
THEOREM NoRevivalHolds == Spec => NoRevival
<1>1. TypeOK /\ [Next]_vars =>
        [(status \in Terminal /\ epoch' = epoch =>
              status' \in Terminal \cup {"none"})]_vars
  BY StepSettles DEF Settled
<1>. QED
  BY TypeCorrect, <1>1, PTL DEF Spec, NoRevival

\* Within one epoch a source that is being stopped ends as stopped.
THEOREM StopKeptHolds == Spec => StopKept
<1>1. TypeOK /\ [Next]_vars =>
        [(status = "stopping" /\ epoch' = epoch =>
              \/ status' \in {"stopping", "stopped", "none"}
              \/ status' = "sealing" /\ outcome' = "stopped")]_vars
  BY StepSettles DEF Settled
<1>. QED
  BY TypeCorrect, <1>1, PTL DEF Spec, StopKept

-----------------------------------------------------------------------------
\* Who holds the claim, action by action, where no request retries a batch.
LEMMA ClaimHeldInit == Init => ClaimHeld
  BY DEF Init, ClaimHeld, Unclaimed, Waiting

\* A request, or the tick, looks; either may drop a stale claim.
LEMMA LookKeepsClaim ==
    ASSUME Retry = {}, TypeOK, ClaimHeld, NEW c \in Run \cup {Keeper}, Look(c)
    PROVE  ClaimHeld'
<1>1. CASE LookActive(c)
  BY <1>1 DEF LookActive, ClaimHeld, Unclaimed, Waiting
<1>2. CASE LookOccupied(c)
  BY <1>2 DEF LookOccupied, ClaimHeld, Unclaimed, Waiting
<1>3. CASE LookTerminal(c)
  BY <1>3 DEF LookTerminal, ClaimHeld, Unclaimed, Waiting
<1>4. CASE LookForget(c)
  BY <1>4 DEF LookForget, ClaimHeld, Unclaimed, Waiting
<1>5. CASE LookDecide(c)
  BY <1>5 DEF LookDecide, ClaimHeld, Unclaimed, Waiting
<1>. QED
  BY <1>1, <1>2, <1>3, <1>4, <1>5 DEF Look

\* From the claim to the first page.
LEMMA StartKeepsClaim ==
    ASSUME Retry = {}, TypeOK, ClaimHeld, NEW r \in Run, Start(r)
    PROVE  ClaimHeld'
<1>1. CASE Look(r)
  BY <1>1, LookKeepsClaim
<1>2. CASE LookStatus(r)
  BY <1>2 DEF LookStatus, ClaimHeld, Unclaimed, Waiting
<1>3. CASE Claim(r)
  BY <1>3 DEF Claim, ClaimHeld, Unclaimed, Waiting
<1>4. CASE MarkStarting(r)
  BY <1>4 DEF MarkStarting, ClaimHeld, Unclaimed, Waiting
<1>5. CASE NoQueueId(r)
  BY <1>5 DEF NoQueueId, ClaimHeld, Unclaimed, Waiting
<1>6. CASE OpenBatch(r)
  BY <1>6 DEF OpenBatch, ClaimHeld, Unclaimed, Waiting
<1>7. CASE NewContext(r)
  BY <1>7 DEF NewContext, ClaimHeld, Unclaimed, Waiting
<1>8. CASE RecordStart(r)
  BY <1>8 DEF RecordStart, ClaimHeld, Unclaimed, Waiting
<1>9. CASE LoadVersion(r)
  BY <1>9 DEF LoadVersion, ClaimHeld, Unclaimed, Waiting
<1>10. CASE Dispatch(r)
  BY <1>10 DEF Dispatch, ClaimHeld, Unclaimed, Waiting
<1>11. CASE CheckOwner(r)
  BY <1>11 DEF CheckOwner, ClaimHeld, Unclaimed, Waiting
<1>12. CASE ProbeEnds(r)
  BY <1>12 DEF ProbeEnds, ClaimHeld, Unclaimed, Waiting
<1>13. CASE ProbeFailed(r)
  BY <1>13 DEF ProbeFailed, ClaimHeld, Unclaimed, Waiting
<1>14. CASE AfterProbe(r)
  BY <1>14 DEF AfterProbe, ClaimHeld, Unclaimed, Waiting
<1>15. CASE HasPages(r)
  BY <1>15 DEF HasPages, ClaimHeld, Unclaimed, Waiting
<1>16. CASE HandleVersion(r)
  BY <1>16 DEF HandleVersion, ClaimHeld, Unclaimed, Waiting
<1>17. CASE HandleReady(r)
  BY <1>17 DEF HandleReady, ClaimHeld, Unclaimed, Waiting
<1>18. CASE BeginSource(r)
  BY <1>18 DEF BeginSource, ClaimHeld, Unclaimed, Waiting
<1>19. CASE GateRefuses(r)
  BY <1>19 DEF GateRefuses, ClaimHeld, Unclaimed, Waiting
<1>20. CASE UpdateFilm(r)
  BY <1>20 DEF UpdateFilm, ClaimHeld, Unclaimed, Waiting
<1>21. CASE Register(r)
  BY <1>21 DEF Register, ClaimHeld, Unclaimed, Waiting
<1>22. CASE RegisterFails(r)
  BY <1>22 DEF RegisterFails, ClaimHeld, Unclaimed, Waiting
<1>23. CASE StoreTask(r)
  BY <1>23 DEF StoreTask, ClaimHeld, Unclaimed, Waiting
<1>24. CASE ReadEpoch(r)
  BY <1>24 DEF ReadEpoch, ClaimHeld, Unclaimed, Waiting
<1>25. CASE Ensure(r)
  BY <1>25 DEF Ensure, ClaimHeld, Unclaimed, Waiting
<1>26. CASE PageTotal(r)
  BY <1>26 DEF PageTotal, ClaimHeld, Unclaimed, Waiting
<1>27. CASE StartRunning(r)
  BY <1>27 DEF StartRunning, ClaimHeld, Unclaimed, Waiting
<1>. QED
  BY <1>1, <1>2, <1>3, <1>4, <1>5, <1>6, <1>7, <1>8, <1>9, <1>10, <1>11,
     <1>12, <1>13, <1>14, <1>15, <1>16, <1>17, <1>18, <1>19, <1>20, <1>21,
     <1>22, <1>23, <1>24, <1>25, <1>26, <1>27 DEF Start

\* The end of the pages and the ways out.
LEMMA LeaveKeepsClaim ==
    ASSUME Retry = {}, TypeOK, ClaimHeld, NEW r \in Run, Leave(r)
    PROVE  ClaimHeld'
<1>1. CASE CollectEnds(r)
  BY <1>1 DEF CollectEnds, ClaimHeld, Unclaimed, Waiting
<1>2. CASE MarkSealing(r)
  BY <1>2 DEF MarkSealing, ClaimHeld, Unclaimed, Waiting
<1>3. CASE AddSealing(r)
  BY <1>3 DEF AddSealing, ClaimHeld, Unclaimed, Waiting
<1>4. CASE Unregister(r)
  BY <1>4 DEF Unregister, ClaimHeld, Unclaimed, Waiting
<1>5. CASE UnregFail(r)
  BY <1>5 DEF UnregFail, ClaimHeld, Unclaimed, Waiting
<1>6. CASE Finalize(r)
  BY <1>6 DEF Finalize, ClaimHeld, Unclaimed, Waiting
<1>7. CASE EndSource(r)
  BY <1>7 DEF EndSource, ClaimHeld, Unclaimed, Waiting
<1>8. CASE GiveUp(r)
  BY <1>8 DEF GiveUp, ClaimHeld, Unclaimed, Waiting
<1>9. CASE Abort(r)
  BY <1>9 DEF Abort, ClaimHeld, Unclaimed, Waiting
<1>10. CASE AbortFail(r)
  BY <1>10 DEF AbortFail, ClaimHeld, Unclaimed, Waiting
<1>11. CASE ReleaseOccupy(r)
  BY <1>11 DEF ReleaseOccupy, ClaimHeld, Unclaimed, Waiting
<1>12. CASE CloseContext(r)
  BY <1>12 DEF CloseContext, ClaimHeld, Unclaimed, Waiting
<1>13. CASE FinishRun(r)
  BY <1>13 DEF FinishRun, ClaimHeld, Unclaimed, Waiting
<1>. QED
  BY <1>1, <1>2, <1>3, <1>4, <1>5, <1>6, <1>7, <1>8, <1>9, <1>10, <1>11,
     <1>12, <1>13 DEF Leave

\* The steps of a stop after its first.
LEMMA StopKeepsClaim ==
    ASSUME Retry = {}, TypeOK, ClaimHeld, NEW x \in Stopper, StopStep(x)
    PROVE  ClaimHeld'
<1>1. CASE StopRange(x)
  BY <1>1 DEF StopRange, ClaimHeld, Unclaimed, Waiting
<1>2. CASE StopCancel(x)
  BY <1>2 DEF StopCancel, ClaimHeld, Unclaimed, Waiting
<1>3. CASE StopMarkAll(x)
  BY <1>3 DEF StopMarkAll, ClaimHeld, Unclaimed, Waiting
<1>4. CASE StopLive(x)
  BY <1>4 DEF StopLive, ClaimHeld, Unclaimed, Waiting
<1>5. CASE StopRelease(x)
  BY <1>5 DEF StopRelease, ClaimHeld, Unclaimed, Waiting
<1>. QED
  BY <1>1, <1>2, <1>3, <1>4, <1>5 DEF StopStep

\* Every step keeps it.
LEMMA ClaimHeldStep ==
    ASSUME Retry = {}
    PROVE  TypeOK /\ ClaimHeld /\ [Next]_vars => ClaimHeld'
<1>. SUFFICES ASSUME TypeOK, ClaimHeld, [Next]_vars
              PROVE  ClaimHeld'
  OBVIOUS
<1>1. ASSUME NEW r \in Run,
             \/ LookTasks(r) \/ Start(r) \/ Leave(r)
             \/ PageStarts(r) \/ WorkerStops(r)
      PROVE  ClaimHeld'
  <2>1. CASE LookTasks(r)
    BY <2>1 DEF LookTasks, ClaimHeld, Unclaimed, Waiting
  <2>2. CASE Start(r)
    BY <2>2, StartKeepsClaim
  <2>3. CASE Leave(r)
    BY <2>3, LeaveKeepsClaim
  <2>4. CASE PageStarts(r)
    BY <2>4 DEF PageStarts, ClaimHeld, Unclaimed, Waiting
  <2>5. CASE WorkerStops(r)
    BY <2>5 DEF WorkerStops, ClaimHeld, Unclaimed, Waiting
  <2>. QED
    BY <1>1, <2>1, <2>2, <2>3, <2>4, <2>5
<1>2. CASE Look(Keeper)
  BY <1>2, LookKeepsClaim
<1>3. ASSUME NEW x \in Stopper, StopVersion(x) \/ StopMark(x) \/ StopStep(x)
      PROVE  ClaimHeld'
  <2>1. CASE StopVersion(x)
    BY <2>1 DEF StopVersion, ClaimHeld, Unclaimed, Waiting
  <2>2. CASE StopMark(x)
    BY <2>2 DEF StopMark, ClaimHeld, Unclaimed, Waiting
  <2>3. CASE StopStep(x)
    BY <2>3, StopKeepsClaim
  <2>. QED
    BY <1>3, <2>1, <2>2, <2>3
<1>4. CASE MarkSealed
  BY <1>4 DEF MarkSealed, ClaimHeld, Unclaimed, Waiting
<1>5. CASE PurgeLook
  BY <1>5 DEF PurgeLook, ClaimHeld, Unclaimed, Waiting
<1>6. CASE PurgeDelete
  BY <1>6 DEF PurgeDelete, ClaimHeld, Unclaimed, Waiting
<1>7. CASE UNCHANGED vars
  BY <1>7 DEF vars, ClaimHeld, Unclaimed, Waiting
<1>. QED
  BY <1>1, <1>2, <1>3, <1>4, <1>5, <1>6, <1>7 DEF Next

\* Where no request retries a batch, one that has ended holds no claim, so that
\* a later one can claim the source.
THEOREM NoOrphanClaimHolds == Retry = {} => (Spec => []NoOrphanClaim)
<1>. SUFFICES ASSUME Retry = {}
              PROVE  Spec => []NoOrphanClaim
  OBVIOUS
<1>1. TypeOK /\ ClaimHeld /\ [Next]_vars => ClaimHeld'
  BY ClaimHeldStep
<1>2. ClaimHeld => NoOrphanClaim
  BY DEF ClaimHeld, NoOrphanClaim
<1>. QED
  BY TypeCorrect, ClaimHeldInit, <1>1, <1>2, PTL DEF Spec

-----------------------------------------------------------------------------
(* The conjunctions the runs check, from their parts.                       *)

(* The tables keep their types and one run at a time collects a source.     *)
THEOREM RunSafeHolds == Spec => []RunSafe
BY TypeCorrect, OneCollectsHolds, PTL DEF RunSafe

(* What a run has settled or a stop has marked stays so for that run.       *)
THEOREM StatusKeptHolds == Spec => StatusKept
BY NoRevivalHolds, StopKeptHolds DEF StatusKept

=============================================================================
