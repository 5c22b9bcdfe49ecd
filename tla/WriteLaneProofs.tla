-------------------------- MODULE WriteLaneProofs --------------------------
(***************************************************************************)
(* Proofs about the write lane, for every set of sources, pages, workers   *)
(* and drainers and for every limit.                                       *)
(***************************************************************************)
EXTENDS WriteLane, FiniteSetTheorems, TLAPS

USE DEF Thread, PageState, Settled, WorkerState, DrainState

-----------------------------------------------------------------------------
\* The queued pages are finitely many.
LEMMA BacklogFinite ==
    ASSUME NEW S \in SUBSET Source
    PROVE  /\ IsFiniteSet(Backlog(S))
           /\ Cardinality(Backlog(S)) \in Nat
<1>1. IsFiniteSet(1 .. MaxPerSource)
  BY FS_Interval, LaneAssumption
<1>2. IsFiniteSet(Source \X (1 .. MaxPerSource))
  BY <1>1, FS_Product, LaneAssumption
<1>3. Backlog(S) \in SUBSET (Source \X (1 .. MaxPerSource))
  BY DEF Backlog
<1>. QED
  BY <1>2, <1>3, FS_Subset, FS_CardinalityType

LEMMA QueuesFinite ==
    ASSUME TypeOK
    PROVE  /\ IsFiniteSet(queues)
           /\ Cardinality(queues) \in Nat
           /\ queues # {} => Cardinality(queues) > 0
<1>1. IsFiniteSet(queues)
  BY FS_Subset, LaneAssumption DEF TypeOK
<1>. QED
  BY <1>1, FS_CardinalityType, FS_EmptySet

\* removeQueueLocked keeps the types of lane.order and of the cursor.
LEMMA RemoveQueuesType ==
    ASSUME TypeOK, NEW S \in SUBSET Source, RemoveQueues(S)
    PROVE  /\ queues' \subseteq Source
           /\ place' \in [Source -> Int]
           /\ rrCursor' \in Nat
<1>1. ASSUME NEW s \in Source
      PROVE  Cardinality({g \in S : place[g] < place[s]}) \in Int
  <2>1. IsFiniteSet(S)
    BY FS_Subset, LaneAssumption
  <2>2. IsFiniteSet({g \in S : place[g] < place[s]})
    BY <2>1, FS_Subset
  <2>. QED
    BY <2>2, FS_CardinalityType
<1>2. queues' \subseteq Source /\ rrCursor' \in Nat
  BY DEF RemoveQueues, TypeOK
<1>3. ASSUME NEW s \in Source
      PROVE  (IF s \in queues \ S
              THEN place[s] - Cardinality({g \in S : place[g] < place[s]})
              ELSE 0) \in Int
  BY <1>1 DEF TypeOK
<1>4. place' = [s \in Source |->
                  IF s \in queues \ S
                  THEN place[s] - Cardinality({g \in S : place[g] < place[s]})
                  ELSE 0]
  BY DEF RemoveQueues
<1>5. place' \in [Source -> Int]
  BY <1>3, <1>4, Zenon
<1>. QED
  BY <1>2, <1>5

-----------------------------------------------------------------------------
\* Every variable of the lane keeps its type (TypeOK of WriteLane).
LEMMA TypeStep == TypeOK /\ [Next]_vars => TypeOK'
<1>. SUFFICES ASSUME TypeOK, [Next]_vars PROVE TypeOK'
  OBVIOUS
<1>. USE DEF TypeOK
<1>1. ASSUME NEW p \in Page, SubmitBegin(p) PROVE TypeOK'
  BY <1>1 DEF SubmitBegin, laneVars, runVars
<1>2. ASSUME NEW p \in Page, SubmitWait(p) PROVE TypeOK'
  BY <1>2, QueuesFinite, LaneAssumption
  DEF SubmitWait, InSubmit, QueueFor, runVars
<1>3. ASSUME NEW p \in Page, SubmitCanceled(p) PROVE TypeOK'
  BY <1>3, QueuesFinite, LaneAssumption
  DEF SubmitCanceled, InSubmit, QueueFor, runVars
<1>4. ASSUME NEW p \in Page, SubmitAppend(p) PROVE TypeOK'
  <2>1. SourceOf[p] \in Source
    BY LaneAssumption
  <2>2. pending' \in [Source -> Seq(Page)]
    BY <1>4, <2>1 DEF SubmitAppend
  <2>3. asleep' \subseteq Thread
    BY <1>4 DEF SubmitAppend, Signal
  <2>. QED
    BY <1>4, <2>1, <2>2, <2>3, QueuesFinite
    DEF SubmitAppend, InSubmit, QueueFor, runVars
<1>5. ASSUME NEW p \in Page, CompleteDiscarded(p) PROVE TypeOK'
  BY <1>5 DEF CompleteDiscarded, laneVars, runVars
<1>6. ASSUME NEW w \in Worker, WorkerProbe(w) PROVE TypeOK'
  BY <1>6 DEF WorkerProbe, laneVars, runVars
<1>7. ASSUME NEW w \in Worker, WorkerTake(w) PROVE TypeOK'
  <2>1. PICK s \in queues :
          /\ IsReady(s)
          /\ rrCursor' = place[s] % Cardinality(queues)
          /\ pending' = [pending EXCEPT ![s] = Tail(@)]
          /\ totalPending' = IF totalPending > 0 THEN totalPending - 1
                                                 ELSE totalPending
          /\ writing' = [writing EXCEPT ![s] = TRUE]
          /\ job' = [job EXCEPT ![w] = Head(pending[s])]
          /\ page' = [page EXCEPT ![Head(pending[s])] = "taken"]
    BY <1>7 DEF WorkerTake
  <2>2. s \in Source /\ pending[s] \in Seq(Page) /\ pending[s] # <<>>
    BY <2>1 DEF IsReady
  <2>3. Head(pending[s]) \in Page /\ Tail(pending[s]) \in Seq(Page)
    BY <2>2
  <2>4. rrCursor' \in Nat
    BY <2>1, <2>2, QueuesFinite
  <2>5. pending' \in [Source -> Seq(Page)] /\ totalPending' \in Nat
    BY <2>1, <2>2, <2>3
  <2>6. /\ writing' \in [Source -> BOOLEAN]
        /\ job' \in [Worker -> Page \cup {NoPage}]
        /\ page' \in [Page -> PageState]
    BY <2>1, <2>2, <2>3
  <2>. QED
    BY <1>7, <2>4, <2>5, <2>6 DEF WorkerTake, Broadcast, runVars
<1>8. ASSUME NEW w \in Worker, WorkerMiss(w) PROVE TypeOK'
  BY <1>8 DEF WorkerMiss, RRStart, runVars
<1>9. ASSUME NEW w \in Worker, WorkerWrite(w) PROVE TypeOK'
  BY <1>9 DEF WorkerWrite, laneVars, runVars
<1>10. ASSUME NEW w \in Worker, WorkerFinish(w) PROVE TypeOK'
  <2>1. /\ queues' \subseteq Source
        /\ place' \in [Source -> Int]
        /\ rrCursor' \in Nat
        /\ done' \in [Source -> BOOLEAN]
        /\ writing' \in [Source -> BOOLEAN]
    <3>. DEFINE s == SourceOf[job[w]]
    <3>1. CASE s \in queues /\ done[s] /\ pending[s] = <<>>
      <4>1. {s} \in SUBSET Source /\ RemoveQueues({s})
        BY <1>10, <3>1 DEF WorkerFinish
      <4>. QED
        BY <1>10, <3>1, <4>1, RemoveQueuesType DEF WorkerFinish
    <3>2. CASE ~(s \in queues /\ done[s] /\ pending[s] = <<>>)
      BY <1>10, <3>2 DEF WorkerFinish
    <3>. QED
      BY <3>1, <3>2
  <2>. QED
    BY <1>10, <2>1 DEF WorkerFinish, Broadcast, runVars
<1>11. ASSUME NEW s \in Source, FinishSource(s) PROVE TypeOK'
  <2>1. /\ queues' \subseteq Source
        /\ place' \in [Source -> Int]
        /\ rrCursor' \in Nat
        /\ done' \in [Source -> BOOLEAN]
    BY <1>11, RemoveQueuesType DEF FinishSource
  <2>2. asleep' \subseteq Thread
    BY <1>11 DEF FinishSource, Signal, Broadcast
  <2>. QED
    BY <1>11, <2>1, <2>2 DEF FinishSource
<1>12. ASSUME NEW s \in Source, CancelContext(s) PROVE TypeOK'
  BY <1>12 DEF CancelContext, PagesOf, laneVars
<1>13. ASSUME NEW S \in SUBSET Source, Discard(S), UNCHANGED fetching,
              UNCHANGED canceled, stopping' \subseteq Source
       PROVE  TypeOK'
  <2>1. {s \in S : ~writing[s]} \in SUBSET Source
    OBVIOUS
  <2>2. /\ queues' \subseteq Source
        /\ place' \in [Source -> Int]
        /\ rrCursor' \in Nat
    BY <1>13, <2>1, RemoveQueuesType DEF Discard
  <2>3. totalPending' \in Nat
    BY <1>13, BacklogFinite DEF Discard
  <2>4. pending' \in [Source -> Seq(Page)] /\ done' \in [Source -> BOOLEAN]
    BY <1>13 DEF Discard
  <2>5. page' \in [Page -> PageState]
    BY <1>13 DEF Discard
  <2>. QED
    BY <1>13, <2>2, <2>3, <2>4, <2>5 DEF Discard, Broadcast
<1>14. ASSUME NEW s \in Source, CancelSource(s) PROVE TypeOK'
  <2>1. CASE s \in queues
    BY <1>13, <1>14, <2>1 DEF CancelSource
  <2>2. CASE s \notin queues
    BY <1>14, <2>2 DEF CancelSource, laneVars
  <2>. QED
    BY <2>1, <2>2
<1>15. CASE CancelAll
  BY <1>13, <1>15 DEF CancelAll, runVars
<1>16. ASSUME NEW s \in Source, NextRun(s) PROVE TypeOK'
  BY <1>16 DEF NextRun, laneVars
<1>17. ASSUME NEW d \in Drainer,
              DrainBegin(d) \/ DrainDeadline(d) \/ DrainStep(d)
       PROVE  TypeOK'
  BY <1>17 DEF DrainBegin, DrainDeadline, DrainStep, laneVars, runVars
<1>18. ASSUME NEW t \in Page \cup Drainer, CancelWake(t) PROVE TypeOK'
  BY <1>18 DEF CancelWake, Broadcast, laneVars, runVars
<1>19. CASE UNCHANGED vars
  BY <1>19 DEF vars, laneVars, runVars
<1>. QED
  BY <1>1, <1>2, <1>3, <1>4, <1>5, <1>6, <1>7, <1>8, <1>9, <1>10, <1>11,
     <1>12, <1>14, <1>15, <1>16, <1>17, <1>18, <1>19
  DEF Next, SubmitStep, WorkerStep

\* In every reachable state each variable has its type.
THEOREM TypeCorrect == Spec => []TypeOK
<1>1. Init => TypeOK
  BY DEF Init, TypeOK
<1>. QED
  BY <1>1, TypeStep, PTL DEF Spec

-----------------------------------------------------------------------------
(***************************************************************************)
(* The inductive invariant.  OneWritePerSource rests on the link between   *)
(* the flag `writing' of a queue and the one worker that set it; WaterLevel *)
(* on the pages of a queue being distinct; NoLostWakeup on why each thread *)
(* sleeps.                                                                 *)
(***************************************************************************)
Busy(w) == worker[w] \in {"write", "finish"}

\* A source without a queue has nothing queued and nothing in flight.
QueueShape ==
    \A s \in Source : s \notin queues => pending[s] = <<>> /\ ~writing[s]

\* A queue holds distinct queued pages of its source.
PendingShape ==
    \A s \in Source : \A i \in 1 .. Len(pending[s]) :
        /\ page[pending[s][i]] = "queued"
        /\ SourceOf[pending[s][i]] = s
        /\ \A j \in 1 .. Len(pending[s]) :
             i # j => pending[s][i] # pending[s][j]

\* `writing' is set exactly while one worker holds a page of the source.
WriterShape ==
    /\ \A w \in Worker : Busy(w) =>
         /\ job[w] \in Page
         /\ writing[SourceOf[job[w]]]
         /\ worker[w] = "write" => page[job[w]] = "taken"
    /\ \A v, w \in Worker : v # w /\ Busy(v) /\ Busy(w)
         => SourceOf[job[v]] # SourceOf[job[w]]
    /\ \A s \in Source : writing[s] =>
         \E w \in Worker : Busy(w) /\ SourceOf[job[w]] = s
    /\ \A p \in Page : page[p] = "taken" =>
         \E w \in Worker : worker[w] = "write" /\ job[w] = p

Shape == QueueShape /\ PendingShape /\ WriterShape

LEMMA ShapeStep == TypeOK /\ Shape /\ [Next]_vars => Shape'
<1>. SUFFICES ASSUME TypeOK, Shape, [Next]_vars PROVE Shape'
  OBVIOUS
<1>. USE DEF TypeOK, Shape
<1>0. \A p \in Page : SourceOf[p] \in Source
  BY LaneAssumption
\* A step that changes neither queues, nor workers, and moves one page that is
\* neither queued nor taken before or after.
<1>1. ASSUME NEW p \in Page, page[p] \notin {"queued", "taken"},
             page' = [page EXCEPT ![p] = page'[p]],
             page'[p] \notin {"queued", "taken"},
             queues \subseteq queues', queues' \subseteq Source,
             UNCHANGED <<pending, writing, worker, job>>
      PROVE  Shape'
  <2>1. QueueShape'
    BY <1>1 DEF QueueShape
  <2>2. PendingShape'
    BY <1>1 DEF PendingShape
  <2>3. WriterShape'
    BY <1>1 DEF WriterShape, Busy
  <2>. QED
    BY <2>1, <2>2, <2>3
\* A step that moves no page and leaves the queues and the writers alone.
<1>2. ASSUME UNCHANGED <<pending, writing, job, page>>,
             queues' \subseteq Source,
             \A s \in Source : s \in queues /\ s \notin queues' =>
                pending[s] = <<>> /\ ~writing[s],
             \A w \in Worker : /\ Busy(w)' <=> Busy(w)
                               /\ worker'[w] = "write" <=> worker[w] = "write"
      PROVE  Shape'
  <2>1. QueueShape'
    BY <1>2 DEF QueueShape
  <2>2. PendingShape'
    BY <1>2 DEF PendingShape
  <2>3. WriterShape'
    BY <1>2 DEF WriterShape, Busy
  <2>. QED
    BY <2>1, <2>2, <2>3
<1>3. ASSUME NEW p \in Page, SubmitBegin(p) PROVE Shape'
  BY <1>1, <1>3 DEF SubmitBegin, laneVars
<1>4. ASSUME NEW p \in Page, SubmitWait(p) PROVE Shape'
  BY <1>0, <1>2, <1>4 DEF SubmitWait, QueueFor, Busy
<1>5. ASSUME NEW p \in Page, SubmitCanceled(p) PROVE Shape'
  BY <1>0, <1>1, <1>5 DEF SubmitCanceled, InSubmit, QueueFor
<1>6. ASSUME NEW p \in Page, SubmitAppend(p) PROVE Shape'
  <2>. DEFINE s == SourceOf[p]
  <2>1. /\ s \in Source
        /\ page[p] = "entering"
        /\ queues' = queues \cup {s}
        /\ pending' = [pending EXCEPT ![s] = Append(pending[s], p)]
        /\ page' = [page EXCEPT ![p] = "queued"]
        /\ UNCHANGED <<writing, worker, job>>
    BY <1>0, <1>6 DEF SubmitAppend, InSubmit, QueueFor
  <2>2. QueueShape'
    BY <2>1 DEF QueueShape
  <2>3. PendingShape'
    <3>1. ASSUME NEW r \in Source, r # s PROVE pending'[r] = pending[r]
      BY <2>1, <3>1
    <3>2. /\ Len(pending'[s]) = Len(pending[s]) + 1
          /\ pending'[s][Len(pending[s]) + 1] = p
          /\ \A i \in 1 .. Len(pending[s]) : pending'[s][i] = pending[s][i]
      BY <2>1
    <3>3. \A r \in Source : \A i \in 1 .. Len(pending[r]) :
             pending[r][i] \in Page /\ pending[r][i] # p
      BY <2>1 DEF PendingShape
    <3>4. ASSUME NEW r \in Source, r # s, NEW i \in 1 .. Len(pending'[r])
          PROVE  /\ page'[pending'[r][i]] = "queued"
                 /\ SourceOf[pending'[r][i]] = r
                 /\ \A j \in 1 .. Len(pending'[r]) :
                      i # j => pending'[r][i] # pending'[r][j]
      BY <2>1, <3>1, <3>3, <3>4 DEF PendingShape
    <3>5. ASSUME NEW i \in 1 .. Len(pending'[s])
          PROVE  /\ page'[pending'[s][i]] = "queued"
                 /\ SourceOf[pending'[s][i]] = s
                 /\ \A j \in 1 .. Len(pending'[s]) :
                      i # j => pending'[s][i] # pending'[s][j]
      BY <2>1, <3>2, <3>3, <3>5 DEF PendingShape
    <3>6. ASSUME NEW r \in Source, NEW i \in 1 .. Len(pending'[r])
          PROVE  /\ page'[pending'[r][i]] = "queued"
                 /\ SourceOf[pending'[r][i]] = r
                 /\ \A j \in 1 .. Len(pending'[r]) :
                      i # j => pending'[r][i] # pending'[r][j]
      <4>1. CASE r = s
        BY <3>5, <3>6, <4>1
      <4>2. CASE r # s
        BY <3>4, <3>6, <4>2
      <4>. QED
        BY <4>1, <4>2
    <3>. QED
      BY <3>6 DEF PendingShape
  <2>4. WriterShape'
    BY <2>1 DEF WriterShape, Busy
  <2>. QED
    BY <2>2, <2>3, <2>4
<1>7. ASSUME NEW p \in Page, CompleteDiscarded(p) PROVE Shape'
  BY <1>1, <1>7 DEF CompleteDiscarded, laneVars
<1>8. ASSUME NEW w \in Worker, WorkerProbe(w) \/ WorkerMiss(w) PROVE Shape'
  <2>1. \A v \in Worker : /\ Busy(v)' <=> Busy(v)
                          /\ worker'[v] = "write" <=> worker[v] = "write"
    BY <1>8 DEF WorkerProbe, WorkerMiss, Busy
  <2>. QED
    BY <1>2, <1>8, <2>1 DEF WorkerProbe, WorkerMiss, laneVars
<1>9. ASSUME NEW w \in Worker, WorkerTake(w) PROVE Shape'
  <2>1. PICK s \in queues :
          /\ IsReady(s)
          /\ pending' = [pending EXCEPT ![s] = Tail(@)]
          /\ writing' = [writing EXCEPT ![s] = TRUE]
          /\ job' = [job EXCEPT ![w] = Head(pending[s])]
          /\ page' = [page EXCEPT ![Head(pending[s])] = "taken"]
    BY <1>9 DEF WorkerTake
  <2>2. /\ worker[w] = "take"
        /\ worker' = [worker EXCEPT ![w] = "write"]
        /\ UNCHANGED queues
    BY <1>9 DEF WorkerTake
  <2>. DEFINE p == Head(pending[s])
  <2>3. /\ s \in Source
        /\ ~writing[s]
        /\ pending[s] \in Seq(Page)
        /\ Len(pending[s]) > 0
        /\ p = pending[s][1]
        /\ p \in Page
        /\ page[p] = "queued"
        /\ SourceOf[p] = s
    BY <2>1 DEF IsReady, PendingShape
  <2>4. QueueShape'
    BY <2>1, <2>2, <2>3 DEF QueueShape
  <2>5. PendingShape'
    <3>1. ASSUME NEW r \in Source, r # s, NEW i \in 1 .. Len(pending'[r])
          PROVE  /\ page'[pending'[r][i]] = "queued"
                 /\ SourceOf[pending'[r][i]] = r
                 /\ \A j \in 1 .. Len(pending'[r]) :
                      i # j => pending'[r][i] # pending'[r][j]
      <4>1. pending'[r] = pending[r]
        BY <2>1, <2>3, <3>1
      <4>2. \A j \in 1 .. Len(pending[r]) :
               pending[r][j] \in Page /\ pending[r][j] # p
        BY <2>3, <3>1 DEF PendingShape
      <4>3. /\ pending[r][i] \in Page
            /\ pending[r][i] # p
            /\ page[pending[r][i]] = "queued"
            /\ SourceOf[pending[r][i]] = r
            /\ \A j \in 1 .. Len(pending[r]) :
                 i # j => pending[r][i] # pending[r][j]
        BY <3>1, <4>1, <4>2 DEF PendingShape
      <4>4. page'[pending[r][i]] = page[pending[r][i]]
        BY <2>1, <4>3
      <4>. QED
        BY <4>1, <4>3, <4>4
    <3>2. ASSUME NEW i \in 1 .. Len(pending'[s])
          PROVE  /\ page'[pending'[s][i]] = "queued"
                 /\ SourceOf[pending'[s][i]] = s
                 /\ \A j \in 1 .. Len(pending'[s]) :
                      i # j => pending'[s][i] # pending'[s][j]
      <4>1. /\ Len(pending'[s]) = Len(pending[s]) - 1
            /\ \A j \in 1 .. Len(pending'[s]) :
                 pending'[s][j] = pending[s][j + 1]
        BY <2>1, <2>3
      <4>2. \A j \in 2 .. Len(pending[s]) :
               pending[s][j] \in Page /\ pending[s][j] # p
        BY <2>3 DEF PendingShape
      <4>. QED
        BY <2>1, <2>3, <3>2, <4>1, <4>2 DEF PendingShape
    <3>3. ASSUME NEW r \in Source, NEW i \in 1 .. Len(pending'[r])
          PROVE  /\ page'[pending'[r][i]] = "queued"
                 /\ SourceOf[pending'[r][i]] = r
                 /\ \A j \in 1 .. Len(pending'[r]) :
                      i # j => pending'[r][i] # pending'[r][j]
      <4>1. CASE r = s
        BY <3>2, <3>3, <4>1
      <4>2. CASE r # s
        BY <3>1, <3>3, <4>2
      <4>. QED
        BY <4>1, <4>2
    <3>. QED
      BY <3>3 DEF PendingShape
  <2>6. WriterShape'
    <3>1. \A v \in Worker : v # w =>
             /\ Busy(v)' <=> Busy(v)
             /\ worker'[v] = worker[v]
             /\ job'[v] = job[v]
             /\ Busy(v) => job[v] # p /\ SourceOf[job[v]] # s
      BY <2>1, <2>2, <2>3 DEF WriterShape, Busy
    <3>2. Busy(w)' /\ worker'[w] = "write" /\ job'[w] = p
      BY <2>1, <2>2 DEF Busy
    <3>3. ~Busy(w)
      BY <2>2 DEF Busy
    <3>4. \A v \in Worker : Busy(v)' =>
             /\ job'[v] \in Page
             /\ writing'[SourceOf[job'[v]]]
             /\ worker'[v] = "write" => page'[job'[v]] = "taken"
      BY <2>1, <2>3, <3>1, <3>2, <1>0 DEF WriterShape
    <3>5. \A u, v \in Worker : u # v /\ Busy(u)' /\ Busy(v)'
             => SourceOf[job'[u]] # SourceOf[job'[v]]
      BY <2>3, <3>1, <3>2 DEF WriterShape
    <3>6. \A r \in Source : writing'[r] =>
             \E v \in Worker : Busy(v)' /\ SourceOf[job'[v]] = r
      <4>1. SUFFICES ASSUME NEW r \in Source, writing'[r]
                     PROVE  \E v \in Worker : Busy(v)' /\ SourceOf[job'[v]] = r
        OBVIOUS
      <4>2. CASE r = s
        BY <2>3, <3>2, <4>2
      <4>3. CASE r # s
        <5>1. writing[r]
          BY <2>1, <2>3, <4>1, <4>3
        <5>2. PICK v \in Worker : Busy(v) /\ SourceOf[job[v]] = r
          BY <5>1 DEF WriterShape
        <5>3. v # w
          BY <3>3, <5>2
        <5>. QED
          BY <3>1, <5>2, <5>3
      <4>. QED
        BY <4>2, <4>3
    <3>7. \A q \in Page : page'[q] = "taken" =>
             \E v \in Worker : worker'[v] = "write" /\ job'[v] = q
      <4>1. SUFFICES ASSUME NEW q \in Page, page'[q] = "taken"
                     PROVE  \E v \in Worker :
                               worker'[v] = "write" /\ job'[v] = q
        OBVIOUS
      <4>2. CASE q = p
        BY <3>2, <4>2
      <4>3. CASE q # p
        <5>1. page[q] = "taken"
          BY <2>1, <2>3, <4>1, <4>3
        <5>2. PICK v \in Worker : worker[v] = "write" /\ job[v] = q
          BY <5>1 DEF WriterShape
        <5>3. v # w
          BY <2>2, <5>2
        <5>. QED
          BY <3>1, <5>2, <5>3
      <4>. QED
        BY <4>2, <4>3
    <3>. QED
      BY <3>4, <3>5, <3>6, <3>7 DEF WriterShape, Busy
  <2>. QED
    BY <2>4, <2>5, <2>6
<1>10. ASSUME NEW w \in Worker, WorkerWrite(w) PROVE Shape'
  <2>1. /\ worker[w] = "write"
        /\ worker' = [worker EXCEPT ![w] = "finish"]
        /\ page' = [page EXCEPT ![job[w]] = "written"]
        /\ UNCHANGED <<queues, pending, writing, job>>
    BY <1>10 DEF WorkerWrite, laneVars
  <2>2. job[w] \in Page /\ page[job[w]] = "taken"
    BY <2>1 DEF WriterShape, Busy
  <2>3. QueueShape'
    BY <2>1 DEF QueueShape
  <2>4. PendingShape'
    <3>1. \A s \in Source : \A i \in 1 .. Len(pending[s]) :
             pending[s][i] \in Page /\ pending[s][i] # job[w]
      BY <2>2 DEF PendingShape
    <3>. QED
      BY <2>1, <3>1 DEF PendingShape
  <2>5. WriterShape'
    <3>1. \A v \in Worker : Busy(v)' <=> Busy(v)
      BY <2>1 DEF Busy
    <3>2. Busy(w)
      BY <2>1 DEF Busy
    <3>3. \A v \in Worker : v # w /\ Busy(v) => job[v] # job[w]
      <4>1. SUFFICES ASSUME NEW v \in Worker, v # w, Busy(v)
                     PROVE  job[v] # job[w]
        OBVIOUS
      <4>2. SourceOf[job[v]] # SourceOf[job[w]]
        BY <3>2, <4>1 DEF WriterShape
      <4>. QED
        BY <4>2
    <3>. QED
      BY <2>1, <2>2, <3>1, <3>3 DEF WriterShape, Busy
  <2>. QED
    BY <2>3, <2>4, <2>5
<1>11. ASSUME NEW w \in Worker, WorkerFinish(w) PROVE Shape'
  <2>. DEFINE s == SourceOf[job[w]]
  <2>1. worker[w] = "finish" /\ Busy(w) /\ job[w] \in Page /\ s \in Source
    BY <1>0, <1>11 DEF WorkerFinish, WriterShape, Busy
  <2>2. writing[s] /\ s \in queues
    BY <2>1 DEF WriterShape, QueueShape
  <2>3. /\ writing' = [writing EXCEPT ![s] = FALSE]
        /\ worker' = [worker EXCEPT ![w] = "probe"]
        /\ job' = [job EXCEPT ![w] = NoPage]
        /\ UNCHANGED <<pending, page>>
        /\ \/ UNCHANGED queues
           \/ queues' = queues \ {s} /\ pending[s] = <<>>
    BY <1>11, <2>2 DEF WorkerFinish, RemoveQueues
  <2>4. QueueShape'
    BY <2>1, <2>3 DEF QueueShape
  <2>5. PendingShape'
    BY <2>3 DEF PendingShape
  <2>6. WriterShape'
    <3>1. ~Busy(w)'
      BY <2>3 DEF Busy
    <3>2. \A v \in Worker : v # w =>
             /\ Busy(v)' <=> Busy(v)
             /\ worker'[v] = worker[v]
             /\ job'[v] = job[v]
             /\ Busy(v) => SourceOf[job[v]] # s
      BY <2>1, <2>3 DEF WriterShape, Busy
    <3>3. \A v \in Worker : Busy(v)' =>
             /\ job'[v] \in Page
             /\ writing'[SourceOf[job'[v]]]
             /\ worker'[v] = "write" => page'[job'[v]] = "taken"
      BY <1>0, <2>3, <3>1, <3>2 DEF WriterShape
    <3>4. \A u, v \in Worker : u # v /\ Busy(u)' /\ Busy(v)'
             => SourceOf[job'[u]] # SourceOf[job'[v]]
      <4>1. SUFFICES ASSUME NEW u \in Worker, NEW v \in Worker, u # v,
                            Busy(u)', Busy(v)'
                     PROVE  SourceOf[job'[u]] # SourceOf[job'[v]]
        OBVIOUS
      <4>2. u # w /\ v # w
        BY <3>1, <4>1
      <4>3. Busy(u) /\ Busy(v) /\ job'[u] = job[u] /\ job'[v] = job[v]
        BY <3>2, <4>1, <4>2
      <4>. QED
        BY <4>1, <4>3 DEF WriterShape
    <3>5. \A r \in Source : writing'[r] =>
             \E v \in Worker : Busy(v)' /\ SourceOf[job'[v]] = r
      <4>1. SUFFICES ASSUME NEW r \in Source, writing'[r]
                     PROVE  \E v \in Worker : Busy(v)' /\ SourceOf[job'[v]] = r
        OBVIOUS
      <4>2. r # s /\ writing[r]
        BY <2>1, <2>3, <4>1
      <4>3. PICK v \in Worker : Busy(v) /\ SourceOf[job[v]] = r
        BY <4>2 DEF WriterShape
      <4>4. v # w
        BY <4>2, <4>3
      <4>. QED
        BY <3>2, <4>3, <4>4
    <3>6. \A q \in Page : page'[q] = "taken" =>
             \E v \in Worker : worker'[v] = "write" /\ job'[v] = q
      BY <2>1, <2>3, <3>2 DEF WriterShape
    <3>. QED
      BY <3>3, <3>4, <3>5, <3>6 DEF WriterShape, Busy
  <2>. QED
    BY <2>4, <2>5, <2>6
<1>12. ASSUME NEW s \in Source, FinishSource(s) PROVE Shape'
  BY <1>2, <1>12 DEF FinishSource, RemoveQueues, Busy
<1>13. ASSUME NEW S \in SUBSET Source, Discard(S) PROVE Shape'
  <2>1. /\ pending' = [s \in Source |-> IF s \in S THEN <<>> ELSE pending[s]]
        /\ queues' = queues \ {s \in S : ~writing[s]}
        /\ page' = [p \in Page |->
              IF p \in UNION {Elements(pending[s]) : s \in S}
              THEN "discarded" ELSE page[p]]
        /\ UNCHANGED <<writing, worker, job>>
    BY <1>13 DEF Discard, RemoveQueues
  <2>2. QueueShape'
    BY <2>1 DEF QueueShape
  <2>3. \A p \in UNION {Elements(pending[s]) : s \in S} :
           page[p] = "queued" /\ SourceOf[p] \in S
    BY DEF PendingShape, Elements
  <2>4. PendingShape'
    <3>1. ASSUME NEW r \in Source, NEW i \in 1 .. Len(pending'[r])
          PROVE  /\ page'[pending'[r][i]] = "queued"
                 /\ SourceOf[pending'[r][i]] = r
                 /\ \A j \in 1 .. Len(pending'[r]) :
                      i # j => pending'[r][i] # pending'[r][j]
      <4>1. r \notin S /\ pending'[r] = pending[r]
        BY <2>1, <3>1
      <4>2. pending[r][i] \in Page
        BY <3>1, <4>1
      <4>3. SourceOf[pending[r][i]] = r /\ page[pending[r][i]] = "queued"
        BY <3>1, <4>1 DEF PendingShape
      <4>4. page'[pending[r][i]] = page[pending[r][i]]
        BY <2>1, <2>3, <4>1, <4>2, <4>3
      <4>. QED
        BY <3>1, <4>1, <4>3, <4>4 DEF PendingShape
    <3>. QED
      BY <3>1 DEF PendingShape
  <2>5. WriterShape'
    <3>1. \A p \in Page : page[p] = "taken" <=> page'[p] = "taken"
      BY <2>1, <2>3
    <3>. QED
      BY <2>1, <3>1 DEF WriterShape, Busy
  <2>. QED
    BY <2>2, <2>4, <2>5
<1>14. ASSUME NEW s \in Source, CancelSource(s) PROVE Shape'
  <2>1. CASE s \in queues
    BY <1>13, <1>14, <2>1 DEF CancelSource
  <2>2. CASE s \notin queues
    BY <1>2, <1>14, <2>2 DEF CancelSource, laneVars, Busy
  <2>. QED
    BY <2>1, <2>2
<1>15. CASE CancelAll
  BY <1>13, <1>15 DEF CancelAll
<1>16. ASSUME UNCHANGED <<laneVars, worker, job, page>> PROVE Shape'
  BY <1>2, <1>16 DEF laneVars, Busy
<1>. QED
  BY <1>3, <1>4, <1>5, <1>6, <1>7, <1>8, <1>9, <1>10, <1>11, <1>12, <1>14,
     <1>15, <1>16
  DEF Next, SubmitStep, WorkerStep, CancelContext, NextRun, DrainBegin,
      DrainDeadline, DrainStep, CancelWake, vars

-----------------------------------------------------------------------------
\* The counter follows the queues (WaterLevel of WriteLane).
LEMMA WaterStep == TypeOK /\ Shape /\ WaterLevel /\ [Next]_vars => WaterLevel'
<1>. SUFFICES ASSUME TypeOK, Shape, WaterLevel, [Next]_vars PROVE WaterLevel'
  OBVIOUS
<1>. USE DEF TypeOK
<1>0. /\ \A p \in Page : SourceOf[p] \in Source
      /\ MaxPerSource \in Nat
      /\ Source \in SUBSET Source
  BY LaneAssumption
<1>1. IsFiniteSet(Backlog(Source)) /\ Cardinality(Backlog(Source)) \in Nat
  BY <1>0, BacklogFinite
<1>2. ASSUME UNCHANGED <<pending, totalPending>> PROVE WaterLevel'
  BY <1>2 DEF WaterLevel, Backlog
<1>3. ASSUME NEW p \in Page, SubmitAppend(p) PROVE WaterLevel'
  <2>. DEFINE s == SourceOf[p]
              n == Len(pending[s]) + 1
  <2>1. /\ s \in Source
        /\ pending[s] \in Seq(Page)
        /\ pending' = [pending EXCEPT ![s] = Append(pending[s], p)]
        /\ totalPending' = totalPending + 1
        /\ n <= MaxPerSource
        /\ totalPending < MaxGlobal
    BY <1>0, <1>3, LaneAssumption DEF SubmitAppend, Blocked
  <2>2. /\ Len(pending'[s]) = n
        /\ \A r \in Source : r # s => pending'[r] = pending[r]
    BY <2>1
  <2>3. <<s, n>> \notin Backlog(Source)
    BY <2>1 DEF Backlog
  <2>4. Backlog(Source)' = Backlog(Source) \cup {<<s, n>>}
    <3>1. ASSUME NEW r \in Source, NEW i \in 1 .. MaxPerSource
          PROVE  i <= Len(pending'[r]) <=>
                 i <= Len(pending[r]) \/ (r = s /\ i = n)
      <4>1. CASE r = s
        BY <1>0, <2>1, <2>2, <4>1
      <4>2. CASE r # s
        BY <2>2, <4>2
      <4>. QED
        BY <4>1, <4>2
    <3>2. n \in 1 .. MaxPerSource
      BY <1>0, <2>1
    <3>. QED
      BY <2>1, <3>1, <3>2 DEF Backlog
  <2>5. Cardinality(Backlog(Source)') = Cardinality(Backlog(Source)) + 1
    BY <1>1, <2>3, <2>4, FS_AddElement
  <2>6. \A r \in Source : Len(pending'[r]) <= MaxPerSource
    BY <2>1, <2>2 DEF WaterLevel
  <2>. QED
    BY <2>1, <2>5, <2>6, LaneAssumption DEF WaterLevel
<1>4. ASSUME NEW w \in Worker, WorkerTake(w) PROVE WaterLevel'
  <2>1. PICK s \in queues :
          /\ IsReady(s)
          /\ pending' = [pending EXCEPT ![s] = Tail(@)]
          /\ totalPending' = IF totalPending > 0 THEN totalPending - 1
                                                 ELSE totalPending
    BY <1>4 DEF WorkerTake
  <2>. DEFINE n == Len(pending[s])
  <2>2. /\ s \in Source
        /\ n \in Nat /\ n > 0 /\ n <= MaxPerSource
        /\ Len(pending'[s]) = n - 1
        /\ \A r \in Source : r # s => pending'[r] = pending[r]
    BY <2>1 DEF IsReady, WaterLevel
  <2>3. <<s, n>> \in Backlog(Source)
    BY <1>0, <2>2 DEF Backlog
  <2>4. Backlog(Source)' = Backlog(Source) \ {<<s, n>>}
    BY <1>0, <2>2 DEF Backlog
  <2>5. Cardinality(Backlog(Source)') = Cardinality(Backlog(Source)) - 1
    <3>. DEFINE x == <<s, n>>
    <3>1. x \in Backlog(Source) /\ Backlog(Source)' = Backlog(Source) \ {x}
      BY <2>3, <2>4
    <3>. HIDE DEF x
    <3>. QED
      BY <1>1, <3>1, FS_RemoveElement
  <2>6. Cardinality(Backlog(Source)) # 0
    <3>1. Backlog(Source) # {}
      BY <2>3
    <3>. QED
      BY <1>1, <3>1, FS_EmptySet
  <2>7. \A r \in Source : Len(pending'[r]) <= MaxPerSource
    <3>1. ASSUME NEW r \in Source PROVE Len(pending'[r]) <= MaxPerSource
      <4>1. CASE r = s
        BY <1>0, <2>2, <4>1
      <4>2. CASE r # s
        BY <2>2, <4>2 DEF WaterLevel
      <4>. QED
        BY <4>1, <4>2
    <3>. QED
      BY <3>1
  <2>8. totalPending' = totalPending - 1
    BY <1>1, <2>1, <2>6 DEF WaterLevel
  <2>. QED
    BY <1>0, <1>1, <2>5, <2>7, <2>8, LaneAssumption DEF WaterLevel
<1>5. ASSUME NEW S \in SUBSET Source, Discard(S) PROVE WaterLevel'
  <2>1. pending' = [s \in Source |-> IF s \in S THEN <<>> ELSE pending[s]]
    BY <1>5 DEF Discard
  <2>2. Backlog(S) \in SUBSET Backlog(Source)
    BY DEF Backlog
  <2>3. Backlog(Source)' = Backlog(Source) \ Backlog(S)
    BY <1>0, <2>1 DEF Backlog
  <2>4. IsFiniteSet(Backlog(S)) /\ Cardinality(Backlog(S)) \in Nat
    BY BacklogFinite
  <2>5. /\ Cardinality(Backlog(S)) <= Cardinality(Backlog(Source))
        /\ Backlog(Source) \cap Backlog(S) = Backlog(S)
    BY <1>1, <2>2, FS_Subset
  <2>6. Cardinality(Backlog(Source)')
          = Cardinality(Backlog(Source)) - Cardinality(Backlog(S))
    BY <1>1, <2>3, <2>4, <2>5, FS_Difference
  <2>7. totalPending' = totalPending - Cardinality(Backlog(S))
    BY <1>1, <1>5, <2>4, <2>5 DEF Discard, WaterLevel
  <2>8. \A r \in Source : Len(pending'[r]) <= MaxPerSource
    BY <1>0, <2>1 DEF WaterLevel
  <2>. QED
    BY <1>1, <2>4, <2>6, <2>7, <2>8, LaneAssumption DEF WaterLevel
<1>6. ASSUME NEW s \in Source, CancelSource(s) PROVE WaterLevel'
  <2>1. CASE s \in queues
    BY <1>5, <1>6, <2>1 DEF CancelSource
  <2>2. CASE s \notin queues
    BY <1>2, <1>6, <2>2 DEF CancelSource, laneVars
  <2>. QED
    BY <2>1, <2>2
<1>7. CASE CancelAll
  BY <1>5, <1>7 DEF CancelAll
<1>. QED
  BY <1>2, <1>3, <1>4, <1>6, <1>7
  DEF Next, vars, laneVars, SubmitStep, WorkerStep, SubmitBegin, SubmitWait,
      SubmitCanceled, CompleteDiscarded, WorkerProbe, WorkerMiss, WorkerWrite,
      WorkerFinish, FinishSource, CancelContext, NextRun, DrainBegin,
      DrainDeadline, DrainStep, CancelWake

-----------------------------------------------------------------------------
\* Only a worker that probes for work sleeps.
SleepShape == \A w \in Worker : w \in asleep => worker[w] = "probe"

LaneInv == /\ TypeOK
           /\ Shape
           /\ WaterLevel
           /\ NoStaleSleeper
           /\ SleepShape
           /\ NoLostWakeup

\* While the whole pool sleeps the lane is empty, so nobody else sleeps: that is
\* why the Signal of submit cannot miss the workers.
LEMMA QuietPool ==
    ASSUME LaneInv, Worker \subseteq asleep
    PROVE  asleep \subseteq Worker
<1>. USE DEF LaneInv, TypeOK
<1>1. \A w \in Worker : ~Busy(w)
  BY DEF SleepShape, Busy
<1>2. \A s \in Source : ~writing[s]
  BY <1>1 DEF Shape, WriterShape
<1>3. \A s \in Source : pending[s] = <<>>
  BY <1>2 DEF NoLostWakeup, HasReadyWork, IsReady, Shape, QueueShape
<1>4. Backlog(Source) = {}
  BY <1>3, LaneAssumption DEF Backlog
<1>5. totalPending = 0
  BY <1>4, FS_EmptySet DEF WaterLevel
<1>6. \A s \in Source : ~Blocked(s)
  BY <1>3, <1>5, LaneAssumption DEF Blocked
<1>7. IsIdle
  BY <1>2, <1>3, <1>5 DEF IsIdle
<1>. QED
  BY <1>6, <1>7, LaneAssumption DEF NoStaleSleeper

\* Why each thread sleeps is kept by every step (NoStaleSleeper and NoLostWakeup
\* of WriteLane).
LEMMA SleepStep ==
    LaneInv /\ [Next]_vars => NoStaleSleeper' /\ SleepShape' /\ NoLostWakeup'
<1>. DEFINE Goal == NoStaleSleeper' /\ SleepShape' /\ NoLostWakeup'
<1>. SUFFICES ASSUME LaneInv, [Next]_vars PROVE Goal
  OBVIOUS
<1>. USE DEF LaneInv, TypeOK
<1>0. /\ \A p \in Page : SourceOf[p] \in Source
      /\ Page \cap Worker = {}
      /\ Page \cap Drainer = {}
      /\ Worker \cap Drainer = {}
      /\ Worker # {}
      /\ MaxPerSource \in Nat
      /\ MaxGlobal \in Nat
  BY LaneAssumption
\* Broadcast leaves nobody asleep.
<1>1. ASSUME asleep' = {} PROVE Goal
  BY <1>0, <1>1 DEF NoStaleSleeper, SleepShape, NoLostWakeup
\* The lane and the threads that still sleep are as before.
<1>2. ASSUME UNCHANGED <<pending, writing, totalPending>>,
             queues \subseteq queues', queues' \subseteq Source,
             asleep' \subseteq asleep,
             \A p \in Page : p \in asleep => page'[p] = page[p],
             \A w \in Worker : w \in asleep => worker'[w] = worker[w],
             \A d \in Drainer : d \in asleep => drain'[d] = drain[d]
      PROVE  Goal
  <2>1. \A s \in Source : Blocked(s)' <=> Blocked(s)
    BY <1>2 DEF Blocked
  <2>2. (IsIdle' => IsIdle) /\ (HasReadyWork' => HasReadyWork)
    <3>1. IsIdle' => IsIdle
      BY <1>2 DEF IsIdle
    <3>2. \A s \in queues' \ queues : pending[s] = <<>>
      BY <1>2 DEF Shape, QueueShape
    <3>3. HasReadyWork' => HasReadyWork
      BY <1>2, <3>2 DEF HasReadyWork, IsReady
    <3>. QED
      BY <3>1, <3>3
  <2>3. NoStaleSleeper'
    BY <1>0, <1>2, <2>1, <2>2 DEF NoStaleSleeper
  <2>4. SleepShape'
    BY <1>2 DEF SleepShape
  <2>5. NoLostWakeup'
    BY <1>2, <2>2 DEF NoLostWakeup
  <2>. QED
    BY <2>3, <2>4, <2>5
<1>3. ASSUME NEW p \in Page, SubmitBegin(p) PROVE Goal
  BY <1>2, <1>3 DEF SubmitBegin, NoStaleSleeper, laneVars
<1>4. ASSUME NEW p \in Page, SubmitWait(p) PROVE Goal
  <2>1. /\ page[p] = "entering"
        /\ Blocked(SourceOf[p])
        /\ asleep' = asleep \cup {p}
        /\ queues' = queues \cup {SourceOf[p]}
        /\ UNCHANGED <<pending, writing, totalPending, page, worker, drain>>
    BY <1>4 DEF SubmitWait, InSubmit, QueueFor
  <2>2. \A s \in Source : Blocked(s)' <=> Blocked(s)
    BY <2>1 DEF Blocked
  <2>3. (IsIdle' => IsIdle) /\ (HasReadyWork' => HasReadyWork)
    <3>1. IsIdle' => IsIdle
      BY <2>1 DEF IsIdle
    <3>2. \A s \in queues' \ queues : pending[s] = <<>>
      BY <1>0, <2>1 DEF Shape, QueueShape
    <3>3. HasReadyWork' => HasReadyWork
      BY <2>1, <3>2 DEF HasReadyWork, IsReady
    <3>. QED
      BY <3>1, <3>3
  <2>4. NoStaleSleeper'
    BY <1>0, <2>1, <2>2, <2>3 DEF NoStaleSleeper
  <2>5. SleepShape'
    BY <1>0, <2>1 DEF SleepShape
  <2>6. NoLostWakeup'
    BY <1>0, <2>1, <2>3 DEF NoLostWakeup
  <2>. QED
    BY <2>4, <2>5, <2>6
<1>5. ASSUME NEW p \in Page, SubmitCanceled(p) PROVE Goal
  BY <1>0, <1>2, <1>5 DEF SubmitCanceled, InSubmit, QueueFor
<1>6. ASSUME NEW p \in Page, SubmitAppend(p) PROVE Goal
  <2>. DEFINE s == SourceOf[p]
  <2>1. /\ s \in Source
        /\ p \notin asleep
        /\ pending' = [pending EXCEPT ![s] = Append(pending[s], p)]
        /\ totalPending' = totalPending + 1
        /\ page' = [page EXCEPT ![p] = "queued"]
        /\ Signal
        /\ UNCHANGED <<worker, drain>>
    BY <1>0, <1>6 DEF SubmitAppend, InSubmit
  <2>2. asleep' \subseteq asleep
    BY <2>1 DEF Signal
  <2>3. NoStaleSleeper'
    <3>1. \A r \in Source : Len(pending'[r]) >= Len(pending[r])
      BY <2>1
    <3>2. \A r \in Source : Blocked(r) => Blocked(r)'
      BY <1>0, <2>1, <3>1 DEF Blocked
    <3>3. ~IsIdle'
      BY <2>1 DEF IsIdle
    <3>4. \A q \in Page : q \in asleep => q # p /\ page'[q] = page[q]
      BY <2>1
    <3>. QED
      BY <1>0, <2>1, <2>2, <3>2, <3>3, <3>4 DEF NoStaleSleeper
  <2>4. SleepShape'
    BY <2>1, <2>2 DEF SleepShape
  <2>5. NoLostWakeup'
    <3>1. SUFFICES ASSUME Worker \subseteq asleep' PROVE FALSE
      BY DEF NoLostWakeup
    <3>2. asleep \subseteq Worker
      BY <2>2, <3>1, QuietPool
    <3>3. PICK t \in asleep : asleep' = asleep \ {t}
      BY <1>0, <2>1, <2>2, <3>1 DEF Signal
    <3>. QED
      BY <3>1, <3>2, <3>3
  <2>. QED
    BY <2>3, <2>4, <2>5
<1>7. ASSUME NEW p \in Page, CompleteDiscarded(p) PROVE Goal
  BY <1>2, <1>7 DEF CompleteDiscarded, NoStaleSleeper, laneVars
<1>8. ASSUME NEW w \in Worker, WorkerProbe(w) PROVE Goal
  <2>1. CASE HasReadyWork
    <3>1. UNCHANGED <<laneVars, asleep, page, drain>> /\ w \notin asleep
          /\ worker' = [worker EXCEPT ![w] = "take"]
      BY <1>8, <2>1 DEF WorkerProbe
    <3>. QED
      BY <1>2, <3>1 DEF laneVars
  <2>2. CASE ~HasReadyWork
    <3>1. UNCHANGED <<laneVars, page, worker, drain>> /\ worker[w] = "probe"
          /\ asleep' = asleep \cup {w}
      BY <1>8, <2>2 DEF WorkerProbe
    <3>2. /\ ~HasReadyWork'
          /\ IsIdle' <=> IsIdle
          /\ \A s \in Source : Blocked(s)' <=> Blocked(s)
      BY <2>2, <3>1 DEF HasReadyWork, IsReady, IsIdle, Blocked, laneVars
    <3>3. NoStaleSleeper'
      BY <1>0, <3>1, <3>2 DEF NoStaleSleeper
    <3>4. SleepShape'
      BY <3>1 DEF SleepShape
    <3>. QED
      BY <3>2, <3>3, <3>4 DEF NoLostWakeup
  <2>. QED
    BY <2>1, <2>2
<1>9. ASSUME NEW w \in Worker, WorkerMiss(w) PROVE Goal
  <2>1. w \notin asleep
    BY <1>9 DEF WorkerMiss, SleepShape
  <2>. QED
    BY <1>2, <1>9, <2>1 DEF WorkerMiss
<1>10. ASSUME NEW w \in Worker, WorkerWrite(w) PROVE Goal
  <2>1. /\ worker[w] = "write"
        /\ worker' = [worker EXCEPT ![w] = "finish"]
        /\ page' = [page EXCEPT ![job[w]] = "written"]
        /\ UNCHANGED <<laneVars, asleep, drain>>
    BY <1>10 DEF WorkerWrite
  <2>2. w \notin asleep
    BY <2>1 DEF SleepShape
  <2>3. job[w] \in Page /\ page[job[w]] = "taken"
    BY <2>1 DEF Shape, WriterShape, Busy
  <2>4. job[w] \notin asleep
    BY <2>3 DEF NoStaleSleeper
  <2>. QED
    BY <1>2, <2>1, <2>2, <2>4 DEF laneVars
<1>11. ASSUME NEW s \in Source, FinishSource(s) PROVE Goal
  <2>1. CASE Broadcast
    BY <1>1, <2>1 DEF Broadcast
  <2>2. CASE ~Broadcast
    <3>1. asleep' \subseteq asleep
      BY <1>11, <2>2 DEF FinishSource, Signal
    <3>. QED
      BY <1>2, <1>11, <2>2, <3>1 DEF FinishSource
  <2>. QED
    BY <2>1, <2>2
<1>12. ASSUME NEW s \in Source, CancelSource(s) PROVE Goal
  <2>1. CASE s \in queues
    BY <1>1, <1>12, <2>1 DEF CancelSource, Discard, Broadcast
  <2>2. CASE s \notin queues
    BY <1>2, <1>12, <2>2 DEF CancelSource, laneVars
  <2>. QED
    BY <2>1, <2>2
<1>13. ASSUME NEW d \in Drainer, DrainBegin(d) \/ DrainDeadline(d) PROVE Goal
  BY <1>2, <1>13 DEF DrainBegin, DrainDeadline, NoStaleSleeper, laneVars
<1>14. ASSUME NEW d \in Drainer, DrainStep(d) PROVE Goal
  <2>1. CASE IsIdle \/ d \in expired
    <3>1. UNCHANGED <<laneVars, asleep, page, worker>> /\ d \notin asleep
          /\ \A e \in Drainer : e # d => drain'[e] = drain[e]
      BY <1>14, <2>1 DEF DrainStep
    <3>. QED
      BY <1>2, <3>1 DEF laneVars
  <2>2. CASE ~IsIdle /\ d \notin expired
    <3>1. /\ UNCHANGED <<laneVars, page, worker, drain>>
          /\ drain[d] = "waiting"
          /\ asleep' = asleep \cup {d}
      BY <1>14, <2>2 DEF DrainStep
    <3>2. /\ ~IsIdle'
          /\ HasReadyWork' <=> HasReadyWork
          /\ \A s \in Source : Blocked(s)' <=> Blocked(s)
      BY <2>2, <3>1 DEF HasReadyWork, IsReady, IsIdle, Blocked, laneVars
    <3>3. NoStaleSleeper'
      BY <1>0, <3>1, <3>2 DEF NoStaleSleeper
    <3>4. SleepShape'
      BY <1>0, <3>1 DEF SleepShape
    <3>5. NoLostWakeup'
      BY <1>0, <3>1, <3>2 DEF NoLostWakeup
    <3>. QED
      BY <3>3, <3>4, <3>5
  <2>. QED
    BY <2>1, <2>2
<1>15. ASSUME \/ \E w \in Worker : WorkerTake(w) \/ WorkerFinish(w)
              \/ CancelAll
              \/ \E t \in Page \cup Drainer : CancelWake(t)
       PROVE  Goal
  BY <1>1, <1>15
  DEF WorkerTake, WorkerFinish, CancelAll, Discard, CancelWake, Broadcast
<1>16. ASSUME UNCHANGED <<laneVars, asleep, page, worker, drain>> PROVE Goal
  BY <1>2, <1>16 DEF laneVars
<1>. QED
  BY <1>3, <1>4, <1>5, <1>6, <1>7, <1>8, <1>9, <1>10, <1>11, <1>12, <1>13,
     <1>14, <1>15, <1>16
  DEF Next, SubmitStep, WorkerStep, CancelContext, NextRun, vars

-----------------------------------------------------------------------------
LEMMA LaneInitial == Init => LaneInv
<1>. SUFFICES ASSUME Init PROVE LaneInv
  OBVIOUS
<1>. USE DEF Init
<1>1. TypeOK
  BY DEF TypeOK
<1>2. Shape
  BY DEF Shape, QueueShape, PendingShape, WriterShape, Busy
<1>3. WaterLevel
  <2>1. Backlog(Source) = {}
    BY LaneAssumption DEF Backlog
  <2>. QED
    BY <2>1, FS_EmptySet, LaneAssumption DEF WaterLevel
<1>4. NoStaleSleeper /\ SleepShape /\ NoLostWakeup
  BY DEF NoStaleSleeper, SleepShape, NoLostWakeup, HasReadyWork
<1>. QED
  BY <1>1, <1>2, <1>3, <1>4 DEF LaneInv

THEOREM LaneInvariant == Spec => []LaneInv
<1>1. LaneInv /\ [Next]_vars => LaneInv'
  BY TypeStep, ShapeStep, WaterStep, SleepStep DEF LaneInv
<1>. QED
  BY <1>1, LaneInitial, PTL DEF Spec

\* totalPending is the number of queued pages, within both limits.
THEOREM WaterLevelHolds == Spec => []WaterLevel
<1>1. LaneInv => WaterLevel
  BY DEF LaneInv
<1>. QED
  BY <1>1, LaneInvariant, PTL

\* Two pages of one source are never written at the same time.
THEOREM OneWritePerSourceHolds == Spec => []OneWritePerSource
<1>1. LaneInv => OneWritePerSource
  <2>. SUFFICES ASSUME LaneInv PROVE OneWritePerSource
    OBVIOUS
  <2>1. \A w \in Worker : Busy(w) =>
           SourceOf[job[w]] \in queues /\ writing[SourceOf[job[w]]]
    BY LaneAssumption DEF LaneInv, Shape, WriterShape, QueueShape
  <2>. QED
    BY <2>1 DEF LaneInv, Shape, WriterShape, Busy, OneWritePerSource
<1>. QED
  BY <1>1, LaneInvariant, PTL

\* Ready work never finds the whole pool asleep, whatever thread a Signal wakes.
THEOREM NoLostWakeupHolds == Spec => []NoLostWakeup
<1>1. LaneInv => NoLostWakeup
  BY DEF LaneInv
<1>. QED
  BY <1>1, LaneInvariant, PTL

\* A thread asleep still has its reason to sleep.
THEOREM NoStaleSleeperHolds == Spec => []NoStaleSleeper
<1>1. LaneInv => NoStaleSleeper
  BY DEF LaneInv
<1>. QED
  BY <1>1, LaneInvariant, PTL

-----------------------------------------------------------------------------
\* Every step of the lane is a step of PageWrites or leaves the pages as
\* CollectPages sees them.
LEMMA PagesStep == LaneInv /\ [Next]_vars => [Pages!Next]_Seen
<1>. SUFFICES ASSUME LaneInv, [Next]_vars PROVE Pages!Next \/ UNCHANGED Seen
  OBVIOUS
<1>. USE DEF LaneInv, TypeOK
<1>1. ASSUME UNCHANGED page PROVE UNCHANGED Seen
  BY <1>1 DEF Seen
<1>2. ASSUME NEW p \in Page, NEW new \in PageState,
             page' = [page EXCEPT ![p] = new]
      PROVE  Seen' = [Seen EXCEPT ![p] = View(new)]
  <2>1. \A q \in Page : page'[q] = IF q = p THEN new ELSE page[q]
    BY <1>2
  <2>. QED
    BY <2>1 DEF Seen
<1>3. \A p \in Page : Seen[p] = View(page[p])
  BY DEF Seen
<1>4. ASSUME NEW p \in Page, SubmitBegin(p) PROVE Pages!Next \/ UNCHANGED Seen
  <2>1. Seen[p] = "new"
    BY <1>3, <1>4 DEF SubmitBegin, View
  <2>2. CASE page' = [page EXCEPT ![p] = "entering"]
    <3>1. Seen' = [Seen EXCEPT ![p] = "new"]
      BY <1>2, <2>2 DEF View
    <3>. QED
      BY <2>1, <3>1 DEF Seen
  <2>3. CASE page' = [page EXCEPT ![p] = "rejected"]
    <3>1. Seen' = [Seen EXCEPT ![p] = "rejected"]
      BY <1>2, <2>3 DEF View
    <3>. QED
      BY <2>1, <3>1 DEF Pages!Next, Pages!Reject, Pages!Move
  <2>. QED
    BY <1>4, <2>2, <2>3 DEF SubmitBegin
<1>5. ASSUME NEW p \in Page, SubmitCanceled(p) PROVE Pages!Next
  <2>1. Seen[p] = "new" /\ Seen' = [Seen EXCEPT ![p] = "rejected"]
    BY <1>2, <1>3, <1>5 DEF SubmitCanceled, InSubmit, View
  <2>. QED
    BY <2>1 DEF Pages!Next, Pages!Reject, Pages!Move
<1>6. ASSUME NEW p \in Page, SubmitAppend(p) PROVE Pages!Next
  <2>1. Seen[p] = "new" /\ Seen' = [Seen EXCEPT ![p] = "queued"]
    BY <1>2, <1>3, <1>6 DEF SubmitAppend, InSubmit, View
  <2>. QED
    BY <2>1 DEF Pages!Next, Pages!Accept, Pages!Move
<1>7. ASSUME NEW p \in Page, CompleteDiscarded(p) PROVE Pages!Next
  <2>1. Seen[p] = "queued" /\ Seen' = [Seen EXCEPT ![p] = "canceled"]
    BY <1>2, <1>3, <1>7 DEF CompleteDiscarded, View
  <2>. QED
    BY <2>1 DEF Pages!Next, Pages!Cancel, Pages!Move
<1>8. ASSUME NEW w \in Worker, WorkerTake(w) PROVE Pages!Next
  <2>1. PICK s \in queues :
          /\ IsReady(s)
          /\ page' = [page EXCEPT ![Head(pending[s])] = "taken"]
    BY <1>8 DEF WorkerTake
  <2>. DEFINE p == Head(pending[s])
  <2>2. /\ s \in Source
        /\ ~writing[s]
        /\ p \in Page
        /\ page[p] = "queued"
        /\ SourceOf[p] = s
    BY <2>1 DEF IsReady, Shape, PendingShape
  <2>3. ASSUME NEW q \in Page, SourceOf[q] = s PROVE Seen[q] # "writing"
    <3>1. page[q] # "taken"
      BY <2>2, <2>3 DEF Shape, WriterShape, Busy
    <3>. QED
      BY <1>3, <3>1 DEF View
  <2>4. Seen[p] = "queued" /\ Seen' = [Seen EXCEPT ![p] = "writing"]
    BY <1>2, <1>3, <2>1, <2>2 DEF View
  <2>. QED
    BY <2>2, <2>3, <2>4 DEF Pages!Next, Pages!Start, Pages!Move
<1>9. ASSUME NEW w \in Worker, WorkerWrite(w) PROVE Pages!Next
  <2>1. /\ job[w] \in Page
        /\ page[job[w]] = "taken"
        /\ page' = [page EXCEPT ![job[w]] = "written"]
    BY <1>9 DEF WorkerWrite, Shape, WriterShape, Busy
  <2>2. /\ Seen[job[w]] = "writing"
        /\ Seen' = [Seen EXCEPT ![job[w]] = "written"]
    BY <1>2, <1>3, <2>1 DEF View
  <2>. QED
    BY <2>1, <2>2 DEF Pages!Next, Pages!Finish, Pages!Move
<1>10. ASSUME NEW S \in SUBSET Source, Discard(S) PROVE UNCHANGED Seen
  <2>1. ASSUME NEW p \in Page PROVE View(page'[p]) = View(page[p])
    <3>1. CASE p \in UNION {Elements(pending[s]) : s \in S}
      <4>1. page[p] = "queued"
        BY <3>1 DEF Shape, PendingShape, Elements
      <4>2. page'[p] = "discarded"
        BY <1>10, <3>1 DEF Discard
      <4>. QED
        BY <4>1, <4>2 DEF View
    <3>2. CASE p \notin UNION {Elements(pending[s]) : s \in S}
      BY <1>10, <3>2 DEF Discard
    <3>. QED
      BY <3>1, <3>2
  <2>. QED
    BY <2>1 DEF Seen
<1>11. ASSUME NEW s \in Source, CancelSource(s) PROVE UNCHANGED Seen
  BY <1>1, <1>10, <1>11 DEF CancelSource
<1>12. CASE CancelAll
  BY <1>10, <1>12 DEF CancelAll
<1>. QED
  BY <1>1, <1>4, <1>5, <1>6, <1>7, <1>8, <1>9, <1>11, <1>12
  DEF Next, vars, SubmitStep, WorkerStep, SubmitWait, WorkerProbe, WorkerMiss,
      WorkerFinish, FinishSource, CancelContext, NextRun, DrainBegin,
      DrainDeadline, DrainStep, CancelWake

\* The lane implements the promise of PageWrites, for every number of sources,
\* pages and workers.
THEOREM PagesAccountedForHolds == Spec => PagesAccountedFor
<1>1. Init => Pages!Init
  BY DEF Init, Pages!Init, Seen, View
<1>. QED
  BY <1>1, PagesStep, LaneInvariant, PTL
  DEF Spec, PagesAccountedFor, Pages!Safety

-----------------------------------------------------------------------------
\* A stopped run is out of the lane for good: a submit that was already past its
\* first look at the context cannot bring a page of it back.
THEOREM StoppedStaysOutHolds == Spec => []StoppedStaysOut
<1>1. Init => StoppedStaysOut
  BY DEF Init, StoppedStaysOut
<1>2. LaneInv /\ StoppedStaysOut /\ [Next]_vars => StoppedStaysOut'
  <2>. SUFFICES ASSUME LaneInv, StoppedStaysOut, [Next]_vars
                PROVE  StoppedStaysOut'
    OBVIOUS
  <2>. USE DEF LaneInv, TypeOK
  <2>1. ASSUME canceled' \ stopping' \subseteq canceled \ stopping,
               \A s \in canceled \ stopping :
                  pending'[s] \in {pending[s], <<>>}
        PROVE  StoppedStaysOut'
    BY <2>1 DEF StoppedStaysOut
  <2>2. ASSUME NEW p \in Page, SubmitAppend(p) PROVE StoppedStaysOut'
    <3>1. \A s \in canceled : s \in Source /\ pending'[s] = pending[s]
      BY <2>2 DEF SubmitAppend
    <3>. QED
      BY <2>1, <2>2, <3>1 DEF SubmitAppend, runVars
  <2>3. ASSUME NEW w \in Worker, WorkerTake(w) PROVE StoppedStaysOut'
    <3>1. PICK s \in queues : /\ pending[s] # <<>>
                              /\ pending' = [pending EXCEPT ![s] = Tail(@)]
      BY <2>3 DEF WorkerTake, IsReady
    <3>2. s \notin canceled \ stopping
      BY <3>1 DEF StoppedStaysOut
    <3>. QED
      BY <2>1, <2>3, <3>1, <3>2 DEF WorkerTake, runVars
  <2>4. ASSUME NEW s \in Source, CancelContext(s) PROVE StoppedStaysOut'
    BY <2>1, <2>4 DEF CancelContext, laneVars
  <2>5. ASSUME NEW s \in Source, CancelSource(s) PROVE StoppedStaysOut'
    <3>1. /\ pending'[s] = <<>>
          /\ \A r \in Source : r # s => pending'[r] = pending[r]
      BY <2>5 DEF CancelSource, Discard, laneVars, Shape, QueueShape
    <3>2. canceled' = canceled /\ stopping' = stopping \ {s}
      BY <2>5 DEF CancelSource
    <3>. QED
      BY <3>1, <3>2 DEF StoppedStaysOut
  <2>6. CASE CancelAll
    BY <2>1, <2>6 DEF CancelAll, Discard, runVars
  <2>7. ASSUME NEW s \in Source, NextRun(s) PROVE StoppedStaysOut'
    BY <2>1, <2>7 DEF NextRun, laneVars
  <2>8. ASSUME UNCHANGED <<pending, canceled, stopping>> PROVE StoppedStaysOut'
    BY <2>1, <2>8
  <2>. QED
    BY <2>2, <2>3, <2>4, <2>5, <2>6, <2>7, <2>8
    DEF Next, vars, laneVars, runVars, SubmitStep, WorkerStep, SubmitBegin,
        SubmitWait, SubmitCanceled, CompleteDiscarded, WorkerProbe, WorkerMiss,
        WorkerWrite, WorkerFinish, FinishSource, DrainBegin, DrainDeadline,
        DrainStep, CancelWake
<1>. QED
  BY <1>1, <1>2, LaneInvariant, PTL DEF Spec

-----------------------------------------------------------------------------
(* The conjunctions the runs check, from their parts.                       *)

(* The lane's state keeps its types, one source is never written twice at   *)
(* once, and the backlog stays under the water level.                       *)
THEOREM LaneSafeHolds == Spec => []LaneSafe
BY TypeCorrect, OneWritePerSourceHolds, WaterLevelHolds, PTL DEF LaneSafe

(* Neither a worker nor a submitter sleeps while what it waits for is       *)
(* there: scheduler.go wakes the shared condition variable often enough.    *)
THEOREM NobodySleepsInVainHolds == Spec => []NobodySleepsInVain
BY NoLostWakeupHolds, NoStaleSleeperHolds, PTL DEF NobodySleepsInVain

=============================================================================
