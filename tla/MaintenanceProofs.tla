-------------------------- MODULE MaintenanceProofs --------------------------
(***************************************************************************)
(* Proofs about the collect gate and the scheduled tasks, for every set of *)
(* tasks, threads, clears, deletions and sources.                          *)
(***************************************************************************)
EXTENDS Maintenance, FiniteSetTheorems, SequenceTheorems, TLAPS

\* What a goroutine of each kind does.
ThreadPlaces == {"off", "claim", "mark", "gate", "look", "open", "unclaim",
                 "quiet", "endDrain"} \cup Cleaning \cup (InBatch \ {"deleting"})
ClearPlaces == {"new", "drained", "endDrain", "off"} \cup Cleaning
DeleterPlaces == {"new", "deleting", "off"}
TickerPlaces == {"new", "finishLock", "finish"}

Kinds ==
    /\ \A p \in Thread : at[p] \in ThreadPlaces
    /\ \A z \in Clear : at[z] \in ClearPlaces
    /\ \A d \in Deleter : at[d] \in DeleterPlaces
    /\ at[Ticker] \in TickerPlaces

\* What a thread is at belongs to the task it is at.
Scheduled == {"claim", "mark", "gate", "look", "unclaim"} \cup Holding
Maintains == {"mark", "gate"} \cup Holding
Tasks ==
    \A p \in Thread : at[p] # "off" =>
        /\ todo[p] # <<>>
        /\ todo[p] \in Seq(Task) \/ todo[p] = <<Center>>
        /\ at[p] \in Scheduled => todo[p] \in Seq(Task)
        /\ at[p] \in Maintains => Task1(p) \in Job

Typed == TypeOK /\ Kinds /\ Tasks

\* publishMu is held by the one that cleans, seals or finishes.
Exclusive == {"clean", "seal", "finish"}
Mutex == \A p \in Proc : at[p] \in Exclusive <=> publisher = p

\* Who is in the gate with a source has it.
Entered == \A p \in Proc : at[p] \in InGate => \E s \in Source : active[s] = p

\* Who has found the gate idle, or cleans, does so behind a shut gate in which
\* nobody is.
Quiet ==
    /\ \A p \in idle : at[p] = "quiet" /\ Idle
    /\ \A p \in Proc : at[p] \in Cleaning => Idle

\* A batch is open from its first to its last step.
Open == \A p \in Thread : at[p] \in InBatch => p \in batches

\* A maintenance that has gone on to clean has no batch to settle behind it.
Behind == \A p \in Thread, q \in Proc : at[p] \in Cleaning => at[q] # "settle"

GateInv == OneHolder /\ Mutex /\ Entered /\ Quiet /\ Open /\ Behind

USE DEF Holding, Cleaning, Sealing, InGate, Finishing, InBatch, Places

-----------------------------------------------------------------------------
(* The threads' tasks.                                                      *)

\* What is left of two tasks or more is not empty.
LEMMA TailMore ==
    ASSUME NEW S, NEW s \in Seq(S), Len(s) > 1
    PROVE  Tail(s) \in Seq(S) /\ Tail(s) # <<>>
<1>1. s # <<>> /\ Len(s) \in Nat
  BY EmptySeq, LenProperties
<1>2. Tail(s) \in Seq(S) /\ Len(Tail(s)) = Len(s) - 1
  BY <1>1, HeadTailProperties
<1>3. Len(Tail(s)) # 0
  BY <1>1, <1>2
<1>. QED
  BY <1>2, <1>3, EmptySeq

LEMMA ProcsFinite == IsFiniteSet(Proc)
<1>1. Proc = (Thread \cup Clear \cup Deleter) \cup {Ticker}
  BY DEF Proc
<1>. QED
  BY <1>1, MaintenanceAssumption, FS_AddElement

\* What the dispatcher plans is a sequence of tasks, each of a kind.
LEMMA PlansTypes ==
    ASSUME NEW q, NEW busy, NEW run \in Plans(q, Due(q, busy)),
           Due(q, busy) # {}
    PROVE  /\ run \in Seq(Task) /\ run # <<>>
           /\ Due(q, busy) \subseteq Task
<1>. DEFINE due == Due(q, busy)
<1>1. due \subseteq Job \/ due \subseteq {AutoTask}
  BY DEF Due
<1>2. IsFiniteSet(due)
  BY <1>1, MaintenanceAssumption, FS_Subset, FS_Singleton
<1>3. Cardinality(due) \in Nat /\ Cardinality(due) # 0
  BY <1>2, FS_CardinalityType, FS_EmptySet
<1>4. run \in [1 .. Cardinality(due) -> due]
  BY DEF Plans
<1>5. due \subseteq Task
  BY <1>1 DEF Task
<1>. QED
  BY <1>3, <1>4, <1>5

\* A step of a thread to its next task keeps what is known of its tasks.
LEMMA NextTaskTasks ==
    ASSUME Typed, NEW p \in Thread, NextTask(p),
           at[p] \in {"claim", "unclaim"} \/ (at[p] = "close" /\ Task1(p) = Center)
    PROVE  /\ at' \in [Proc -> Places] /\ todo' \in [Thread -> Seq(Task \cup {Center})]
           /\ Kinds' /\ Tasks'
<1>1. todo[p] # <<>> /\ todo[p] \in Seq(Task \cup {Center})
  BY DEF Typed, Tasks, TypeOK, ThreadPlaces
<1>2. p \in Proc
  BY DEF Proc
<1>3. at' \in [Proc -> Places] /\ todo' \in [Thread -> Seq(Task \cup {Center})]
  BY <1>1, <1>2 DEF NextTask, Go, Typed, TypeOK
<1>4. Kinds'
  BY <1>2, MaintenanceAssumption DEF NextTask, Go, Typed, TypeOK, Kinds, ThreadPlaces
<1>5. ASSUME NEW x \in Thread, at'[x] # "off"
      PROVE  /\ todo'[x] # <<>>
             /\ todo'[x] \in Seq(Task) \/ todo'[x] = <<Center>>
             /\ at'[x] \in Scheduled => todo'[x] \in Seq(Task)
             /\ at'[x] \in Maintains => Head(todo'[x]) \in Job
  <2>. x \in Proc
    BY DEF Proc
  <2>1. CASE x # p
    <3>1. at'[x] = at[x] /\ todo'[x] = todo[x]
      BY <2>1, <1>2 DEF NextTask, Go, Typed, TypeOK
    <3>. QED
      BY <3>1, <1>5 DEF Typed, Tasks, Task1
  <2>2. CASE x = p
    <3>1. at'[p] = "claim" /\ Len(todo[p]) > 1 /\ todo'[p] = Tail(todo[p])
      BY <2>2, <1>2, <1>5 DEF NextTask, Go, Typed, TypeOK
    <3>2. todo[p] \in Seq(Task)
      <4>1. CASE at[p] = "close"
        <5>1. Len(<<Center>>) = 1 /\ ~(1 > 1)
          OBVIOUS
        <5>2. todo[p] # <<Center>>
          BY <3>1, <5>1, Zenon
        <5>. QED
          BY <4>1, <5>2 DEF Typed, Tasks
      <4>. QED
        BY <4>1 DEF Typed, Tasks, Scheduled
    <3>3. Tail(todo[p]) \in Seq(Task) /\ Tail(todo[p]) # <<>>
      BY <3>1, <3>2, TailMore
    <3>. QED
      BY <2>2, <3>1, <3>3 DEF Maintains
  <2>. QED
    BY <2>1, <2>2
<1>6. Tasks'
  BY <1>5 DEF Tasks, Task1
<1>. QED
  BY <1>3, <1>4, <1>6

-----------------------------------------------------------------------------
(* The count of those who publish.                                          *)

Counted == (Cleaning \ {"publish"}) \cup Sealing \cup Finishing
Publishers == {p \in Proc : at[p] \in Counted}

LEMMA CountStep ==
    ASSUME TypeOK, NEW p \in Proc, NEW there, at' = [at EXCEPT ![p] = there]
    PROVE  Cardinality(Publishers') =
             IF at[p] \in Counted
             THEN IF there \in Counted THEN publishing ELSE publishing - 1
             ELSE IF there \in Counted THEN publishing + 1 ELSE publishing
<1>1. IsFiniteSet(Publishers) /\ publishing = Cardinality(Publishers)
  BY ProcsFinite, FS_Subset DEF Publishers, TypeOK, Counted
<1>2. publishing \in Nat
  BY DEF TypeOK
<1>3. \A q \in Proc : at'[q] = IF q = p THEN there ELSE at[q]
  BY DEF TypeOK
<1>4. CASE at[p] \in Counted /\ there \notin Counted
  <2>1. Publishers' = Publishers \ {p} /\ p \in Publishers
    BY <1>3, <1>4 DEF Publishers
  <2>. QED
    BY <2>1, <1>1, <1>4, FS_RemoveElement
<1>5. CASE at[p] \notin Counted /\ there \in Counted
  <2>1. Publishers' = Publishers \cup {p} /\ p \notin Publishers
    BY <1>3, <1>5 DEF Publishers
  <2>. QED
    BY <2>1, <1>1, <1>5, FS_AddElement
<1>6. CASE at[p] \in Counted <=> there \in Counted
  <2>1. Publishers' = Publishers
    BY <1>3, <1>6 DEF Publishers
  <2>. QED
    BY <2>1, <1>1, <1>6
<1>. QED
  BY <1>4, <1>5, <1>6

-----------------------------------------------------------------------------
(* Every step keeps the types.                                              *)

\* TypeOK without the count of the publishers.
Shapes ==
    /\ pending \in Seq(Task)
    /\ sending \in Nat /\ fires \in 0 .. MaxFires /\ calls \in 0 .. MaxCalls
    /\ signal \in BOOLEAN
    /\ loop \in {"wait", "sleep"}
    /\ claimed \subseteq Task /\ marked \subseteq Job
    /\ ran \in [Task -> Nat]
    /\ draining \in BOOLEAN
    /\ active \in [Source -> Proc \cup {Nobody}]
    /\ publishing \in Nat
    /\ publisher \in Proc \cup {Nobody}
    /\ batches \subseteq Thread
    /\ at \in [Proc -> Places]
    /\ todo \in [Thread -> Seq(Task \cup {Center})]
    /\ idle \subseteq Thread
    /\ \A s \in Source : active[s] # Nobody => at[active[s]] \in InGate

LEMMA TypeParts ==
    /\ TypeOK <=> Shapes /\ publishing = Cardinality(Publishers)
    /\ TypeOK' <=> Shapes' /\ publishing' = Cardinality(Publishers')
BY DEF TypeOK, Shapes, Publishers, Counted

\* What a process may go on to.
MayGo(p, there) ==
    /\ p \in Thread =>
        /\ there \in ThreadPlaces
        /\ there # "off" =>
            /\ at[p] # "off"
            /\ there \in Scheduled => todo[p] \in Seq(Task)
            /\ there \in Maintains => Task1(p) \in Job
    /\ p \in Clear => there \in ClearPlaces
    /\ p \in Deleter => there \in DeleterPlaces
    /\ p = Ticker => there \in TickerPlaces

\* A step of one process that leaves the tasks alone.
LEMMA GoStep ==
    ASSUME Typed, NEW p \in Proc, NEW there, Go(p, there), UNCHANGED todo,
           MayGo(p, there)
    PROVE  /\ at' \in [Proc -> Places]
           /\ Kinds' /\ Tasks'
           /\ Cardinality(Publishers') =
                IF at[p] \in Counted
                THEN IF there \in Counted THEN publishing ELSE publishing - 1
                ELSE IF there \in Counted THEN publishing + 1 ELSE publishing
<1>1. there \in Places
  BY DEF MayGo, ThreadPlaces, ClearPlaces, DeleterPlaces, TickerPlaces, Proc
<1>2. at' = [at EXCEPT ![p] = there] /\ at \in [Proc -> Places]
  BY DEF Go, Typed, TypeOK
<1>3. \A q \in Proc : at'[q] = IF q = p THEN there ELSE at[q]
  BY <1>2
<1>4. at' \in [Proc -> Places]
  BY <1>1, <1>2
<1>5. Kinds'
  BY <1>3, MaintenanceAssumption DEF Kinds, MayGo, Typed, Proc
<1>6. Tasks'
  <2>. SUFFICES ASSUME NEW x \in Thread, at'[x] # "off"
                PROVE  /\ todo[x] # <<>>
                       /\ todo[x] \in Seq(Task) \/ todo[x] = <<Center>>
                       /\ at'[x] \in Scheduled => todo[x] \in Seq(Task)
                       /\ at'[x] \in Maintains => Head(todo[x]) \in Job
    BY DEF Tasks, Task1
  <2>1. x \in Proc
    BY DEF Proc
  <2>2. CASE x = p
    BY <1>3, <2>1, <2>2 DEF MayGo, Typed, Tasks, Task1
  <2>3. CASE x # p
    BY <1>3, <2>1, <2>3 DEF Typed, Tasks, Task1
  <2>. QED
    BY <2>2, <2>3
<1>. QED
  BY <1>2, <1>4, <1>5, <1>6, CountStep DEF Typed

\* A step that moves no process.
LEMMA StayStep ==
    ASSUME Typed, UNCHANGED <<at, todo>>
    PROVE  Kinds' /\ Tasks' /\ Publishers' = Publishers
BY DEF Typed, Kinds, Tasks, Task1, Publishers

\* The steps of the clock and of the loop.
LEMMA ClockType ==
    ASSUME Typed, (\E t \in Task : Enqueue(t)) \/ Send \/ Wake
    PROVE  Typed'
<1>1. UNCHANGED <<at, todo, publishing>>
  BY DEF Enqueue, Send, Wake, gateVars
<1>2. Shapes /\ publishing = Cardinality(Publishers)
  BY TypeParts DEF Typed
<1>3. Shapes'
  <2>1. ASSUME NEW t \in Task, Enqueue(t)
        PROVE  Shapes'
    BY <1>2, <2>1, MaintenanceAssumption DEF Enqueue, Shapes, taskVars, gateVars
  <2>2. CASE Send
    BY <1>2, <2>2 DEF Send, Shapes, taskVars, gateVars
  <2>3. CASE Wake
    BY <1>2, <2>3 DEF Wake, Shapes, taskVars, gateVars
  <2>. QED
    BY <2>1, <2>2, <2>3
<1>. QED
  BY <1>1, <1>2, <1>3, StayStep, TypeParts DEF Typed

\* A thread takes up what the loop has planned, or what is asked for by hand.
LEMMA StartType ==
    ASSUME Typed, NEW p \in Thread, NEW run, NEW there, Unused(p),
           at' = [at EXCEPT ![p] = there],
           todo' = [todo EXCEPT ![p] = run],
           \/ run \in Seq(Task) /\ run # <<>> /\ there = "claim"
           \/ run = <<Center>> /\ there = "open"
    PROVE  /\ at' \in [Proc -> Places]
           /\ todo' \in [Thread -> Seq(Task \cup {Center})]
           /\ Kinds' /\ Tasks' /\ Cardinality(Publishers') = publishing
<1>1. p \in Proc /\ at[p] = "off" /\ at \in [Proc -> Places]
      /\ todo \in [Thread -> Seq(Task \cup {Center})]
  BY DEF Proc, Unused, Typed, TypeOK
<1>2. \A q \in Proc : at'[q] = IF q = p THEN there ELSE at[q]
  BY <1>1
<1>3. run \in Seq(Task \cup {Center}) /\ run # <<>>
  <2>1. CASE run \in Seq(Task) /\ run # <<>>
    BY <2>1
  <2>2. CASE run = <<Center>>
    BY <2>2, Len(<<Center>>) = 1, Len(<<>>) = 0
  <2>. QED
    BY <2>1, <2>2
<1>4. at' \in [Proc -> Places] /\ todo' \in [Thread -> Seq(Task \cup {Center})]
  BY <1>1, <1>3
<1>5. Kinds'
  BY <1>2, MaintenanceAssumption DEF Kinds, Typed, Proc, ThreadPlaces
<1>6. Tasks'
  <2>. SUFFICES ASSUME NEW x \in Thread, at'[x] # "off"
                PROVE  /\ todo'[x] # <<>>
                       /\ todo'[x] \in Seq(Task) \/ todo'[x] = <<Center>>
                       /\ at'[x] \in Scheduled => todo'[x] \in Seq(Task)
                       /\ at'[x] \in Maintains => Head(todo'[x]) \in Job
    BY DEF Tasks, Task1
  <2>1. x \in Proc
    BY DEF Proc
  <2>2. CASE x = p
    BY <1>1, <1>2, <1>3, <2>2 DEF Scheduled, Maintains
  <2>3. CASE x # p
    BY <1>1, <1>2, <2>1, <2>3 DEF Typed, Tasks, Task1
  <2>. QED
    BY <2>2, <2>3
<1>7. Cardinality(Publishers') = publishing
  BY <1>1, CountStep DEF Typed, Counted
<1>. QED
  BY <1>4, <1>5, <1>6, <1>7

LEMMA FlushType ==
    ASSUME Typed, Flush
    PROVE  Typed'
<1>. DEFINE due == Due(pending, MaintenanceRunning)
<1>1. Shapes /\ publishing = Cardinality(Publishers)
  BY TypeParts DEF Typed
<1>2. CASE UNCHANGED <<at, todo>>
  <2>1. Shapes'
    BY <1>1, <1>2 DEF Flush, Shapes, taskVars, gateVars
  <2>. QED
    BY <1>1, <1>2, <2>1, StayStep, TypeParts DEF Flush, gateVars, Typed
<1>3. ASSUME due # {}, NEW p \in Thread, NEW run \in Plans(pending, due),
             Unused(p), todo' = [todo EXCEPT ![p] = run], Go(p, "claim")
      PROVE  Typed'
  <2>1. run \in Seq(Task) /\ run # <<>>
    BY <1>3, PlansTypes
  <2>2. /\ at' \in [Proc -> Places]
        /\ todo' \in [Thread -> Seq(Task \cup {Center})]
        /\ Kinds' /\ Tasks' /\ Cardinality(Publishers') = publishing
    BY <1>3, <2>1, StartType DEF Go
  <2>3. at[p] = "off" /\ p \in Proc /\ at' = [at EXCEPT ![p] = "claim"]
    BY <1>3 DEF Unused, Go, Proc
  <2>4. Shapes'
    BY <1>1, <2>2, <2>3 DEF Flush, Shapes, taskVars, gateVars
  <2>. QED
    BY <2>2, <2>4, TypeParts DEF Flush, gateVars, Typed
<1>. QED
  BY <1>2, <1>3 DEF Flush

LEMMA HandType ==
    ASSUME Typed, NEW p \in Thread, NEW t \in Task \cup {Center},
           RunByHand(p, t)
    PROVE  Typed'
<1>1. Shapes /\ publishing = Cardinality(Publishers)
  BY TypeParts DEF Typed
<1>2. /\ at' = [at EXCEPT ![p] = IF t = Center THEN "open" ELSE "claim"]
      /\ todo' = [todo EXCEPT ![p] = <<t>>] /\ Unused(p)
      /\ at[p] = "off" /\ p \in Proc
  BY DEF RunByHand, Go, Unused, Proc
<1>3. /\ at' \in [Proc -> Places]
      /\ todo' \in [Thread -> Seq(Task \cup {Center})]
      /\ Kinds' /\ Tasks' /\ Cardinality(Publishers') = publishing
  <2>1. CASE t = Center
    BY <1>2, <2>1, StartType
  <2>2. CASE t \in Task
    <3>1. <<t>> \in Seq(Task) /\ <<t>> # <<>> /\ t # Center
      BY <2>2, MaintenanceAssumption, Len(<<t>>) = 1, Len(<<>>) = 0
    <3>. QED
      BY <1>2, <3>1, StartType
  <2>. QED
    BY <2>1, <2>2
<1>4. Shapes'
  BY <1>1, <1>2, <1>3, MaintenanceAssumption
  DEF RunByHand, MayCall, Shapes, cronVars, taskVars, gateVars
<1>. QED
  BY <1>1, <1>3, <1>4, TypeParts DEF RunByHand, gateVars, Typed

\* A step of one process to a place it may go to.
LEMMA MoveType ==
    ASSUME Typed, NEW p \in Proc, NEW there, Go(p, there), UNCHANGED todo,
           MayGo(p, there), at' \in [Proc -> Places] => Shapes',
           publishing' = IF at[p] \in Counted
                THEN IF there \in Counted THEN publishing ELSE publishing - 1
                ELSE IF there \in Counted THEN publishing + 1 ELSE publishing
    PROVE  Typed'
BY GoStep, TypeParts DEF Typed

\* A step of a thread to its next task.
LEMMA NextType ==
    ASSUME Typed, NEW p \in Thread, NextTask(p), UNCHANGED publishing,
           at[p] \in {"claim", "unclaim"} \/ (at[p] = "close" /\ Task1(p) = Center),
           at' \in [Proc -> Places] => Shapes'
    PROVE  Typed'
<1>1. /\ at' \in [Proc -> Places]
      /\ Kinds' /\ Tasks'
  BY NextTaskTasks
<1>2. p \in Proc /\ at[p] \notin Counted
  BY DEF Proc, Counted
<1>3. Cardinality(Publishers') = publishing
  <2>. DEFINE there == IF Len(todo[p]) > 1 THEN "claim" ELSE "off"
  <2>1. there \notin Counted /\ at' = [at EXCEPT ![p] = there]
    BY DEF NextTask, Go, Counted
  <2>. HIDE DEF there
  <2>. QED
    BY <1>2, <2>1, CountStep DEF Typed
<1>. QED
  BY <1>1, <1>3, TypeParts DEF Typed

\* The steps of a thread with its tasks.
LEMMA TasksType ==
    ASSUME Typed, NEW p \in Thread,
           Claim(p) \/ Unclaim(p) \/ Mark(p) \/ CloseBatch(p)
    PROVE  Typed'
<1>1. /\ p \in Proc /\ Shapes /\ at[p] \in ThreadPlaces
      /\ p \notin Clear /\ p \notin Deleter /\ p # Ticker
  BY TypeParts, MaintenanceAssumption DEF Proc, Typed, Kinds
<1>2. at[p] # "off" => todo[p] # <<>> /\ todo[p] \in Seq(Task \cup {Center})
  BY DEF Typed, Tasks, TypeOK
<1>3. at[p] \in Scheduled => todo[p] \in Seq(Task) /\ Task1(p) \in Task
  BY <1>2 DEF Typed, Tasks, Scheduled, Task1
<1>4. at[p] = "close" /\ Task1(p) # Center => todo[p] \in Seq(Task)
  BY <1>2 DEF Typed, Tasks, Task1
<1>5. CASE Claim(p)
  <2>1. CASE Task1(p) \in claimed
    <3>1. at' \in [Proc -> Places] => Shapes'
      <4>1. todo' \in [Thread -> Seq(Task \cup {Center})]
        BY <1>5, <2>1, NextTaskTasks DEF Claim
      <4>2. /\ at[p] \notin InGate
            /\ \A q \in Proc : q # p => at'[q] = at[q]
        BY <1>1, <1>5, <2>1 DEF Claim, NextTask, Go, Shapes
      <4>3. UNCHANGED <<cronVars, taskVars, gateVars, publisher, batches,
                        idle, calls>>
        BY <1>5, <2>1 DEF Claim, taskVars
      <4>. QED
        BY <1>1, <4>1, <4>2, <4>3 DEF Shapes, cronVars, taskVars, gateVars
    <3>. QED
      BY <1>5, <2>1, <3>1, NextType DEF Claim, gateVars
  <2>2. CASE Task1(p) \notin claimed
    <3>. DEFINE there == IF Task1(p) \in Job THEN "mark" ELSE "look"
    <3>1. MayGo(p, there)
      <4>1. there \in {"mark", "look"} /\ (there = "mark" => Task1(p) \in Job)
        OBVIOUS
      <4>2. todo[p] \in Seq(Task) /\ at[p] # "off"
        BY <1>3, <1>5 DEF Claim, Scheduled
      <4>. HIDE DEF there
      <4>. QED
        BY <1>1, <4>1, <4>2 DEF MayGo, Maintains, ThreadPlaces
    <3>2. at[p] \notin Counted /\ there \notin Counted
      BY <1>5 DEF Claim, Counted
    <3>3. at' \in [Proc -> Places] => Shapes'
      <4>1. /\ at[p] \notin InGate
            /\ \A q \in Proc : q # p => at'[q] = at[q]
        BY <1>1, <1>5, <2>2 DEF Claim, Go, Shapes
      <4>2. /\ claimed' = claimed \cup {Task1(p)} /\ Task1(p) \in Task
            /\ UNCHANGED <<cronVars, marked, ran, gateVars, publisher, batches,
                           todo, idle, calls>>
        BY <1>3, <1>5, <2>2 DEF Claim, Scheduled
      <4>3. claimed' \subseteq Task
        BY <1>1, <4>2 DEF Shapes
      <4>4. UNCHANGED <<cronVars, marked, ran, gateVars, publisher, batches,
                        todo, idle, calls>>
        BY <4>2
      <4>. HIDE DEF there
      <4>. QED
        BY <1>1, <4>1, <4>3, <4>4 DEF Shapes, cronVars, gateVars
    <3>4. Go(p, there) /\ UNCHANGED <<todo, publishing>>
      BY <1>5, <2>2 DEF Claim, gateVars
    <3>. HIDE DEF there
    <3>. QED
      BY <1>1, <3>1, <3>2, <3>3, <3>4, MoveType
  <2>. QED
    BY <2>1, <2>2
<1>6. CASE Unclaim(p)
  <2>1. todo' \in [Thread -> Seq(Task \cup {Center})]
    BY <1>6, NextTaskTasks DEF Unclaim
  <2>2. at' \in [Proc -> Places] => Shapes'
    <3>1. /\ at[p] \notin InGate
          /\ \A q \in Proc : q # p => at'[q] = at[q]
      BY <1>1, <1>6 DEF Unclaim, NextTask, Go, Shapes
    <3>2. /\ UNCHANGED <<cronVars, ran, gateVars, publisher, batches, idle,
                         calls>>
          /\ claimed' \subseteq claimed /\ marked' \subseteq marked
      BY <1>6 DEF Unclaim
    <3>. QED
      BY <1>1, <2>1, <3>1, <3>2 DEF Shapes, cronVars, gateVars
  <2>. QED
    BY <1>6, <2>2, NextType DEF Unclaim, gateVars
<1>7. CASE Mark(p)
  <2>1. Task1(p) \in Job
    BY <1>7 DEF Mark, Typed, Tasks, Maintains
  <2>2. MayGo(p, "gate")
    BY <1>1, <1>3, <1>7, <2>1 DEF Mark, MayGo, Scheduled, ThreadPlaces
  <2>3. at' \in [Proc -> Places] => Shapes'
    BY <1>1, <1>7, <2>1 DEF Mark, Go, Shapes, cronVars, gateVars
  <2>. QED
    BY <1>1, <1>7, <2>2, <2>3, MoveType DEF Mark, Counted, gateVars
<1>8. CASE CloseBatch(p)
  <2>1. CASE Task1(p) = Center
    <3>1. todo' \in [Thread -> Seq(Task \cup {Center})]
      BY <1>8, <2>1, NextTaskTasks DEF CloseBatch
    <3>2. at' \in [Proc -> Places] => Shapes'
      <4>1. /\ at[p] \notin InGate
            /\ \A q \in Proc : q # p => at'[q] = at[q]
        BY <1>1, <1>8, <2>1 DEF CloseBatch, NextTask, Go, Shapes
      <4>2. /\ UNCHANGED <<cronVars, taskVars, gateVars, publisher, idle,
                           calls>>
            /\ batches' \subseteq batches
        BY <1>8 DEF CloseBatch
      <4>. QED
        BY <1>1, <3>1, <4>1, <4>2 DEF Shapes, cronVars, taskVars, gateVars
    <3>. QED
      BY <1>8, <2>1, <3>2, NextType DEF CloseBatch, gateVars
  <2>2. CASE Task1(p) # Center
    <3>1. MayGo(p, "unclaim")
      BY <1>1, <1>4, <1>8, <2>2 DEF CloseBatch, MayGo, Scheduled, Maintains, ThreadPlaces
    <3>2. at' \in [Proc -> Places] => Shapes'
      BY <1>1, <1>8, <2>2 DEF CloseBatch, Go, Shapes, cronVars, taskVars, gateVars
    <3>. QED
      BY <1>1, <1>8, <2>2, <3>1, <3>2, MoveType DEF CloseBatch, Counted, gateVars
  <2>. QED
    BY <2>1, <2>2
<1>. QED
  BY <1>5, <1>6, <1>7, <1>8

\* The steps of a thread before the gate of a maintenance, and in it.
LEMMA GateType ==
    ASSUME Typed, NEW p \in Thread,
           BeginMaintenance(p) \/ LookIdle(p) \/ LookBatches(p) \/ GiveUp(p)
    PROVE  Typed'
<1>1. /\ p \in Proc /\ Shapes /\ at[p] \in ThreadPlaces
      /\ p \notin Clear /\ p \notin Deleter /\ p # Ticker
  BY TypeParts, MaintenanceAssumption DEF Proc, Typed, Kinds
<1>2. /\ at[p] \in Scheduled => todo[p] \in Seq(Task)
      /\ at[p] \in Maintains => Task1(p) \in Job
      /\ \A there \in {"unclaim", "quiet", "publish", "endDrain"} :
            there \in ThreadPlaces
  BY DEF Typed, Tasks, Scheduled, Maintains, ThreadPlaces
<1>3. ASSUME NEW there \in {"quiet", "unclaim"},
             BeginMaintenance(p), there = IF draining THEN "unclaim" ELSE "quiet"
      PROVE  Typed'
  <2>1. MayGo(p, there)
    BY <1>1, <1>2, <1>3 DEF BeginMaintenance, MayGo, Scheduled, Maintains
  <2>2. at' \in [Proc -> Places] => Shapes'
    BY <1>1, <1>3 DEF BeginMaintenance, Go, Shapes, cronVars, taskVars
  <2>. QED
    BY <1>1, <1>3, <2>1, <2>2, MoveType DEF BeginMaintenance, Counted
<1>4. CASE LookIdle(p)
  <2>1. Shapes' /\ UNCHANGED <<at, todo, publishing>>
    BY <1>1, <1>4 DEF LookIdle, Shapes, cronVars, taskVars, gateVars
  <2>. QED
    BY <2>1, StayStep, TypeParts DEF Typed
<1>5. ASSUME NEW there \in {"quiet", "publish"},
             LookBatches(p), there = IF batches = {} THEN "publish" ELSE "quiet"
      PROVE  Typed'
  <2>1. MayGo(p, there)
    BY <1>1, <1>2, <1>5 DEF LookBatches, MayGo, Scheduled, Maintains
  <2>2. at' \in [Proc -> Places] => Shapes'
    BY <1>1, <1>5 DEF LookBatches, Go, Shapes, cronVars, taskVars, gateVars
  <2>. QED
    BY <1>1, <1>5, <2>1, <2>2, MoveType DEF LookBatches, Counted, gateVars
<1>6. CASE GiveUp(p)
  <2>1. MayGo(p, "endDrain")
    BY <1>1, <1>2, <1>6 DEF GiveUp, MayGo, Scheduled, Maintains
  <2>2. at' \in [Proc -> Places] => Shapes'
    BY <1>1, <1>6 DEF GiveUp, Go, Shapes, cronVars, taskVars, gateVars
  <2>. QED
    BY <1>1, <1>6, <2>1, <2>2, MoveType DEF GiveUp, Counted, gateVars
<1>. QED
  BY <1>3, <1>4, <1>5, <1>6

\* The steps of a thread in a batch.
LEMMA BatchType ==
    ASSUME Typed, NEW p \in Thread,
           \/ LookBeforeCollect(p) \/ OpenBatch(p)
           \/ \E s \in Source : BeginSource(p, s) \/ Refused(p, s)
           \/ CollectsNothing(p) \/ NothingToSettle(p)
    PROVE  Typed'
<1>1. /\ p \in Proc /\ Shapes /\ at[p] \in ThreadPlaces
      /\ p \notin Clear /\ p \notin Deleter /\ p # Ticker
  BY TypeParts, MaintenanceAssumption DEF Proc, Typed, Kinds
<1>2. /\ at[p] \in Scheduled => todo[p] \in Seq(Task)
      /\ \A there \in {"unclaim", "open", "enter", "collect", "turned",
                        "endSource", "close"} :
            there \in ThreadPlaces
  BY DEF Typed, Tasks, Scheduled, ThreadPlaces
<1>3. ASSUME NEW there \in {"unclaim", "open"}, LookBeforeCollect(p),
             there = IF MaintenanceRunning THEN "unclaim" ELSE "open"
      PROVE  Typed'
  <2>1. MayGo(p, there)
    BY <1>1, <1>2, <1>3 DEF LookBeforeCollect, MayGo, Scheduled, Maintains
  <2>2. at' \in [Proc -> Places] => Shapes'
    BY <1>1, <1>3 DEF LookBeforeCollect, Go, Shapes, cronVars, taskVars, gateVars
  <2>. QED
    BY <1>1, <1>3, <2>1, <2>2, MoveType DEF LookBeforeCollect, Counted, gateVars
<1>4. CASE OpenBatch(p)
  <2>1. MayGo(p, "enter")
    BY <1>1, <1>2, <1>4 DEF OpenBatch, MayGo, Scheduled, Maintains
  <2>2. at' \in [Proc -> Places] => Shapes'
    BY <1>1, <1>4 DEF OpenBatch, Go, Shapes, cronVars, taskVars, gateVars
  <2>. QED
    BY <1>1, <1>4, <2>1, <2>2, MoveType DEF OpenBatch, Counted, gateVars
<1>5. ASSUME NEW s \in Source, BeginSource(p, s)
      PROVE  Typed'
  <2>1. MayGo(p, "collect")
    BY <1>1, <1>2, <1>5 DEF BeginSource, MayGo, Scheduled, Maintains
  <2>2. at' \in [Proc -> Places] => Shapes'
    <3>1. ran' \in [Task -> Nat]
      <4>1. ran \in [Task -> Nat] /\ AutoTask \in Task
        BY <1>1 DEF Shapes, Task
      <4>2. [ran EXCEPT ![AutoTask] = @ + 1] \in [Task -> Nat]
        BY <4>1
      <4>. QED
        BY <1>5, <4>1, <4>2 DEF BeginSource
    <3>2. active' \in [Source -> Proc \cup {Nobody}]
      BY <1>1, <1>5 DEF BeginSource, Shapes
    <3>. QED
      <4>1. /\ active[s] = Nobody /\ at' = [at EXCEPT ![p] = "collect"]
            /\ active' = [active EXCEPT ![s] = p]
        BY <1>5 DEF BeginSource, Go
      <4>2. \A x \in Source : active'[x] # Nobody => at'[active'[x]] \in InGate
        BY <1>1, <4>1, <3>2 DEF Shapes
      <4>3. UNCHANGED <<cronVars, claimed, marked, draining, publishing,
                        publisher, batches, todo, idle, calls>>
        BY <1>5 DEF BeginSource
      <4>. QED
        BY <1>1, <3>1, <3>2, <4>2, <4>3 DEF Shapes, cronVars
  <2>. QED
    BY <1>1, <1>5, <2>1, <2>2, MoveType DEF BeginSource, Counted
<1>6. ASSUME NEW s \in Source, Refused(p, s)
      PROVE  Typed'
  <2>1. MayGo(p, "turned")
    BY <1>1, <1>2, <1>6 DEF Refused, MayGo, Scheduled, Maintains
  <2>2. at' \in [Proc -> Places] => Shapes'
    BY <1>1, <1>6 DEF Refused, Go, Shapes, cronVars, taskVars, gateVars
  <2>. QED
    BY <1>1, <1>6, <2>1, <2>2, MoveType DEF Refused, Counted, gateVars
<1>7. CASE CollectsNothing(p)
  <2>1. MayGo(p, "endSource")
    BY <1>1, <1>2, <1>7 DEF CollectsNothing, MayGo, Scheduled, Maintains
  <2>2. at' \in [Proc -> Places] => Shapes'
    BY <1>1, <1>7 DEF CollectsNothing, Go, Shapes, cronVars, taskVars, gateVars
  <2>. QED
    BY <1>1, <1>7, <2>1, <2>2, MoveType DEF CollectsNothing, Counted, gateVars
<1>8. CASE NothingToSettle(p)
  <2>1. MayGo(p, "close")
    BY <1>1, <1>2, <1>8 DEF NothingToSettle, MayGo, Scheduled, Maintains
  <2>2. at' \in [Proc -> Places] => Shapes'
    BY <1>1, <1>8 DEF NothingToSettle, Go, Shapes, cronVars, taskVars, gateVars
  <2>. QED
    BY <1>1, <1>8, <2>1, <2>2, MoveType DEF NothingToSettle, Counted, gateVars
<1>. QED
  BY <1>3, <1>4, <1>5, <1>6, <1>7, <1>8

\* The steps of a clear.
LEMMA DrainsType ==
    ASSUME Typed, NEW z \in Clear, Drains(z)
    PROVE  Typed'
<1>1. /\ z \in Proc /\ Shapes /\ at[z] \in ClearPlaces
      /\ z \notin Thread /\ z \notin Deleter /\ z # Ticker
  BY TypeParts, MaintenanceAssumption DEF Proc, Typed, Kinds
<1>2. {"drained", "publish", "off"} \subseteq ClearPlaces
  BY DEF ClearPlaces
<1>3. CASE Drain(z)
  <2>1. MayGo(z, "drained")
    BY <1>1, <1>2 DEF MayGo
  <2>2. at' \in [Proc -> Places] => Shapes'
    BY <1>1, <1>3, MaintenanceAssumption DEF Drain, MayCall, Go, Shapes, cronVars, taskVars
  <2>. QED
    BY <1>1, <1>3, <2>1, <2>2, MoveType DEF Drain, Counted
<1>4. CASE DrainQuiet(z)
  <2>1. MayGo(z, "publish")
    BY <1>1, <1>2 DEF MayGo
  <2>2. at' \in [Proc -> Places] => Shapes'
    BY <1>1, <1>4 DEF DrainQuiet, Go, Shapes, cronVars, taskVars, gateVars
  <2>. QED
    BY <1>1, <1>4, <2>1, <2>2, MoveType DEF DrainQuiet, Counted, gateVars
<1>5. CASE DrainTimeout(z)
  <2>1. MayGo(z, "off")
    BY <1>1, <1>2 DEF MayGo
  <2>2. at' \in [Proc -> Places] => Shapes'
    BY <1>1, <1>5, MaintenanceAssumption DEF DrainTimeout, MayCall, Go, Shapes, cronVars, taskVars
  <2>. QED
    BY <1>1, <1>5, <2>1, <2>2, MoveType DEF DrainTimeout, Counted
<1>. QED
  BY <1>3, <1>4, <1>5 DEF Drains

\* A deletion occupies its source; a tick begins to publish.
LEMMA OccupyType ==
    ASSUME Typed, NEW d \in Deleter, NEW s \in Source, OccupyForDelete(d, s)
    PROVE  Typed'
<1>1. /\ d \in Proc /\ Shapes /\ at[d] \in DeleterPlaces
      /\ d \notin Thread /\ d \notin Clear /\ d # Ticker
  BY TypeParts, MaintenanceAssumption DEF Proc, Typed, Kinds
<1>2. MayGo(d, "deleting")
  BY <1>1 DEF MayGo, DeleterPlaces
<1>3. at' \in [Proc -> Places] => Shapes'
  <2>1. /\ active[s] = Nobody /\ at' = [at EXCEPT ![d] = "deleting"]
        /\ active' = [active EXCEPT ![s] = d]
    BY DEF OccupyForDelete, Go
  <2>2. active' \in [Source -> Proc \cup {Nobody}]
    BY <1>1, <2>1 DEF Shapes
  <2>3. \A x \in Source : active'[x] # Nobody => at'[active'[x]] \in InGate
    BY <1>1, <2>1, <2>2 DEF Shapes
  <2>. QED
    BY <1>1, <2>2, <2>3, MaintenanceAssumption
    DEF OccupyForDelete, MayCall, Shapes, cronVars, taskVars
<1>. QED
  BY <1>1, <1>2, <1>3, MoveType DEF OccupyForDelete, Counted

LEMMA TickType ==
    ASSUME Typed, Tick
    PROVE  Typed'
<1>1. Ticker \in Proc /\ Shapes /\ MayGo(Ticker, "finishLock")
  BY TypeParts, MaintenanceAssumption DEF Proc, Typed, MayGo, TickerPlaces
<1>2. at' \in [Proc -> Places] => Shapes'
  BY <1>1 DEF Tick, BeginPublish, Go, Shapes, cronVars, taskVars
<1>. QED
  BY <1>1, <1>2, MoveType DEF Tick, BeginPublish, Counted

\* The steps of whoever publishes, cleans, or leaves the gate.
LEMMA PublishType ==
    ASSUME Typed, NEW p \in Proc, Publishes(p)
    PROVE  Typed'
<1>1. Shapes /\ publishing = Cardinality(Publishers)
  BY TypeParts DEF Typed
<1>2. /\ p \in Thread => at[p] \in ThreadPlaces
      /\ p \in Clear => at[p] \in ClearPlaces
      /\ p \in Deleter => at[p] \in DeleterPlaces
      /\ p = Ticker => at[p] \in TickerPlaces
      /\ p \in Thread /\ at[p] # "off" =>
           /\ at[p] \in Scheduled => todo[p] \in Seq(Task)
           /\ at[p] \in Maintains => Task1(p) \in Job
  BY DEF Typed, Kinds, Tasks
<1>3. p \in Thread \/ p \in Clear \/ p \in Deleter \/ p = Ticker
  BY DEF Proc
<1>4. /\ p \in Thread => p \notin Clear /\ p \notin Deleter /\ p # Ticker
      /\ p \in Clear => p \notin Deleter /\ p # Ticker
      /\ p \in Deleter => p # Ticker
  BY MaintenanceAssumption
<1>5. at[p] \in Counted => publishing - 1 \in Nat
  <2>. SUFFICES ASSUME at[p] \in Counted
                PROVE  publishing - 1 \in Nat
    OBVIOUS
  <2>1. p \in Publishers /\ IsFiniteSet(Publishers)
    BY ProcsFinite, FS_Subset DEF Publishers
  <2>2. Cardinality(Publishers) # 0 /\ Cardinality(Publishers) \in Nat
    BY <2>1, FS_CardinalityType, FS_EmptySet
  <2>. QED
    BY <1>1, <2>2
<1>6. ASSUME NEW from, NEW to, BeginPublish(p, from, to), EnterPublish(p),
             \/ from = "publish" /\ to = "lock"
             \/ p \in Thread /\ from = "collect" /\ to = "sealLock"
             \/ p \in Thread /\ from \in {"settle", "turned"} /\ to = "finishLock"
      PROVE  Typed'
  <2>1. MayGo(p, to)
    BY <1>2, <1>3, <1>4, <1>6 DEF BeginPublish, MayGo, ThreadPlaces,
       ClearPlaces, DeleterPlaces, TickerPlaces, Scheduled, Maintains
  <2>2. at' \in [Proc -> Places] => Shapes'
    BY <1>1, <1>6 DEF BeginPublish, EnterPublish, Go, Shapes, cronVars, taskVars
  <2>. QED
    BY <1>6, <2>1, <2>2, MoveType DEF BeginPublish, EnterPublish, Counted
<1>7. CASE EnterPublish(p)
  BY <1>6, <1>7 DEF EnterPublish
<1>8. CASE StartCleaning(p)
  <2>1. MayGo(p, "clean")
    BY <1>2, <1>3, <1>4, <1>8 DEF StartCleaning, Lock, MayGo, ThreadPlaces,
       ClearPlaces, DeleterPlaces, TickerPlaces, Scheduled, Maintains
  <2>2. at' \in [Proc -> Places] => Shapes'
    <3>1. ran' \in [Task -> Nat]
      <4>1. CASE p \in Thread
        <5>1. Task1(p) \in Task /\ ran \in [Task -> Nat]
          BY <1>1, <1>2, <1>8, <4>1 DEF StartCleaning, Lock, Maintains, Task, Shapes
        <5>. QED
          BY <1>8, <4>1, <5>1 DEF StartCleaning
      <4>2. CASE p \notin Thread
        BY <1>1, <1>8, <4>2 DEF StartCleaning, Shapes
      <4>. QED
        BY <4>1, <4>2
    <3>. QED
      BY <1>1, <1>8, <3>1 DEF StartCleaning, Lock, Go, Shapes, cronVars, gateVars
  <2>. QED
    BY <1>8, <2>1, <2>2, MoveType DEF StartCleaning, Lock, Counted, gateVars
<1>9. ASSUME NEW from, NEW to, Lock(p, from, to), StartPublishing(p),
             \/ from = "sealLock" /\ to = "seal"
             \/ from = "finishLock" /\ to = "finish"
      PROVE  Typed'
  <2>1. MayGo(p, to)
    BY <1>2, <1>3, <1>4, <1>9 DEF Lock, MayGo, ThreadPlaces,
       ClearPlaces, DeleterPlaces, TickerPlaces, Scheduled, Maintains
  <2>2. at' \in [Proc -> Places] => Shapes'
    BY <1>1, <1>9 DEF Lock, StartPublishing, Go, Shapes, cronVars, taskVars, gateVars
  <2>. QED
    BY <1>9, <2>1, <2>2, MoveType DEF Lock, StartPublishing, Counted, gateVars
<1>10. CASE StartPublishing(p)
  BY <1>9, <1>10 DEF StartPublishing
<1>11. ASSUME NEW from, NEW to, Unlock(p, from, to), Published(p),
              \/ from = "clean" /\ to = "endDrain"
              \/ from = "seal" /\ to = "endSource"
              \/ from = "finish" /\ to = (IF p = Ticker THEN "new" ELSE "close")
       PROVE  Typed'
  <2>1. MayGo(p, to)
    BY <1>2, <1>3, <1>4, <1>11 DEF Unlock, MayGo, ThreadPlaces,
       ClearPlaces, DeleterPlaces, TickerPlaces, Scheduled, Maintains
  <2>2. at' \in [Proc -> Places] => Shapes'
    BY <1>1, <1>5, <1>11 DEF Unlock, Published, Go, Shapes, Counted, cronVars, taskVars
  <2>. QED
    BY <1>11, <2>1, <2>2, MoveType DEF Unlock, Published, Counted
<1>12. CASE Published(p)
  BY <1>11, <1>12 DEF Published
<1>13. ASSUME NEW to, EndDrain(p), to = IF p \in Thread THEN "unclaim" ELSE "off"
       PROVE  Typed'
  <2>1. MayGo(p, to)
    BY <1>2, <1>3, <1>4, <1>13 DEF EndDrain, MayGo, ThreadPlaces,
       ClearPlaces, DeleterPlaces, TickerPlaces, Scheduled, Maintains
  <2>2. at' \in [Proc -> Places] => Shapes'
    BY <1>1, <1>13 DEF EndDrain, Go, Shapes, cronVars, taskVars
  <2>. QED
    BY <1>13, <2>1, <2>2, MoveType DEF EndDrain, Counted
<1>14. ASSUME NEW to, EndSource(p), to = IF p \in Thread THEN "settle" ELSE "off"
       PROVE  Typed'
  <2>1. MayGo(p, to)
    BY <1>2, <1>3, <1>4, <1>14 DEF EndSource, MayGo, ThreadPlaces,
       ClearPlaces, DeleterPlaces, TickerPlaces, Scheduled, Maintains
  <2>2. at' \in [Proc -> Places] => Shapes'
    <3>1. active' = [s \in Source |-> IF active[s] = p THEN Nobody ELSE active[s]]
          /\ at' = [at EXCEPT ![p] = to]
      BY <1>14 DEF EndSource, Go
    <3>2. active' \in [Source -> Proc \cup {Nobody}]
      BY <1>1, <3>1 DEF Shapes
    <3>3. \A s \in Source : active'[s] # Nobody => at'[active'[s]] \in InGate
      BY <1>1, <3>1, <3>2 DEF Shapes
    <3>. QED
      BY <1>1, <1>14, <3>2, <3>3 DEF EndSource, Shapes, cronVars, taskVars
  <2>. QED
    BY <1>14, <2>1, <2>2, MoveType DEF EndSource, Counted
<1>15. EndDrain(p) \/ EndSource(p) => Typed'
  BY <1>13, <1>14
<1>. QED
  BY <1>7, <1>8, <1>10, <1>12, <1>15 DEF Publishes

LEMMA RunsType ==
    ASSUME Typed, NEW p \in Thread, Runs(p)
    PROVE  Typed'
BY TasksType, GateType, BatchType DEF Runs

LEMMA TypedInit == Init => Typed
<1>. SUFFICES ASSUME Init
              PROVE  Typed
  OBVIOUS
<1>1. Publishers = {}
  BY DEF Init, Publishers, Counted
<1>2. Shapes /\ publishing = 0
  <2>1. pending \in Seq(Task) /\ todo \in [Thread -> Seq(Task \cup {Center})]
    BY DEF Init
  <2>2. at \in [Proc -> Places] /\ ran \in [Task -> Nat]
        /\ active \in [Source -> Proc \cup {Nobody}]
        /\ \A s \in Source : active[s] = Nobody
    BY DEF Init
  <2>3. fires \in 0 .. MaxFires /\ calls \in 0 .. MaxCalls
    BY MaintenanceAssumption DEF Init
  <2>. QED
    BY <2>1, <2>2, <2>3 DEF Init, Shapes
<1>3. Kinds /\ Tasks
  BY MaintenanceAssumption DEF Init, Kinds, Tasks, Proc, ThreadPlaces,
     ClearPlaces, DeleterPlaces, TickerPlaces
<1>. QED
  BY <1>1, <1>2, <1>3, TypeParts, FS_EmptySet DEF Typed

LEMMA TypedStep == Typed /\ [Next]_vars => Typed'
<1>. SUFFICES ASSUME Typed, [Next]_vars
              PROVE  Typed'
  OBVIOUS
<1>1. CASE (\E t \in Task : Enqueue(t)) \/ Send \/ Wake
  BY <1>1, ClockType
<1>2. CASE Flush
  BY <1>2, FlushType
<1>3. CASE Tick
  BY <1>3, TickType
<1>4. CASE \E p \in Thread : Runs(p) \/ \E t \in Task \cup {Center} : RunByHand(p, t)
  BY <1>4, RunsType, HandType
<1>5. CASE \E z \in Clear : Drains(z)
  BY <1>5, DrainsType
<1>6. CASE \E p \in Proc : Publishes(p)
  BY <1>6, PublishType
<1>7. CASE \E d \in Deleter, s \in Source : OccupyForDelete(d, s)
  BY <1>7, OccupyType
<1>8. CASE UNCHANGED vars
  <2>1. Shapes /\ publishing = Cardinality(Publishers)
    BY TypeParts DEF Typed
  <2>2. Shapes'
    BY <1>8, <2>1 DEF vars, cronVars, taskVars, gateVars, Shapes
  <2>. QED
    BY <1>8, <2>1, <2>2, StayStep, TypeParts DEF vars, gateVars, Typed
<1>. QED
  BY <1>1, <1>2, <1>3, <1>4, <1>5, <1>6, <1>7, <1>8 DEF Next, Loops

\* The gate, the queue and the tasks keep their types; the count of those who
\* publish is theirs; each goroutine is at a place of its kind and each thread
\* at a task that belongs there.
THEOREM TypedHolds == Spec => []Typed
BY TypedInit, TypedStep, PTL DEF Spec

THEOREM TypeCorrect == Spec => []TypeOK
<1>1. Typed => TypeOK
  BY DEF Typed
<1>. QED
  BY <1>1, TypedHolds, PTL

-----------------------------------------------------------------------------
(* Every step keeps what the gate excludes.                                 *)

\* A step of one process disturbs none of what it leaves alone.
LEMMA Frames ==
    ASSUME Typed, GateInv, NEW p \in Proc, NEW there, Go(p, there)
    PROVE  /\ UNCHANGED draining /\ (at[p] \in Holding <=> there \in Holding)
                => OneHolder'
           /\ UNCHANGED publisher /\ (at[p] \in Exclusive <=> there \in Exclusive)
                => Mutex'
           /\ UNCHANGED active /\ (there \in InGate => at[p] \in InGate)
                => Entered'
           /\ UNCHANGED <<active, idle>> /\ p \notin idle
              /\ (there \in Cleaning => at[p] \in Cleaning)
                => Quiet'
           /\ UNCHANGED batches /\ (there \in InBatch => at[p] \in InBatch)
                => Open'
           /\ (there \in Cleaning => at[p] \in Cleaning) /\ there # "settle"
                => Behind'
<1>1. \A q \in Proc : at'[q] = IF q = p THEN there ELSE at[q]
  BY DEF Go, Typed, TypeOK
<1>2. UNCHANGED draining /\ (at[p] \in Holding <=> there \in Holding)
        => OneHolder'
  BY <1>1 DEF GateInv, OneHolder
<1>3. UNCHANGED publisher /\ (at[p] \in Exclusive <=> there \in Exclusive)
        => Mutex'
  BY <1>1 DEF GateInv, Mutex
<1>4. UNCHANGED active /\ (there \in InGate => at[p] \in InGate)
        => Entered'
  BY <1>1 DEF GateInv, Entered
<1>5. UNCHANGED <<active, idle>> /\ p \notin idle
      /\ (there \in Cleaning => at[p] \in Cleaning)
        => Quiet'
  <2>1. idle \subseteq Proc
    BY DEF Typed, TypeOK, Proc
  <2>. QED
    BY <1>1, <2>1 DEF GateInv, Quiet, Idle
<1>6. UNCHANGED batches /\ (there \in InBatch => at[p] \in InBatch)
        => Open'
  BY <1>1 DEF GateInv, Open, Proc
<1>7. (there \in Cleaning => at[p] \in Cleaning) /\ there # "settle"
        => Behind'
  BY <1>1 DEF GateInv, Behind, Proc
<1>. QED
  BY <1>2, <1>3, <1>4, <1>5, <1>6, <1>7

\* The steps of the clock, of the loop and of a thread with its tasks.
LEMMA TasksGate ==
    ASSUME Typed, GateInv,
           \/ (\E t \in Task : Enqueue(t)) \/ Send \/ Loops \/ Tick
           \/ \E p \in Thread :
                \/ \E t \in Task \cup {Center} : RunByHand(p, t)
                \/ Claim(p) \/ Unclaim(p) \/ Mark(p)
                \/ LookBeforeCollect(p)
                \/ \E s \in Source : Refused(p, s)
                \/ CollectsNothing(p) \/ NothingToSettle(p)
    PROVE  GateInv'
<1>1. \A p \in Thread : p \in Proc
  BY DEF Proc
<1>2. \A p \in idle : at[p] = "quiet"
  BY DEF GateInv, Quiet
<1>3. ASSUME UNCHANGED <<at, draining, active, publisher, batches, idle>>
      PROVE  GateInv'
  BY <1>3 DEF GateInv, OneHolder, Mutex, Entered, Quiet, Idle, Open, Behind
<1>4. ASSUME NEW p \in Proc, NEW there, Go(p, there), p \notin idle,
             UNCHANGED <<draining, active, publisher, batches, idle>>,
             at[p] \in Holding <=> there \in Holding,
             at[p] \in Exclusive <=> there \in Exclusive,
             there \in InGate => at[p] \in InGate,
             there \in Cleaning => at[p] \in Cleaning,
             p \in Thread => (there \in InBatch => at[p] \in InBatch),
             there # "settle"
      PROVE  GateInv'
  <2>1. OneHolder' /\ Mutex' /\ Entered' /\ Quiet' /\ Behind'
    BY <1>4, Frames
  <2>2. Open'
    BY <1>4 DEF GateInv, Open, Go, Typed, TypeOK, Proc
  <2>. QED
    BY <2>1, <2>2 DEF GateInv
<1>5. CASE (\E t \in Task : Enqueue(t)) \/ Send \/ Wake
  BY <1>3, <1>5 DEF Enqueue, Send, Wake, gateVars
<1>6. CASE Flush
  <2>1. CASE UNCHANGED at
    BY <1>3, <1>6, <2>1 DEF Flush, gateVars
  <2>2. ASSUME NEW p \in Thread, Unused(p), Go(p, "claim")
        PROVE  GateInv'
    BY <1>1, <1>2, <1>4, <1>6, <2>2 DEF Flush, Unused, gateVars, Exclusive
  <2>. QED
    BY <1>6, <2>1, <2>2 DEF Flush
<1>7. CASE Tick
  BY <1>2, <1>4, <1>7, MaintenanceAssumption
  DEF Tick, BeginPublish, Exclusive, Proc
<1>8. ASSUME NEW p \in Thread, NEW t, RunByHand(p, t)
      PROVE  GateInv'
  <2>1. \E there \in {"open", "claim"} : Go(p, there)
    BY <1>8 DEF RunByHand
  <2>. QED
    BY <1>1, <1>2, <1>4, <1>8, <2>1 DEF RunByHand, Unused, gateVars, Exclusive
<1>9. ASSUME NEW p \in Thread, Claim(p)
      PROVE  GateInv'
  <2>1. \E there \in {"claim", "off", "mark", "look"} : Go(p, there)
    BY <1>9 DEF Claim, NextTask
  <2>. QED
    BY <1>1, <1>2, <1>4, <1>9, <2>1 DEF Claim, gateVars, Exclusive
<1>10. ASSUME NEW p \in Thread, Unclaim(p)
       PROVE  GateInv'
  <2>1. \E there \in {"claim", "off"} : Go(p, there)
    BY <1>10 DEF Unclaim, NextTask
  <2>. QED
    BY <1>1, <1>2, <1>4, <1>10, <2>1 DEF Unclaim, gateVars, Exclusive
<1>11. ASSUME NEW p \in Thread, Mark(p)
       PROVE  GateInv'
  BY <1>1, <1>2, <1>4, <1>11 DEF Mark, gateVars, Exclusive
<1>12. ASSUME NEW p \in Thread, LookBeforeCollect(p)
       PROVE  GateInv'
  <2>1. \E there \in {"unclaim", "open"} : Go(p, there)
    BY <1>12 DEF LookBeforeCollect
  <2>. QED
    BY <1>1, <1>2, <1>4, <1>12, <2>1 DEF LookBeforeCollect, gateVars, Exclusive
<1>13. ASSUME NEW p \in Thread, NEW s \in Source, Refused(p, s)
       PROVE  GateInv'
  BY <1>1, <1>2, <1>4, <1>13 DEF Refused, gateVars, Exclusive
<1>14. ASSUME NEW p \in Thread, CollectsNothing(p) \/ NothingToSettle(p)
       PROVE  GateInv'
  BY <1>1, <1>2, <1>4, <1>14
  DEF CollectsNothing, NothingToSettle, gateVars, Exclusive
<1>. QED
  BY <1>5, <1>6, <1>7, <1>8, <1>9, <1>10, <1>11, <1>12, <1>13, <1>14 DEF Loops

\* A thread at the gate of a maintenance: taken, given up, waited for, handed on.
LEMMA MaintenanceGate ==
    ASSUME Typed, GateInv, NEW p \in Thread,
           BeginMaintenance(p) \/ LookIdle(p) \/ LookBatches(p) \/ GiveUp(p)
    PROVE  GateInv'
<1>1. p \in Proc /\ \A q \in idle : at[q] = "quiet"
  BY DEF Proc, GateInv, Quiet
<1>2. at \in [Proc -> Places] /\ idle \subseteq Proc
  BY DEF Typed, TypeOK, Proc
<1>3. CASE BeginMaintenance(p)
  <2>1. PICK there \in {"unclaim", "quiet"} :
            Go(p, there) /\ there = IF draining THEN "unclaim" ELSE "quiet"
    BY <1>3 DEF BeginMaintenance
  <2>2. OneHolder'
    BY <1>1, <1>2, <1>3, <2>1 DEF BeginMaintenance, Go, GateInv, OneHolder
  <2>3. Mutex' /\ Entered' /\ Quiet' /\ Open' /\ Behind'
    BY <1>1, <1>3, <2>1, Frames DEF BeginMaintenance, Exclusive
  <2>. QED
    BY <2>2, <2>3 DEF GateInv
<1>4. CASE LookIdle(p)
  BY <1>4 DEF LookIdle, gateVars, GateInv, OneHolder, Mutex, Entered, Quiet,
     Idle, Open, Behind
<1>5. CASE LookBatches(p)
  <2>1. PICK there \in {"publish", "quiet"} :
            Go(p, there) /\ there = IF batches = {} THEN "publish" ELSE "quiet"
    BY <1>5 DEF LookBatches
  <2>2. OneHolder' /\ Mutex' /\ Entered' /\ Open'
    BY <1>1, <1>5, <2>1, Frames DEF LookBatches, gateVars, Exclusive
  <2>3. Idle
    BY <1>5 DEF LookBatches, GateInv, Quiet
  <2>4. Quiet'
    BY <1>1, <1>2, <1>5, <2>1, <2>3
    DEF LookBatches, Go, gateVars, GateInv, Quiet, Idle
  <2>5. CASE batches = {}
    <3>1. \A q \in Proc : at[q] # "settle"
      <4>1. \A q \in Thread : at[q] # "settle"
        BY <2>5 DEF GateInv, Open
      <4>. QED
        BY <4>1 DEF Typed, Kinds, Proc, ClearPlaces, DeleterPlaces, TickerPlaces
    <3>2. Behind'
      BY <1>1, <1>2, <2>1, <3>1 DEF Go, Behind
    <3>. QED
      BY <2>2, <2>4, <3>2 DEF GateInv
  <2>6. CASE batches # {}
    <3>1. Behind'
      BY <1>1, <1>5, <2>1, <2>6, Frames
    <3>. QED
      BY <2>2, <2>4, <3>1 DEF GateInv
  <2>. QED
    BY <2>5, <2>6
<1>6. CASE GiveUp(p)
  <2>1. OneHolder' /\ Mutex' /\ Entered' /\ Open' /\ Behind'
    BY <1>1, <1>6, Frames DEF GiveUp, gateVars, Exclusive
  <2>2. Quiet'
    BY <1>1, <1>2, <1>6 DEF GiveUp, Go, gateVars, GateInv, Quiet, Idle
  <2>. QED
    BY <2>1, <2>2 DEF GateInv
<1>. QED
  BY <1>3, <1>4, <1>5, <1>6

\* A clear at the gate.
LEMMA ClearGate ==
    ASSUME Typed, GateInv, NEW z \in Clear, Drains(z)
    PROVE  GateInv'
<1>1. z \in Proc /\ z \notin idle
  BY MaintenanceAssumption DEF Proc, Typed, TypeOK
<1>2. at \in [Proc -> Places] /\ idle \subseteq Proc /\ z \notin Thread
  BY MaintenanceAssumption DEF Typed, TypeOK, Proc
<1>3. CASE Drain(z)
  <2>1. OneHolder'
    BY <1>1, <1>2, <1>3 DEF Drain, Go, GateInv, OneHolder
  <2>2. Mutex' /\ Entered' /\ Quiet' /\ Open' /\ Behind'
    <3>1. /\ Go(z, "drained") /\ at[z] = "new" /\ "drained" \notin Exclusive
          /\ UNCHANGED <<active, publisher, batches, idle>>
      BY <1>3 DEF Drain, Exclusive
    <3>2. at[z] \notin Exclusive
      BY <3>1 DEF Exclusive
    <3>. QED
      BY <1>1, <3>1, <3>2, Frames
  <2>. QED
    BY <2>1, <2>2 DEF GateInv
<1>4. CASE DrainQuiet(z)
  <2>1. OneHolder' /\ Mutex' /\ Entered' /\ Open'
    BY <1>1, <1>4, Frames DEF DrainQuiet, gateVars, Exclusive
  <2>2. Quiet'
    BY <1>1, <1>2, <1>4 DEF DrainQuiet, Go, gateVars, GateInv, Quiet, Idle
  <2>3. Behind'
    BY <1>1, <1>2, <1>4 DEF DrainQuiet, Go, GateInv, Behind, Proc
  <2>. QED
    BY <2>1, <2>2, <2>3 DEF GateInv
<1>5. CASE DrainTimeout(z)
  <2>1. OneHolder'
    BY <1>1, <1>2, <1>5 DEF DrainTimeout, Go, GateInv, OneHolder
  <2>2. Mutex' /\ Entered' /\ Quiet' /\ Open' /\ Behind'
    BY <1>1, <1>5, Frames DEF DrainTimeout, Exclusive
  <2>. QED
    BY <2>1, <2>2 DEF GateInv
<1>. QED
  BY <1>3, <1>4, <1>5 DEF Drains

\* A batch opens, enters the gate, and closes; a deletion enters.
LEMMA BatchGate ==
    ASSUME Typed, GateInv, NEW p \in Thread,
           OpenBatch(p) \/ CloseBatch(p) \/ \E s \in Source : BeginSource(p, s)
    PROVE  GateInv'
<1>1. p \in Proc /\ \A q \in idle : at[q] = "quiet"
  BY DEF Proc, GateInv, Quiet
<1>2. at \in [Proc -> Places] /\ idle \subseteq Proc
  BY DEF Typed, TypeOK, Proc
<1>3. CASE OpenBatch(p)
  <2>1. OneHolder' /\ Mutex' /\ Entered' /\ Quiet' /\ Behind'
    BY <1>1, <1>3, Frames DEF OpenBatch, gateVars, Exclusive
  <2>2. Open'
    BY <1>1, <1>2, <1>3 DEF OpenBatch, Go, GateInv, Open, Proc
  <2>. QED
    BY <2>1, <2>2 DEF GateInv
<1>4. CASE CloseBatch(p)
  <2>1. PICK there \in {"claim", "off", "unclaim"} : Go(p, there)
    BY <1>4 DEF CloseBatch, NextTask
  <2>2. OneHolder' /\ Mutex' /\ Entered' /\ Quiet' /\ Behind'
    BY <1>1, <1>4, <2>1, Frames DEF CloseBatch, gateVars, Exclusive
  <2>3. Open'
    BY <1>1, <1>2, <1>4, <2>1 DEF CloseBatch, Go, GateInv, Open, Proc
  <2>. QED
    BY <2>2, <2>3 DEF GateInv
<1>5. ASSUME NEW s \in Source, BeginSource(p, s)
      PROVE  GateInv'
  <2>1. OneHolder' /\ Mutex' /\ Open' /\ Behind'
    BY <1>1, <1>5, Frames DEF BeginSource, Exclusive
  <2>2. /\ active' = [active EXCEPT ![s] = p] /\ active[s] = Nobody
        /\ active \in [Source -> Proc \cup {Nobody}]
        /\ at' = [at EXCEPT ![p] = "collect"]
    BY <1>5 DEF BeginSource, Go, Typed, TypeOK
  <2>3. Nobody \notin Proc
    BY MaintenanceAssumption DEF Proc
  <2>4. Entered'
    BY <1>1, <1>2, <2>2, <2>3 DEF GateInv, Entered
  <2>5. \A q \in Proc : at[q] \notin Holding
    BY <1>5 DEF BeginSource, GateInv, OneHolder
  <2>6. Quiet'
    BY <1>1, <1>2, <1>5, <2>2, <2>5 DEF BeginSource, Quiet
  <2>. QED
    BY <2>1, <2>4, <2>6 DEF GateInv
<1>. QED
  BY <1>3, <1>4, <1>5

LEMMA OccupyGate ==
    ASSUME Typed, GateInv, NEW d \in Deleter, NEW s \in Source,
           OccupyForDelete(d, s)
    PROVE  GateInv'
<1>1. d \in Proc /\ d \notin Thread /\ \A q \in idle : at[q] = "quiet"
  BY MaintenanceAssumption DEF Proc, GateInv, Quiet
<1>2. at \in [Proc -> Places] /\ idle \subseteq Proc
  BY DEF Typed, TypeOK, Proc
<1>3. OneHolder' /\ Mutex' /\ Behind'
  BY <1>1, Frames DEF OccupyForDelete, Exclusive
<1>4. /\ active' = [active EXCEPT ![s] = d] /\ active[s] = Nobody
      /\ active \in [Source -> Proc \cup {Nobody}]
      /\ at' = [at EXCEPT ![d] = "deleting"]
  BY DEF OccupyForDelete, Go, Typed, TypeOK
<1>5. Nobody \notin Proc
  BY MaintenanceAssumption DEF Proc
<1>6. Entered'
  BY <1>1, <1>2, <1>4, <1>5 DEF GateInv, Entered
<1>7. \A q \in Proc : at[q] \notin Holding
  BY DEF OccupyForDelete, GateInv, OneHolder
<1>8. Quiet'
  BY <1>1, <1>2, <1>4, <1>7 DEF OccupyForDelete, Quiet
<1>9. Open'
  BY <1>1, <1>2, <1>4 DEF OccupyForDelete, GateInv, Open, Proc
<1>. QED
  BY <1>3, <1>6, <1>8, <1>9 DEF GateInv

\* Whoever publishes, cleans, or leaves the gate.
LEMMA PublishGate ==
    ASSUME Typed, GateInv, NEW p \in Proc, Publishes(p)
    PROVE  GateInv'
<1>1. \A q \in idle : at[q] = "quiet"
  BY DEF GateInv, Quiet
<1>2. /\ at \in [Proc -> Places] /\ idle \subseteq Proc
      /\ publisher \in Proc \cup {Nobody} /\ Nobody \notin Proc
  BY MaintenanceAssumption DEF Typed, TypeOK, Proc
<1>3. ASSUME NEW from, NEW to, BeginPublish(p, from, to), EnterPublish(p),
             \/ from = "publish" /\ to = "lock"
             \/ from = "collect" /\ to = "sealLock"
             \/ from \in {"settle", "turned"} /\ to = "finishLock"
      PROVE  GateInv'
  <2>1. /\ Go(p, to) /\ at[p] = from
        /\ UNCHANGED <<draining, active, publisher, batches, idle>>
    BY <1>3 DEF BeginPublish, EnterPublish
  <2>2. from \notin Exclusive /\ to \notin Exclusive
    BY <1>3 DEF Exclusive
  <2>. QED
    BY <1>1, <1>3, <2>1, <2>2, Frames DEF GateInv
<1>4. CASE EnterPublish(p)
  BY <1>3, <1>4 DEF EnterPublish
<1>5. ASSUME NEW from, NEW to, Lock(p, from, to),
             StartCleaning(p) \/ StartPublishing(p),
             \/ from = "lock" /\ to = "clean"
             \/ from = "sealLock" /\ to = "seal"
             \/ from = "finishLock" /\ to = "finish"
      PROVE  GateInv'
  <2>1. /\ Go(p, to) /\ at[p] = from /\ publisher = Nobody /\ publisher' = p
        /\ UNCHANGED <<draining, active, batches, idle>>
    BY <1>5 DEF Lock, StartCleaning, StartPublishing, gateVars
  <2>2. OneHolder' /\ Entered' /\ Quiet' /\ Open' /\ Behind'
    BY <1>1, <1>5, <2>1, Frames
  <2>3. Mutex'
    BY <1>2, <1>5, <2>1 DEF Go, GateInv, Mutex, Exclusive
  <2>. QED
    BY <2>2, <2>3 DEF GateInv
<1>6. CASE StartCleaning(p) \/ StartPublishing(p)
  BY <1>5, <1>6 DEF StartCleaning, StartPublishing
<1>7. ASSUME NEW from, NEW to, Unlock(p, from, to), Published(p),
             \/ from = "clean" /\ to = "endDrain"
             \/ from = "seal" /\ to = "endSource"
             \/ from = "finish" /\ p = Ticker /\ to = "new"
             \/ from = "finish" /\ p # Ticker /\ to = "close"
      PROVE  GateInv'
  <2>1. /\ Go(p, to) /\ at[p] = from /\ publisher' = Nobody
        /\ UNCHANGED <<draining, active, batches, idle>>
    BY <1>7 DEF Unlock, Published
  <2>2. OneHolder' /\ Entered' /\ Quiet' /\ Open' /\ Behind'
    BY <1>1, <1>7, <2>1, Frames
  <2>3. Mutex'
    BY <1>2, <1>7, <2>1 DEF Go, GateInv, Mutex, Exclusive
  <2>. QED
    BY <2>2, <2>3 DEF GateInv
<1>8. CASE Published(p)
  BY <1>7, <1>8 DEF Published
<1>9. CASE EndDrain(p)
  <2>1. PICK there \in {"unclaim", "off"} : Go(p, there)
    BY <1>9 DEF EndDrain
  <2>2. OneHolder'
    BY <1>2, <1>9, <2>1 DEF EndDrain, Go, GateInv, OneHolder
  <2>3. Mutex' /\ Entered' /\ Quiet' /\ Open' /\ Behind'
    BY <1>1, <1>9, <2>1, Frames DEF EndDrain, Exclusive
  <2>. QED
    BY <2>2, <2>3 DEF GateInv
<1>10. CASE EndSource(p)
  <2>1. PICK there \in {"settle", "off"} :
            Go(p, there) /\ there = IF p \in Thread THEN "settle" ELSE "off"
    BY <1>10 DEF EndSource
  <2>2. /\ at[p] \in {"endSource", "deleting"} /\ UNCHANGED <<draining, publisher, batches, idle>>
        /\ active' = [s \in Source |-> IF active[s] = p THEN Nobody ELSE active[s]]
    BY <1>10 DEF EndSource
  <2>3. \A q \in Proc : at'[q] = IF q = p THEN there ELSE at[q]
    BY <1>2, <2>1 DEF Go
  <2>4. OneHolder' /\ Mutex'
    BY <2>1, <2>2, Frames DEF Exclusive
  <2>5. Entered'
    BY <2>1, <2>2, <2>3 DEF GateInv, Entered
  <2>6. ~Idle
    BY <1>2, <2>2 DEF GateInv, Entered, Idle
  <2>7. /\ idle = {}
        /\ \A q \in Proc : at[q] \notin Cleaning
    BY <2>6 DEF GateInv, Quiet
  <2>8. Quiet' /\ Behind'
    BY <2>1, <2>2, <2>3, <2>7 DEF Quiet, Behind, Proc
  <2>9. Open'
    <3>1. p \in Thread => at[p] = "endSource"
      BY <2>2 DEF Typed, Kinds, ThreadPlaces
    <3>. QED
      BY <2>1, <2>2, <2>3, <3>1 DEF GateInv, Open, Proc
  <2>. QED
    BY <2>4, <2>5, <2>8, <2>9 DEF GateInv
<1>. QED
  BY <1>4, <1>6, <1>8, <1>9, <1>10 DEF Publishes

LEMMA GateInvInit == Init => GateInv
<1>. SUFFICES ASSUME Init
              PROVE  GateInv
  OBVIOUS
<1>1. \A p \in Proc : at[p] \in {"off", "new"}
  BY DEF Init
<1>. QED
  BY <1>1, MaintenanceAssumption
  DEF Init, GateInv, OneHolder, Mutex, Entered, Quiet, Open, Behind, Exclusive, Proc

LEMMA GateInvStep == Typed /\ GateInv /\ [Next]_vars => GateInv'
<1>. SUFFICES ASSUME Typed, GateInv, [Next]_vars
              PROVE  GateInv'
  OBVIOUS
<1>1. CASE (\E t \in Task : Enqueue(t)) \/ Send \/ Loops \/ Tick
  BY <1>1, TasksGate
<1>2. ASSUME NEW p \in Thread, Runs(p) \/ \E t \in Task \cup {Center} : RunByHand(p, t)
      PROVE  GateInv'
  <2>1. CASE BeginMaintenance(p) \/ LookIdle(p) \/ LookBatches(p) \/ GiveUp(p)
    BY <2>1, MaintenanceGate
  <2>2. CASE OpenBatch(p) \/ CloseBatch(p) \/ \E s \in Source : BeginSource(p, s)
    BY <2>2, BatchGate
  <2>3. CASE \/ \E t \in Task \cup {Center} : RunByHand(p, t)
             \/ Claim(p) \/ Unclaim(p) \/ Mark(p)
             \/ LookBeforeCollect(p)
             \/ \E s \in Source : Refused(p, s)
             \/ CollectsNothing(p) \/ NothingToSettle(p)
    BY <2>3, TasksGate
  <2>. QED
    BY <1>2, <2>1, <2>2, <2>3 DEF Runs
<1>3. CASE \E z \in Clear : Drains(z)
  BY <1>3, ClearGate
<1>4. CASE \E p \in Proc : Publishes(p)
  BY <1>4, PublishGate
<1>5. CASE \E d \in Deleter, s \in Source : OccupyForDelete(d, s)
  BY <1>5, OccupyGate
<1>6. CASE UNCHANGED vars
  BY <1>6 DEF vars, gateVars, GateInv, OneHolder, Mutex, Entered, Quiet, Idle,
     Open, Behind
<1>. QED
  BY <1>1, <1>2, <1>3, <1>4, <1>5, <1>6 DEF Next

-----------------------------------------------------------------------------
(* What the runs check.                                                     *)

\* The parts of GateInv that a reader relies on.
THEOREM GateInvHolds == Spec => []GateInv
BY TypedHolds, GateInvInit, GateInvStep, PTL DEF Spec

\* One process at a time holds the gate; while it works on the library no
\* source collects, is being deleted or publishes; and what a maintenance
\* finds has settled (rules 1, 3 and 4).
THEOREM GateExcludesHolds == Spec => []GateExcludes
<1>1. Typed /\ GateInv => GateExcludes
  <2>. SUFFICES ASSUME Typed, GateInv
                PROVE  GateExcludes
    OBVIOUS
  <2>1. OneHolder
    BY DEF GateInv
  <2>2. QuietClean
    <3>1. \A p \in Proc : at[p] = "clean" => Idle
      BY DEF GateInv, Quiet
    <3>2. \A p, q \in Proc :
            at[p] = "clean" /\ at[q] \in {"clean", "seal", "finish"} => q = p
      BY DEF GateInv, Mutex, Exclusive
    <3>. QED
      BY <3>1, <3>2 DEF QuietClean
  <2>3. RunsSettled
    BY DEF GateInv, Behind, RunsSettled
  <2>. QED
    BY <2>1, <2>2, <2>3 DEF GateExcludes
<1>. QED
  BY <1>1, TypedHolds, GateInvHolds, PTL

\* A task that waits in the queue will be looked at: no wake-up is lost.
THEOREM NoForgottenTaskHolds == Spec => []NoForgottenTask
<1>1. Init => NoForgottenTask
  BY DEF Init, NoForgottenTask
<1>2. Typed /\ NoForgottenTask /\ [Next]_vars => NoForgottenTask'
  <2>. SUFFICES ASSUME Typed, NoForgottenTask, [Next]_vars
                PROVE  NoForgottenTask'
    OBVIOUS
  <2>1. sending \in Nat
    BY DEF Typed, TypeOK
  <2>2. ASSUME NEW t \in Task, Enqueue(t)
        PROVE  NoForgottenTask'
    BY <2>1, <2>2 DEF Enqueue, NoForgottenTask
  <2>3. CASE Send
    BY <2>3 DEF Send, NoForgottenTask
  <2>4. CASE Loops
    BY <2>4 DEF Loops, Wake, Flush, NoForgottenTask
  <2>5. CASE UNCHANGED cronVars
    BY <2>5 DEF cronVars, NoForgottenTask
  <2>6. \/ \E t \in Task : Enqueue(t)
        \/ Send \/ Loops \/ UNCHANGED cronVars
    <3>1. ASSUME NEW p \in Thread, Runs(p) \/ \E t \in Task \cup {Center} : RunByHand(p, t)
          PROVE  UNCHANGED cronVars
      BY <3>1 DEF Runs, RunByHand, Claim, Unclaim, Mark, BeginMaintenance,
         LookIdle, LookBatches, GiveUp, LookBeforeCollect, OpenBatch,
         BeginSource, Refused, CollectsNothing, NothingToSettle, CloseBatch
    <3>2. ASSUME NEW z \in Clear, Drains(z)
          PROVE  UNCHANGED cronVars
      BY <3>2 DEF Drains, Drain, DrainQuiet, DrainTimeout
    <3>3. ASSUME NEW p \in Proc, Publishes(p)
          PROVE  UNCHANGED cronVars
      BY <3>3 DEF Publishes, EnterPublish, StartCleaning, StartPublishing,
         Published, EndDrain, EndSource
    <3>. QED
      BY <3>1, <3>2, <3>3 DEF Next, Tick, OccupyForDelete, vars
  <2>. QED
    BY <2>2, <2>3, <2>4, <2>5, <2>6
<1>. QED
  BY <1>1, <1>2, TypedHolds, PTL DEF Spec

\* The types, the gate's exclusions and the queue together.
THEOREM GateSafeHolds == Spec => []GateSafe
BY TypeCorrect, GateExcludesHolds, NoForgottenTaskHolds, PTL DEF GateSafe

\* The time of a task's last run moves only when it starts to clean or its
\* collection enters the gate (rule 5).
THEOREM LastRunMeansStartedHolds == Spec => LastRunMeansStarted
<1>. DEFINE Started ==
         /\ \A t \in Job : ran'[t] # ran[t] =>
               \E p \in Thread : at[p] = "lock" /\ at'[p] = "clean" /\ Task1(p) = t
         /\ ran'[AutoTask] # ran[AutoTask] =>
               \E p \in Thread : at[p] = "enter" /\ at'[p] = "collect"
                                 /\ Task1(p) = AutoTask
<1>1. Typed /\ [Next]_vars => [Started]_vars
  <2>. SUFFICES ASSUME Typed, [Next]_vars
                PROVE  Started
    OBVIOUS
  <2>1. /\ ran \in [Task -> Nat] /\ at \in [Proc -> Places]
        /\ AutoTask \notin Job /\ \A p \in Thread : p \in Proc
    BY MaintenanceAssumption DEF Typed, TypeOK, Proc
  <2>2. CASE ran' = ran
    BY <2>2
  <2>3. ASSUME NEW p \in Thread, StartCleaning(p)
        PROVE  Started
    <3>1. at[p] = "lock" /\ at'[p] = "clean" /\ Task1(p) \in Job
      BY <2>1, <2>3 DEF StartCleaning, Lock, Go, Typed, Tasks, Maintains
    <3>2. ran' = [ran EXCEPT ![Task1(p)] = @ + 1]
      BY <2>3 DEF StartCleaning
    <3>3. \A t \in Task : t # Task1(p) => ran'[t] = ran[t]
      BY <2>1, <3>2
    <3>. QED
      BY <2>1, <3>1, <3>3 DEF Task
  <2>4. ASSUME NEW p \in Thread, NEW s \in Source, BeginSource(p, s)
        PROVE  Started
    <3>1. at[p] = "enter" /\ at'[p] = "collect"
      BY <2>1, <2>4 DEF BeginSource, Go
    <3>2. \A t \in Job : ran'[t] = ran[t]
      BY <2>1, <2>4 DEF BeginSource, Task
    <3>3. Task1(p) # AutoTask => ran' = ran
      BY <2>4 DEF BeginSource
    <3>. QED
      BY <3>1, <3>2, <3>3
  <2>5. \/ ran' = ran
        \/ \E p \in Thread : StartCleaning(p)
        \/ \E p \in Thread, s \in Source : BeginSource(p, s)
    <3>1. ASSUME NEW p \in Thread,
                 Runs(p) \/ \E t \in Task \cup {Center} : RunByHand(p, t)
          PROVE  ran' = ran \/ \E s \in Source : BeginSource(p, s)
      BY <3>1 DEF Runs, RunByHand, Claim, Unclaim, Mark, BeginMaintenance,
         LookIdle, LookBatches, GiveUp, LookBeforeCollect, OpenBatch, taskVars,
         Refused, CollectsNothing, NothingToSettle, CloseBatch
    <3>2. ASSUME NEW z \in Clear, Drains(z)
          PROVE  ran' = ran
      BY <3>2 DEF Drains, Drain, DrainQuiet, DrainTimeout, taskVars
    <3>3. ASSUME NEW p \in Proc, Publishes(p)
          PROVE  ran' = ran \/ (p \in Thread /\ StartCleaning(p))
      <4>1. CASE StartCleaning(p)
        BY <4>1 DEF StartCleaning
      <4>. QED
        BY <3>3, <4>1 DEF Publishes, EnterPublish, StartPublishing, Published,
           EndDrain, EndSource, taskVars
    <3>. QED
      BY <3>1, <3>2, <3>3 DEF Next, Enqueue, Send, Loops, Wake, Flush, Tick,
         OccupyForDelete, vars, taskVars
  <2>. QED
    BY <2>2, <2>3, <2>4, <2>5
<1>. QED
  BY <1>1, TypedHolds, PTL DEF Spec, LastRunMeansStarted
=============================================================================
