-------------------------- MODULE PageFetchProofs --------------------------
(***************************************************************************)
(* Proofs about the collection of a source's pages, for every set of pages *)
(* and workers and for every limit.                                        *)
(***************************************************************************)
EXTENDS PageFetch, FiniteSetTheorems, TLAPS

\* The worker has a page that is neither counted nor handed to the lane.
Holds(w) == at[w] \in {"turn", "slot", "call", "fail", "submit"}

\* A page is in one place until it is counted as failed or handed over.
OnePlace ==
    /\ unread \cap channel = {}
    /\ \A g \in unread \cup channel : write[g] = "new" /\ g \notin failed
    /\ \A w \in Worker : Holds(w) =>
        /\ mine[w] \in Page /\ mine[w] \notin unread \cup channel
        /\ write[mine[w]] = "new" /\ mine[w] \notin failed
        /\ \A v \in Worker : Holds(v) /\ mine[v] = mine[w] => v = w

\* The requests that failed for good are the pages counted without a write.
Unfetched == {g \in failed : write[g] = "new"}
FailsCounted == fails = Cardinality(Unfetched)

\* A report, on its way, says what became of the write; and a saved page that
\* is not counted yet has its report on its way.
Underway == reports \cup late
Reported ==
    /\ IsFiniteSet(reports)
    /\ \A r \in Underway :
        /\ r.end = "saved" => r.page \in saved
        /\ r.end = "lost" => write[r.page] = "written" /\ r.page \notin saved
        /\ r.end = "canceled" => write[r.page] = "canceled"
    /\ success \subseteq saved
    /\ \A g \in saved :
        /\ write[g] = "written"
        /\ g \in success \/ [page |-> g, end |-> "saved"] \in Underway
    /\ \A g \in failed : write[g] \in {"new", "written"} /\ g \notin saved

\* Unless the context is done, no page is forgotten and the workers leave when
\* there are no more.
Covered ==
    /\ stopping \/ unproven => canceled
    /\ ~canceled =>
        /\ fed => unread = {}
        /\ \A w \in Worker : at[w] = "left" => fed /\ channel = {}
        /\ \A g \in Page :
            \/ g \in unread \cup channel \cup failed \cup saved
            \/ \E w \in Worker : Holds(w) /\ mine[w] = g
            \/ write[g] \in {"queued", "writing"}
            \/ [page |-> g, end |-> "lost"] \in Underway

\* What CollectPages has found at its end is final.
Ended ==
    /\ closed => (\A w \in Worker : at[w] = "left") /\ ~Outstanding
    /\ result # "none" => closed /\ reports = {}
    /\ result \in {"done", "failed pages"} => ~canceled
    /\ result = "done" => failed = {}

FetchInv == TypeOK /\ OnePlace /\ FailsCounted /\ Reported /\ Covered /\ Ended

USE DEF fetchVars, workVars, runVars, writeVars, statVars

-----------------------------------------------------------------------------
(* The counters.                                                            *)

Callers == {w \in Worker : at[w] = "call"}

LEMMA CallersFinite ==
    IsFiniteSet(Callers) /\ Cardinality(Callers) \in Nat
<1>1. Callers \in SUBSET Worker
  BY DEF Callers
<1>. QED
  BY <1>1, FetchAssumption, FS_Subset, FS_CardinalityType

\* A slot is taken and given back by the one that makes the request.
LEMMA FreeStep ==
    ASSUME TypeOK, Next
    PROVE  free' = Slots - Cardinality(Callers') /\ free' \in 0 .. Slots
<1>1. free = Slots - Cardinality(Callers) /\ free \in 0 .. Slots /\ Slots \in Nat
  BY FetchAssumption DEF TypeOK, Callers
<1>2. at \in [Worker -> {"idle", "turn", "slot", "call", "fail", "stop", "submit", "left"}]
  BY DEF TypeOK
<1>3. ASSUME NEW w \in Worker, Slot(w)
      PROVE  free' = Slots - Cardinality(Callers') /\ free' \in 0 .. Slots
  <2>1. w \notin Callers /\ Callers' = Callers \cup {w}
    BY <1>2, <1>3 DEF Slot, Go, Callers
  <2>2. Cardinality(Callers') = Cardinality(Callers) + 1
    BY <2>1, CallersFinite, FS_AddElement
  <2>. QED
    BY <1>1, <1>3, <2>2, CallersFinite DEF Slot
<1>4. ASSUME NEW w \in Worker, CallOK(w) \/ CallFails(w)
      PROVE  free' = Slots - Cardinality(Callers') /\ free' \in 0 .. Slots
  <2>1. w \in Callers /\ Callers' = Callers \ {w} /\ free' = free + 1
    BY <1>2, <1>4 DEF CallOK, CallFails, Go, Callers
  <2>2. Cardinality(Callers') = Cardinality(Callers) - 1
    BY <2>1, CallersFinite, FS_RemoveElement
  <2>3. Cardinality(Callers) # 0
    BY <2>1, CallersFinite, FS_EmptySet
  <2>. QED
    BY <1>1, <2>1, <2>2, <2>3, CallersFinite
<1>5. ASSUME NEW w \in Worker, WorkerStep(w), ~Slot(w), ~CallOK(w), ~CallFails(w)
      PROVE  free' = free /\ Callers' = Callers
  BY <1>2, <1>5 DEF WorkerStep, TakePage, Leave, Turn, PageFails, GiveUp, Submit, Go, Callers
<1>6. ASSUME NEW g \in Page, WriteStep(g)
      PROVE  free' = free /\ at' = at
  BY <1>6 DEF WriteStep, StartWrite, EndWrite, DiscardWrite
<1>7. ASSUME Feed \/ CoolingEnds \/ Stop \/ Loop
      PROVE  free' = free /\ at' = at
  BY <1>7 DEF Feed, CoolingEnds, Stop, Loop, DeliverLate, CloseReports, CountReport, Return
<1>. QED
  BY <1>1, <1>3, <1>4, <1>5, <1>6, <1>7 DEF Next, Callers

LEMMA UnfetchedFinite ==
    ASSUME TypeOK
    PROVE  IsFiniteSet(Unfetched) /\ Cardinality(Unfetched) \in 0 .. Cardinality(Page)
<1>1. Unfetched \in SUBSET Page
  BY DEF Unfetched, TypeOK
<1>. QED
  BY <1>1, FetchAssumption, FS_Subset, FS_CardinalityType

\* What the lane does with a page it has; and what Submit does.
LEMMA LaneMoves ==
    ASSUME TypeOK
    PROVE  /\ \A g \in Page : StartWrite(g) =>
                write[g] = "queued" /\ write' = [write EXCEPT ![g] = "writing"]
           /\ \A g \in Page : EndWrite(g) =>
                write[g] = "writing" /\ write' = [write EXCEPT ![g] = "written"]
           /\ \A g \in Page : DiscardWrite(g) =>
                write[g] = "queued" /\ write' = [write EXCEPT ![g] = "canceled"]
           /\ \A w \in Worker : Submit(w) =>
                /\ write[mine[w]] = "new"
                /\ \/ ~canceled /\ write' = [write EXCEPT ![mine[w]] = "queued"]
                      /\ at' = [at EXCEPT ![w] = "idle"]
                   \/ canceled /\ write' = [write EXCEPT ![mine[w]] = "rejected"]
                      /\ at' = [at EXCEPT ![w] = "left"]
BY DEF StartWrite, EndWrite, DiscardWrite, Submit, Go, Lane!Start, Lane!Finish,
   Lane!Cancel, Lane!Accept, Lane!Reject, Lane!Move

\* Each request that fails for good adds a page that was not counted.
LEMMA FailsStep ==
    ASSUME FetchInv, Next
    PROVE  FailsCounted' /\ fails' \in 0 .. Cardinality(Page)
<1>1. /\ fails = Cardinality(Unfetched) /\ IsFiniteSet(Unfetched)
      /\ write \in [Page -> Lane!State] /\ failed \subseteq Page
  BY UnfetchedFinite DEF FetchInv, FailsCounted, TypeOK
<1>2. ASSUME NEW w \in Worker, PageFails(w), ~canceled
      PROVE  FailsCounted' /\ fails' \in 0 .. Cardinality(Page)
  <2>1. mine[w] \in Page /\ write[mine[w]] = "new" /\ mine[w] \notin failed
    BY <1>2 DEF FetchInv, OnePlace, Holds, PageFails
  <2>2. failed' = failed \cup {mine[w]} /\ fails' = fails + 1 /\ write' = write
    BY <1>2 DEF PageFails, CountFailed
  <2>3. Unfetched' = Unfetched \cup {mine[w]} /\ mine[w] \notin Unfetched
    BY <2>1, <2>2 DEF Unfetched
  <2>4. Cardinality(Unfetched') = Cardinality(Unfetched) + 1
    BY <1>1, <2>3, FS_AddElement
  <2>5. Unfetched' \in SUBSET Page
    BY <1>1, <2>1, <2>3 DEF Unfetched
  <2>6. Cardinality(Unfetched') <= Cardinality(Page) /\ Cardinality(Unfetched) \in Nat
        /\ Cardinality(Page) \in Nat
    BY <1>1, <2>5, FetchAssumption, FS_Subset, FS_CardinalityType
  <2>. QED
    BY <1>1, <2>2, <2>4, <2>6 DEF FailsCounted
<1>3. ASSUME fails' = fails, Unfetched' = Unfetched
      PROVE  FailsCounted' /\ fails' \in 0 .. Cardinality(Page)
  BY <1>3 DEF FetchInv, TypeOK, FailsCounted
<1>4. ASSUME NEW w \in Worker, WorkerStep(w), ~PageFails(w), ~Submit(w)
      PROVE  fails' = fails /\ failed' = failed /\ write' = write
  BY <1>4 DEF WorkerStep, TakePage, Leave, Turn, Slot, CallOK, CallFails, GiveUp
<1>5. ASSUME NEW w \in Worker, PageFails(w), canceled
      PROVE  fails' = fails /\ failed' = failed /\ write' = write
  BY <1>5 DEF PageFails
<1>6. ASSUME NEW w \in Worker, Submit(w)
      PROVE  fails' = fails /\ Unfetched' = Unfetched
  <2>1. mine[w] \in Page /\ mine[w] \notin failed
    BY <1>6 DEF FetchInv, OnePlace, Holds, Submit
  <2>2. fails' = fails /\ failed' = failed
    BY <1>6 DEF Submit
  <2>3. \A g \in failed : write'[g] = write[g]
    BY <1>1, <1>6, <2>1, LaneMoves DEF FetchInv
  <2>. QED
    BY <2>2, <2>3 DEF Unfetched
<1>7. ASSUME NEW g \in Page, WriteStep(g)
      PROVE  fails' = fails /\ Unfetched' = Unfetched
  <2>1. fails' = fails /\ failed' = failed
    BY <1>7 DEF WriteStep, StartWrite, EndWrite, DiscardWrite
  <2>2. \A x \in failed : write'[x] = "new" <=> write[x] = "new"
    BY <1>1, <1>7, LaneMoves DEF FetchInv, WriteStep
  <2>. QED
    BY <2>1, <2>2 DEF Unfetched
<1>8. ASSUME CountReport
      PROVE  fails' = fails /\ Unfetched' = Unfetched
  <2>1. PICK r \in reports :
            IF r.end = "saved"
            THEN success' = success \cup {r.page} /\ UNCHANGED <<failed, listed>>
            ELSE IF canceled \/ r.end = "canceled" THEN UNCHANGED statVars
            ELSE CountFailed(r.page)
    BY <1>8 DEF CountReport
  <2>2. r.end \in Outcome /\ r.page \in Page
    BY DEF FetchInv, TypeOK, Report
  <2>3. fails' = fails /\ write' = write
    BY <1>8 DEF CountReport
  <2>4. CASE failed' = failed
    BY <2>3, <2>4 DEF Unfetched
  <2>5. CASE r.end = "lost" /\ failed' = failed \cup {r.page}
    <3>1. write[r.page] = "written"
      BY <2>5 DEF FetchInv, Reported, Underway
    <3>. QED
      BY <2>3, <2>5, <3>1 DEF Unfetched
  <2>. QED
    BY <2>1, <2>2, <2>4, <2>5, <2>3 DEF CountFailed, Outcome
<1>9. ASSUME Feed \/ CoolingEnds \/ Stop \/ DeliverLate \/ CloseReports \/ Return
      PROVE  fails' = fails /\ failed' = failed /\ write' = write
  BY <1>9 DEF Feed, CoolingEnds, Stop, DeliverLate, CloseReports, Return
<1>10. ASSUME fails' = fails, failed' = failed, write' = write
       PROVE  FailsCounted' /\ fails' \in 0 .. Cardinality(Page)
  BY <1>3, <1>10 DEF Unfetched
<1>. QED
  BY <1>2, <1>3, <1>4, <1>5, <1>6, <1>7, <1>8, <1>9, <1>10 DEF Next, Loop, WriteStep

\* The channel of reports never holds more than it may.
LEMMA ReportsStep ==
    ASSUME FetchInv, Next
    PROVE  /\ IsFiniteSet(reports') /\ Cardinality(reports') <= Capacity
           /\ reports' \subseteq Report /\ late' \subseteq Report
<1>. USE FetchAssumption
<1>1. /\ IsFiniteSet(reports) /\ Cardinality(reports) <= Capacity
      /\ reports \subseteq Report /\ late \subseteq Report
      /\ Cardinality(reports) \in Nat
  BY FS_CardinalityType DEF FetchInv, TypeOK, Reported
<1>2. ASSUME NEW r \in Report, Cardinality(reports) < Capacity,
             reports' = reports \cup {r}, late' \subseteq late
      PROVE  /\ IsFiniteSet(reports') /\ Cardinality(reports') <= Capacity
             /\ reports' \subseteq Report /\ late' \subseteq Report
  <2>1. /\ IsFiniteSet(reports \cup {r})
        /\ \/ Cardinality(reports \cup {r}) = Cardinality(reports)
           \/ Cardinality(reports \cup {r}) = Cardinality(reports) + 1
    BY <1>1, FS_AddElement
  <2>2. Cardinality(reports') <= Capacity
    BY <1>1, <1>2, <2>1
  <2>. QED
    BY <1>1, <1>2, <2>1, <2>2
<1>3. ASSUME NEW r \in Report, Deliver(r)
      PROVE  /\ IsFiniteSet(reports') /\ Cardinality(reports') <= Capacity
             /\ reports' \subseteq Report /\ late' \subseteq Report
  BY <1>1, <1>2, <1>3 DEF Deliver
<1>4. ASSUME NEW g \in Page, EndWrite(g) \/ DiscardWrite(g)
      PROVE  \E r \in Report : Deliver(r)
  <2>1. \A end \in Outcome : [page |-> g, end |-> end] \in Report
    BY DEF Report
  <2>. QED
    BY <1>4, <2>1 DEF EndWrite, DiscardWrite, Outcome
<1>5. CASE DeliverLate
  BY <1>1, <1>2, <1>5 DEF DeliverLate
<1>6. CASE CountReport
  <2>1. PICK r \in reports : reports' = reports \ {r}
    BY <1>6 DEF CountReport
  <2>2. IsFiniteSet(reports') /\ Cardinality(reports') <= Cardinality(reports)
    BY <1>1, <2>1, FS_Subset
  <2>3. late' = late
    BY <1>6 DEF CountReport
  <2>. QED
    BY <1>1, <2>1, <2>2, <2>3, FS_CardinalityType
<1>7. ASSUME NEW w \in Worker, WorkerStep(w)
      PROVE  UNCHANGED <<reports, late>>
  BY <1>7 DEF WorkerStep, TakePage, Leave, Turn, Slot, CallOK, CallFails,
     PageFails, GiveUp, Submit
<1>8. ASSUME Feed \/ CoolingEnds \/ Stop \/ CloseReports \/ Return
      PROVE  UNCHANGED <<reports, late>>
  BY <1>8 DEF Feed, CoolingEnds, Stop, CloseReports, Return
<1>9. ASSUME NEW g \in Page, StartWrite(g)
      PROVE  UNCHANGED <<reports, late>>
  BY <1>9 DEF StartWrite
<1>. QED
  BY <1>1, <1>3, <1>4, <1>5, <1>6, <1>7, <1>8, <1>9 DEF Next, WriteStep, Loop

-----------------------------------------------------------------------------
(* Types.                                                                   *)

\* The flags.
FlagsOK ==
    /\ fed \in BOOLEAN /\ closed \in BOOLEAN /\ cooling \in BOOLEAN
    /\ proven \in BOOLEAN /\ canceled \in BOOLEAN /\ stopping \in BOOLEAN
    /\ unproven \in BOOLEAN

\* Where the workers are.
WorkersOK ==
    /\ at \in [Worker -> {"idle", "turn", "slot", "call", "fail", "stop",
                          "submit", "left"}]
    /\ mine \in [Worker -> Page \cup {NoPage}]
    /\ tries \in [Worker -> 0 .. Retries]

\* The pages.
PagesOK ==
    /\ unread \subseteq Page /\ channel \subseteq Page
    /\ write \in [Page -> Lane!State] /\ saved \subseteq Page
    /\ success \subseteq Page /\ failed \subseteq Page /\ listed \subseteq failed
    /\ result \in {"none", "done", "failed pages", "unproven", "canceled"}

LEMMA TypeParts == TypeOK => FlagsOK /\ WorkersOK /\ PagesOK
BY DEF TypeOK, FlagsOK, WorkersOK, PagesOK

LEMMA FlagsStep ==
    ASSUME FlagsOK, Next
    PROVE  FlagsOK'
<1>. USE DEF FlagsOK
<1>1. ASSUME NEW w \in Worker, WorkerStep(w)
      PROVE  FlagsOK'
  <2>1. CASE TakePage(w) \/ Leave(w) \/ Turn(w) \/ Slot(w) \/ PageFails(w) \/ Submit(w)
    BY <2>1, Zenon DEF TakePage, Leave, Turn, Slot, PageFails, Submit
  <2>2. CASE CallOK(w) \/ CallFails(w) \/ GiveUp(w)
    BY <2>2, Zenon DEF CallOK, CallFails, GiveUp
  <2>. QED
    BY <1>1, <2>1, <2>2 DEF WorkerStep
<1>2. ASSUME NEW g \in Page, WriteStep(g)
      PROVE  FlagsOK'
  BY <1>2, Zenon DEF WriteStep, StartWrite, EndWrite, DiscardWrite
<1>3. CASE Feed \/ CoolingEnds \/ Stop
  BY <1>3, Zenon DEF Feed, CoolingEnds, Stop
<1>4. CASE Loop
  BY <1>4, Zenon DEF Loop, DeliverLate, CloseReports, CountReport, Return
<1>. QED
  BY <1>1, <1>2, <1>3, <1>4 DEF Next

LEMMA WorkersStep ==
    ASSUME WorkersOK, PagesOK, Next
    PROVE  WorkersOK'
<1>. USE DEF WorkersOK
<1>1. ASSUME NEW w \in Worker, WorkerStep(w)
      PROVE  WorkersOK'
  <2>1. CASE TakePage(w)
    <3>1. PICK g \in Page : mine' = [mine EXCEPT ![w] = g]
      BY <2>1 DEF TakePage, PagesOK
    <3>2. tries' = [tries EXCEPT ![w] = 0] /\ at' = [at EXCEPT ![w] = "turn"]
      BY <2>1 DEF TakePage, Go
    <3>3. 0 \in 0 .. Retries
      BY FetchAssumption
    <3>. QED
      BY <3>1, <3>2, <3>3
  <2>2. CASE Leave(w) \/ Turn(w) \/ Slot(w) \/ CallOK(w) \/ GiveUp(w)
    BY <2>2 DEF Leave, Turn, Slot, CallOK, GiveUp, Go
  <2>3. CASE CallFails(w)
    <3>1. PICK again \in BOOLEAN :
            IF again /\ tries[w] < Retries
            THEN tries' = [tries EXCEPT ![w] = @ + 1] /\ Go(w, "turn")
            ELSE UNCHANGED tries /\ Go(w, "fail")
      BY <2>3 DEF CallFails
    <3>2. mine' = mine
      BY <2>3 DEF CallFails
    <3>3. CASE again /\ tries[w] < Retries
      BY <3>1, <3>2, <3>3, FetchAssumption DEF Go
    <3>4. CASE ~(again /\ tries[w] < Retries)
      BY <3>1, <3>2, <3>4 DEF Go
    <3>. QED
      BY <3>3, <3>4
  <2>4. CASE PageFails(w)
    <3>1. \E there \in {"left", "stop", "idle"} : Go(w, there)
      BY <2>4 DEF PageFails
    <3>2. UNCHANGED <<mine, tries>>
      BY <2>4 DEF PageFails
    <3>. QED
      BY <3>1, <3>2 DEF Go
  <2>5. CASE Submit(w)
    BY <2>5 DEF Submit, Go
  <2>. QED
    BY <1>1, <2>1, <2>2, <2>3, <2>4, <2>5 DEF WorkerStep
<1>2. ASSUME NEW g \in Page, WriteStep(g)
      PROVE  UNCHANGED <<at, mine, tries>>
  BY <1>2 DEF WriteStep, StartWrite, EndWrite, DiscardWrite
<1>3. ASSUME Feed \/ CoolingEnds \/ Stop \/ Loop
      PROVE  UNCHANGED <<at, mine, tries>>
  BY <1>3 DEF Feed, CoolingEnds, Stop, Loop, DeliverLate, CloseReports, CountReport, Return
<1>. QED
  BY <1>1, <1>2, <1>3 DEF Next

\* The report that is counted, and what that changes.
LEMMA CountsOne ==
    ASSUME TypeOK, Reported, CountReport
    PROVE  \E r \in reports :
            /\ r \in Underway /\ r.page \in Page /\ r.end \in Outcome
            /\ reports' = reports \ {r}
            /\ success' = IF r.end = "saved" THEN success \cup {r.page} ELSE success
            /\ failed' = IF r.end = "lost" /\ ~canceled THEN failed \cup {r.page}
                         ELSE failed
            /\ listed' \subseteq failed'
<1>1. PICK r \in reports :
        /\ reports' = reports \ {r}
        /\ IF r.end = "saved"
           THEN success' = success \cup {r.page} /\ UNCHANGED <<failed, listed>>
           ELSE IF canceled \/ r.end = "canceled" THEN UNCHANGED statVars
           ELSE CountFailed(r.page)
  BY DEF CountReport
<1>2. r \in Underway /\ r.page \in Page /\ r.end \in Outcome
  BY DEF TypeOK, Report, Underway
<1>3. CASE r.end = "saved"
  BY <1>1, <1>2, <1>3 DEF TypeOK
<1>4. CASE r.end = "canceled"
  BY <1>1, <1>2, <1>4 DEF TypeOK
<1>5. CASE r.end = "lost" /\ canceled
  BY <1>1, <1>2, <1>5 DEF TypeOK
<1>6. CASE r.end = "lost" /\ ~canceled
  <2>1. /\ failed' = failed \cup {r.page} /\ success' = success
        /\ listed' = IF Cardinality(listed) < MaxListed THEN listed \cup {r.page}
                     ELSE listed
    BY <1>1, <1>6 DEF CountFailed
  <2>2. listed' \subseteq failed'
    BY <2>1 DEF TypeOK
  <2>. QED
    BY <1>1, <1>2, <1>6, <2>1, <2>2
<1>. QED
  BY <1>2, <1>3, <1>4, <1>5, <1>6 DEF Outcome

LEMMA PagesStep ==
    ASSUME FetchInv, Next
    PROVE  PagesOK'
<1>. USE DEF PagesOK
<1>1. TypeOK /\ PagesOK /\ Reported
  BY TypeParts DEF FetchInv
<1>2. ASSUME NEW w \in Worker, WorkerStep(w)
      PROVE  PagesOK'
  <2>1. CASE TakePage(w)
    BY <1>1, <2>1 DEF TakePage
  <2>2. CASE Leave(w) \/ Turn(w) \/ Slot(w) \/ CallOK(w) \/ CallFails(w) \/ GiveUp(w)
    <3>1. UNCHANGED <<unread, channel, write, saved, success, failed, listed, result>>
      BY <2>2 DEF Leave, Turn, Slot, CallOK, CallFails, GiveUp
    <3>. QED
      BY <1>1, <3>1
  <2>3. CASE PageFails(w)
    <3>1. mine[w] \in Page
      BY <2>3 DEF FetchInv, OnePlace, Holds, PageFails
    <3>2. /\ UNCHANGED <<unread, channel, write, saved, success, result>>
          /\ \/ UNCHANGED <<failed, listed>>
             \/ /\ failed' = failed \cup {mine[w]}
                /\ listed' \subseteq listed \cup {mine[w]}
      BY <2>3 DEF PageFails, CountFailed
    <3>. QED
      BY <1>1, <3>1, <3>2
  <2>4. CASE Submit(w)
    <3>1. write' \in [Page -> Lane!State]
      BY <1>1, <2>4, LaneMoves DEF Lane!State
    <3>. QED
      BY <1>1, <2>4, <3>1 DEF Submit
  <2>. QED
    BY <1>2, <2>1, <2>2, <2>3, <2>4 DEF WorkerStep
<1>3. ASSUME NEW g \in Page, WriteStep(g)
      PROVE  PagesOK'
  <2>1. write' \in [Page -> Lane!State]
    BY <1>1, <1>3, LaneMoves DEF WriteStep, Lane!State
  <2>2. /\ UNCHANGED <<unread, channel, success, failed, listed, result>>
        /\ saved' \subseteq saved \cup {g}
    BY <1>3 DEF WriteStep, StartWrite, EndWrite, DiscardWrite
  <2>. QED
    BY <1>1, <2>1, <2>2
<1>4. CASE CountReport
  <2>1. UNCHANGED <<unread, channel, write, saved, result>>
    BY <1>4 DEF CountReport
  <2>2. success' \subseteq Page /\ failed' \subseteq Page /\ listed' \subseteq failed'
    BY <1>1, <1>4, CountsOne
  <2>. QED
    BY <1>1, <2>1, <2>2
<1>5. CASE Feed
  BY <1>1, <1>5 DEF Feed
<1>6. CASE CoolingEnds \/ Stop \/ DeliverLate \/ CloseReports
  <2>1. UNCHANGED <<unread, channel, write, saved, success, failed, listed, result>>
    BY <1>6 DEF CoolingEnds, Stop, DeliverLate, CloseReports
  <2>. QED
    BY <1>1, <2>1
<1>7. CASE Return
  BY <1>1, <1>7 DEF Return
<1>. QED
  BY <1>2, <1>3, <1>4, <1>5, <1>6, <1>7 DEF Next, Loop

LEMMA TypeStep ==
    ASSUME FetchInv, Next
    PROVE  TypeOK'
<1>1. FlagsOK' /\ WorkersOK' /\ PagesOK'
  BY TypeParts, FlagsStep, WorkersStep, PagesStep DEF FetchInv
<1>2. /\ free' \in 0 .. Slots
      /\ free' = Slots - Cardinality({w \in Worker : at'[w] = "call"})
  BY FreeStep DEF FetchInv, Callers
<1>3. fails' \in 0 .. Cardinality(Page)
  BY FailsStep
<1>4. Cardinality(reports') <= Capacity /\ reports' \subseteq Report /\ late' \subseteq Report
  BY ReportsStep
<1>. QED
  BY <1>1, <1>2, <1>3, <1>4 DEF TypeOK, FlagsOK, WorkersOK, PagesOK

-----------------------------------------------------------------------------
(* Where the pages are.                                                     *)

\* The holders keep their pages in every step that is not theirs.
LEMMA OnePlaceStep ==
    ASSUME FetchInv, Next
    PROVE  OnePlace'
<1>. USE DEF OnePlace, Holds
<1>1. WorkersOK /\ PagesOK /\ OnePlace /\ TypeOK /\ Reported
  BY TypeParts DEF FetchInv
<1>2. ASSUME NEW w \in Worker, TakePage(w)
      PROVE  OnePlace'
  <2>1. PICK g \in channel : channel' = channel \ {g} /\ mine' = [mine EXCEPT ![w] = g]
    BY <1>2 DEF TakePage
  <2>2. /\ at[w] = "idle" /\ at' = [at EXCEPT ![w] = "turn"]
        /\ UNCHANGED <<unread, write, failed>>
    BY <1>2 DEF TakePage, Go
  <2>. QED
    BY <1>1, <2>1, <2>2, ZenonT(60) DEF WorkersOK, PagesOK
<1>3. ASSUME NEW w \in Worker,
             Leave(w) \/ Turn(w) \/ Slot(w) \/ CallOK(w) \/ CallFails(w) \/ GiveUp(w)
      PROVE  OnePlace'
  <2>1. /\ UNCHANGED <<unread, channel, mine, write, failed>>
        /\ \A v \in Worker : Holds(v)' => Holds(v)
    BY <1>1, <1>3 DEF Leave, Turn, Slot, CallOK, CallFails, GiveUp, Go, WorkersOK
  <2>. QED
    BY <1>1, <2>1
<1>4. ASSUME NEW w \in Worker, PageFails(w)
      PROVE  OnePlace'
  <2>1. /\ UNCHANGED <<unread, channel, mine, write>> /\ at[w] = "fail"
        /\ at'[w] \in {"left", "stop", "idle"}
        /\ \A v \in Worker \ {w} : at'[v] = at[v]
        /\ failed' \subseteq failed \cup {mine[w]}
    BY <1>1, <1>4 DEF PageFails, CountFailed, Go, WorkersOK
  <2>. QED
    BY <1>1, <2>1
<1>5. ASSUME NEW w \in Worker, Submit(w)
      PROVE  OnePlace'
  <2>1. /\ UNCHANGED <<unread, channel, mine, failed>> /\ at[w] = "submit"
        /\ at'[w] \in {"left", "idle"}
        /\ \A v \in Worker \ {w} : at'[v] = at[v]
        /\ \A g \in Page \ {mine[w]} : write'[g] = write[g]
    <3>1. UNCHANGED <<unread, channel, mine, failed>> /\ at[w] = "submit"
      BY <1>5 DEF Submit
    <3>2. mine[w] \in Page
      BY <1>1, <3>1
    <3>3. \/ /\ write' = [write EXCEPT ![mine[w]] = "queued"]
             /\ at' = [at EXCEPT ![w] = "idle"]
          \/ /\ write' = [write EXCEPT ![mine[w]] = "rejected"]
             /\ at' = [at EXCEPT ![w] = "left"]
      BY <1>1, <1>5, LaneMoves
    <3>4. PICK there, end : at' = [at EXCEPT ![w] = there]
                /\ write' = [write EXCEPT ![mine[w]] = end] /\ there \in {"left", "idle"}
      BY <3>3
    <3>5. at'[w] = there /\ \A v \in Worker \ {w} : at'[v] = at[v]
      BY <1>1, <3>4 DEF WorkersOK
    <3>6. \A g \in Page \ {mine[w]} : write'[g] = write[g]
      BY <1>1, <3>2, <3>4 DEF PagesOK
    <3>. QED
      BY <3>1, <3>4, <3>5, <3>6
  <2>. QED
    BY <1>1, <2>1, ZenonT(60) DEF WorkersOK, PagesOK
<1>6. ASSUME NEW g \in Page, WriteStep(g)
      PROVE  OnePlace'
  <2>1. UNCHANGED <<unread, channel, mine, at, failed>>
    BY <1>6 DEF WriteStep, StartWrite, EndWrite, DiscardWrite
  <2>2. \A x \in Page : write[x] = "new" => write'[x] = "new"
    <3>1. PICK there : write' = [write EXCEPT ![g] = there] /\ write[g] # "new"
      BY <1>1, <1>6, LaneMoves DEF WriteStep
    <3>2. \A x \in Page \ {g} : write'[x] = write[x]
      BY <1>1, <3>1 DEF PagesOK
    <3>. QED
      BY <3>1, <3>2
  <2>. QED
    BY <1>1, <2>1, <2>2 DEF WorkersOK, PagesOK
<1>7. CASE CountReport
  <2>1. PICK r \in Underway : failed' = failed
                \/ (r.end = "lost" /\ failed' = failed \cup {r.page})
    BY <1>1, <1>7, CountsOne
  <2>2. r.end = "lost" => write[r.page] = "written"
    BY <1>1 DEF Reported
  <2>3. UNCHANGED <<unread, channel, mine, at, write>>
    BY <1>7 DEF CountReport
  <2>. QED
    BY <1>1, <2>1, <2>2, <2>3
<1>8. CASE Feed
  <2>1. UNCHANGED <<mine, at, write, failed>>
    BY <1>8 DEF Feed
  <2>2. \/ \E g \in unread : unread' = unread \ {g} /\ channel' = channel \cup {g}
        \/ UNCHANGED <<unread, channel>>
    BY <1>8 DEF Feed
  <2>3. unread' \cap channel' = {} /\ unread' \cup channel' = unread \cup channel
    BY <1>1, <2>2
  <2>. QED
    BY <1>1, <2>1, <2>3
<1>9. CASE CoolingEnds \/ Stop \/ DeliverLate \/ CloseReports \/ Return
  <2>1. UNCHANGED <<unread, channel, mine, at, write, failed>>
    BY <1>9 DEF CoolingEnds, Stop, DeliverLate, CloseReports, Return
  <2>. QED
    BY <1>1, <2>1
<1>. QED
  BY <1>2, <1>3, <1>4, <1>5, <1>6, <1>7, <1>8, <1>9 DEF Next, Loop, WorkerStep

-----------------------------------------------------------------------------
(* What the reports say.                                                    *)

\* A step that writes adds one report about the page, and makes it true.
LEMMA ReportedWrite ==
    ASSUME FetchInv, NEW g \in Page, EndWrite(g) \/ DiscardWrite(g)
    PROVE  Reported'
<1>1. PagesOK /\ TypeOK /\ Reported
  BY TypeParts DEF FetchInv
<1>2. PICK end \in Outcome :
        /\ Deliver([page |-> g, end |-> end])
        /\ saved' = IF end = "saved" THEN saved \cup {g} ELSE saved
        /\ \/ end # "canceled" /\ write[g] = "writing" /\ write' = [write EXCEPT ![g] = "written"]
           \/ end = "canceled" /\ write[g] = "queued" /\ write' = [write EXCEPT ![g] = "canceled"]
  <2>1. CASE EndWrite(g)
    BY <1>1, <2>1, LaneMoves DEF EndWrite, Outcome
  <2>2. CASE DiscardWrite(g)
    BY <1>1, <2>2, LaneMoves DEF DiscardWrite, Outcome
  <2>. QED
    BY <2>1, <2>2
<1>. DEFINE new == [page |-> g, end |-> end]
<1>3. Underway' = Underway \cup {new}
  BY <1>2 DEF Deliver, Underway
<1>4. UNCHANGED <<success, failed>>
  BY DEF EndWrite, DiscardWrite
<1>5. g \notin saved /\ g \notin failed
  BY <1>1, <1>2 DEF Reported
<1>6. \A r \in Underway : r.page \in Page /\ r.page # g
  BY <1>1, <1>2 DEF Reported, TypeOK, Report, Underway, Outcome
<1>7. IsFiniteSet(reports')
  <2>1. \/ reports' = reports \cup {new} \/ reports' = reports
    BY <1>2 DEF Deliver
  <2>. HIDE DEF new
  <2>2. IsFiniteSet(reports \cup {new})
    BY <1>1, FS_AddElement DEF Reported
  <2>. QED
    BY <1>1, <2>1, <2>2 DEF Reported
<1>8. /\ new.page = g /\ new.end = end
      /\ end = "canceled" => write'[g] = "canceled"
      /\ end # "canceled" => write'[g] = "written"
      /\ \A x \in Page \ {g} : write'[x] = write[x]
  BY <1>1, <1>2 DEF PagesOK
<1>9. \A r \in Underway' :
        /\ r.end = "saved" => r.page \in saved'
        /\ r.end = "lost" => write'[r.page] = "written" /\ r.page \notin saved'
        /\ r.end = "canceled" => write'[r.page] = "canceled"
  <2>1. SUFFICES ASSUME NEW r \in Underway'
        PROVE  /\ r.end = "saved" => r.page \in saved'
               /\ r.end = "lost" => write'[r.page] = "written" /\ r.page \notin saved'
               /\ r.end = "canceled" => write'[r.page] = "canceled"
    OBVIOUS
  <2>2. CASE r = new
    BY <1>2, <1>5, <1>8, <2>2
  <2>3. CASE r \in Underway
    BY <1>1, <1>2, <1>6, <1>8, <2>3 DEF Reported
  <2>. QED
    BY <1>3, <2>1, <2>2, <2>3
<1>10. success' \subseteq saved'
  BY <1>1, <1>2, <1>4 DEF Reported
<1>11. \A x \in saved' : write'[x] = "written"
        /\ (x \in success' \/ [page |-> x, end |-> "saved"] \in Underway')
  <2>1. SUFFICES ASSUME NEW x \in saved'
        PROVE  write'[x] = "written"
               /\ (x \in success' \/ [page |-> x, end |-> "saved"] \in Underway')
    OBVIOUS
  <2>2. CASE x \in saved
    BY <1>1, <1>3, <1>4, <1>5, <1>8, <2>2 DEF Reported, PagesOK
  <2>3. CASE x = g /\ end = "saved"
    BY <1>3, <1>8, <2>3
  <2>. QED
    BY <1>2, <2>1, <2>2, <2>3
<1>12. \A x \in failed' : write'[x] \in {"new", "written"} /\ x \notin saved'
  BY <1>1, <1>2, <1>4, <1>5, <1>8 DEF Reported, PagesOK
<1>. QED
  BY <1>7, <1>9, <1>10, <1>11, <1>12 DEF Reported

LEMMA ReportedStep ==
    ASSUME FetchInv, Next
    PROVE  Reported'
<1>1. PagesOK /\ TypeOK /\ Reported
  BY TypeParts DEF FetchInv
<1>2. IsFiniteSet(reports')
  BY ReportsStep
<1>3. ASSUME NEW g \in Page, EndWrite(g) \/ DiscardWrite(g)
      PROVE  Reported'
  BY <1>3, ReportedWrite
<1>4. ASSUME NEW g \in Page, StartWrite(g)
      PROVE  Reported'
  <2>1. write[g] = "queued" /\ write' = [write EXCEPT ![g] = "writing"]
    BY <1>1, <1>4, LaneMoves
  <2>2. UNCHANGED <<reports, late, saved, success, failed>>
    BY <1>4 DEF StartWrite
  <2>3. \A r \in Underway : r.page \in Page
    BY <1>1 DEF TypeOK, Report, Underway
  <2>4. \A r \in Underway : r.end # "saved" => r.page # g
    BY <1>1, <2>1, <2>3 DEF Reported, TypeOK, Report, Underway, Outcome
  <2>5. g \notin saved /\ g \notin failed
    BY <1>1, <2>1 DEF Reported
  <2>6. \A x \in Page \ {g} : write'[x] = write[x]
    BY <1>1, <2>1 DEF PagesOK
  <2>. QED
    BY <1>1, <2>2, <2>3, <2>4, <2>5, <2>6 DEF Reported, PagesOK, Underway
<1>5. ASSUME NEW w \in Worker, Submit(w)
      PROVE  Reported'
  <2>1. \E there : write' = [write EXCEPT ![mine[w]] = there]
    BY <1>1, <1>5, LaneMoves
  <2>2. /\ mine[w] \in Page /\ write[mine[w]] = "new" /\ mine[w] \notin failed
    BY <1>5 DEF FetchInv, OnePlace, Holds, Submit
  <2>3. UNCHANGED <<reports, late, saved, success, failed>>
    BY <1>5 DEF Submit
  <2>4. \A r \in Underway : r.page \in Page
    BY <1>1 DEF TypeOK, Report, Underway
  <2>5. \A r \in Underway : r.end # "saved" => r.page # mine[w]
    BY <1>1, <2>2 DEF Reported, TypeOK, Report, Underway, Outcome
  <2>6. mine[w] \notin saved
    BY <1>1, <2>2 DEF Reported
  <2>7. \A x \in Page \ {mine[w]} : write'[x] = write[x]
    BY <1>1, <2>1 DEF PagesOK
  <2>. QED
    BY <1>1, <2>2, <2>3, <2>4, <2>5, <2>6, <2>7 DEF Reported, PagesOK, Underway
<1>6. ASSUME NEW w \in Worker, PageFails(w)
      PROVE  Reported'
  <2>1. mine[w] \in Page /\ write[mine[w]] = "new"
    BY <1>6 DEF FetchInv, OnePlace, Holds, PageFails
  <2>2. mine[w] \notin saved
    BY <1>1, <2>1 DEF Reported
  <2>3. /\ UNCHANGED <<reports, late, saved, success, write>>
        /\ failed' \subseteq failed \cup {mine[w]}
    BY <1>6 DEF PageFails, CountFailed
  <2>. QED
    BY <1>1, <2>1, <2>2, <2>3 DEF Reported, Underway
<1>7. CASE CountReport
  <2>1. PICK r \in reports :
            /\ r \in Underway /\ r.page \in Page /\ r.end \in Outcome
            /\ reports' = reports \ {r}
            /\ success' = IF r.end = "saved" THEN success \cup {r.page} ELSE success
            /\ failed' = IF r.end = "lost" /\ ~canceled THEN failed \cup {r.page}
                         ELSE failed
    BY <1>1, <1>7, CountsOne
  <2>2. UNCHANGED <<late, saved, write>>
    BY <1>7 DEF CountReport
  <2>3. Underway' \subseteq Underway /\ Underway \subseteq Underway' \cup {r}
    BY <2>1, <2>2 DEF Underway
  <2>4. success' \subseteq saved' /\ success \subseteq success'
    BY <1>1, <2>1, <2>2 DEF Reported
  <2>5. \A x \in failed' : write'[x] \in {"new", "written"} /\ x \notin saved'
    BY <1>1, <2>1, <2>2 DEF Reported
  <2>6. \A x \in saved : x \in success'
            \/ [page |-> x, end |-> "saved"] \in Underway'
    <3>1. SUFFICES ASSUME NEW x \in saved, [page |-> x, end |-> "saved"] = r
          PROVE  x \in success'
      BY <1>1, <2>3, <2>4 DEF Reported
    <3>2. r.end = "saved" /\ r.page = x
      BY <3>1
    <3>. QED
      BY <2>1, <3>2
  <2>. QED
    BY <1>1, <1>2, <2>2, <2>3, <2>4, <2>5, <2>6 DEF Reported
<1>8. CASE DeliverLate
  <2>1. Underway' = Underway /\ UNCHANGED <<saved, success, failed, write>>
    BY <1>8 DEF DeliverLate, Underway
  <2>. QED
    BY <1>1, <1>2, <2>1 DEF Reported
<1>9. ASSUME NEW w \in Worker, WorkerStep(w), ~Submit(w), ~PageFails(w)
      PROVE  UNCHANGED <<reports, late, saved, success, failed, write>>
  BY <1>9 DEF WorkerStep, TakePage, Leave, Turn, Slot, CallOK, CallFails, GiveUp
<1>10. ASSUME Feed \/ CoolingEnds \/ Stop \/ CloseReports \/ Return
       PROVE  UNCHANGED <<reports, late, saved, success, failed, write>>
  BY <1>10 DEF Feed, CoolingEnds, Stop, CloseReports, Return
<1>11. ASSUME UNCHANGED <<reports, late, saved, success, failed, write>>
       PROVE  Reported'
  BY <1>1, <1>11 DEF Reported, Underway
<1>. QED
  BY <1>3, <1>4, <1>5, <1>6, <1>7, <1>8, <1>9, <1>10, <1>11 DEF Next, WriteStep, Loop

-----------------------------------------------------------------------------
(* No page is forgotten, and the end is final.                              *)

\* Where a page may be while the context is not done.
Somewhere(g) ==
    \/ g \in unread \cup channel \cup failed \cup saved
    \/ \E w \in Worker : Holds(w) /\ mine[w] = g
    \/ write[g] \in {"queued", "writing"}
    \/ [page |-> g, end |-> "lost"] \in Underway

\* After CollectPages has ended nothing of it moves but a stop that is refused.
LEMMA EndedStep ==
    ASSUME FetchInv, Next
    PROVE  Ended'
<1>1. WorkersOK /\ PagesOK /\ TypeOK /\ Ended
  BY TypeParts DEF FetchInv
<1>2. ASSUME NEW w \in Worker, WorkerStep(w)
      PROVE  Ended'
  <2>1. at[w] # "left" /\ UNCHANGED <<closed, result, reports>>
    BY <1>2 DEF WorkerStep, TakePage, Leave, Turn, Slot, CallOK, CallFails,
       PageFails, GiveUp, Submit
  <2>2. ~closed /\ result = "none"
    BY <1>1, <2>1 DEF Ended
  <2>. QED
    BY <2>1, <2>2 DEF Ended
<1>3. ASSUME NEW g \in Page, WriteStep(g)
      PROVE  Ended'
  <2>1. write[g] \in {"queued", "writing"}
    BY <1>1, <1>3, LaneMoves DEF WriteStep
  <2>2. ~closed /\ result = "none"
    BY <1>1, <2>1 DEF Ended, Outstanding
  <2>3. UNCHANGED <<closed, result>>
    BY <1>3 DEF WriteStep, StartWrite, EndWrite, DiscardWrite
  <2>. QED
    BY <2>2, <2>3 DEF Ended
<1>4. CASE CountReport
  <2>1. UNCHANGED <<closed, result, at, write, late>> /\ result = "none"
    BY <1>1, <1>4 DEF CountReport, Ended
  <2>. QED
    BY <1>1, <2>1 DEF Ended, Outstanding
<1>5. CASE DeliverLate
  <2>1. UNCHANGED <<closed, result>> /\ late # {}
    BY <1>5 DEF DeliverLate
  <2>2. ~closed /\ result = "none"
    BY <1>1, <2>1 DEF Ended, Outstanding
  <2>. QED
    BY <2>1, <2>2 DEF Ended
<1>6. CASE Feed \/ CoolingEnds \/ Stop
  <2>1. UNCHANGED <<closed, result, at, write, late, reports, failed>>
    BY <1>6 DEF Feed, CoolingEnds, Stop
  <2>2. result # "none" => (canceled' <=> canceled)
    BY <1>6 DEF Feed, CoolingEnds, Stop
  <2>3. Outstanding' <=> Outstanding
    BY <2>1 DEF Outstanding
  <2>4. (closed => (\A w \in Worker : at[w] = "left") /\ ~Outstanding)'
    BY <1>1, <2>1, <2>3 DEF Ended
  <2>. QED
    BY <1>1, <2>1, <2>2, <2>4 DEF Ended
<1>7. CASE CloseReports
  <2>1. UNCHANGED <<result, at, write, late, reports, failed, canceled>>
        /\ ~Outstanding /\ ~closed /\ closed' /\ \A w \in Worker : at[w] = "left"
    BY <1>7 DEF CloseReports
  <2>. QED
    BY <1>1, <2>1 DEF Ended, Outstanding
<1>8. CASE Return
  <2>1. UNCHANGED <<closed, at, write, late, reports, failed, canceled>>
        /\ closed /\ reports = {}
    BY <1>8 DEF Return
  <2>2. result' \in {"done", "failed pages"} => ~canceled
    BY <1>8 DEF Return
  <2>3. result' = "done" => failed = {}
    BY <1>8 DEF Return
  <2>. QED
    BY <1>1, <2>1, <2>2, <2>3 DEF Ended, Outstanding
<1>. QED
  BY <1>2, <1>3, <1>4, <1>5, <1>6, <1>7, <1>8 DEF Next, Loop

\* While the context is not done, a page only moves on.
LEMMA SomewhereStep ==
    ASSUME FetchInv, Next, ~canceled', NEW g \in Page, Somewhere(g)
    PROVE  Somewhere(g)'
<1>1. WorkersOK /\ PagesOK /\ TypeOK /\ Reported /\ Covered
  BY TypeParts DEF FetchInv
<1>2. ASSUME NEW w \in Worker, WorkerStep(w)
      PROVE  Somewhere(g)' 
  <2>0. ~canceled /\ UNCHANGED <<saved, reports, late>>
    BY <1>2 DEF WorkerStep, TakePage, Leave, Turn, Slot, CallOK, CallFails,
       PageFails, GiveUp, Submit
  <2>1. /\ \A v \in Worker \ {w} : at'[v] = at[v] /\ mine'[v] = mine[v]
        /\ failed \subseteq failed'
    BY <1>1, <1>2 DEF WorkerStep, TakePage, Leave, Turn, Slot, CallOK, CallFails,
       PageFails, GiveUp, Submit, CountFailed, Go, WorkersOK
  <2>2. CASE TakePage(w)
    <3>1. PICK x \in channel : channel' = channel \ {x} /\ mine' = [mine EXCEPT ![w] = x]
      BY <2>2 DEF TakePage
    <3>2. mine'[w] = x /\ at'[w] = "turn" /\ ~Holds(w)
      BY <1>1, <2>2, <3>1 DEF TakePage, Go, WorkersOK, Holds
    <3>3. UNCHANGED <<unread, failed, saved, write, reports, late>>
      BY <2>2 DEF TakePage
    <3>. QED
      BY <2>1, <3>1, <3>2, <3>3 DEF Somewhere, Holds, Underway
  <2>3. CASE Leave(w) \/ Turn(w) \/ Slot(w) \/ CallOK(w) \/ CallFails(w) \/ GiveUp(w)
    <3>1. UNCHANGED <<unread, channel, failed, write, mine>>
      BY <2>3 DEF Leave, Turn, Slot, CallOK, CallFails, GiveUp
    <3>2. Holds(w) => Holds(w)'
      BY <1>1, <2>0, <2>3 DEF Leave, Turn, Slot, CallOK, CallFails, GiveUp, Go, WorkersOK, Holds
    <3>. QED
      BY <2>0, <2>1, <3>1, <3>2 DEF Somewhere, Holds, Underway
  <2>4. CASE PageFails(w)
    <3>1. UNCHANGED <<unread, channel, write, mine>> /\ mine[w] \in failed'
      BY <2>0, <2>4 DEF PageFails, CountFailed
    <3>. QED
      BY <2>0, <2>1, <3>1 DEF Somewhere, Holds, Underway
  <2>5. CASE Submit(w)
    <3>1. /\ write' = [write EXCEPT ![mine[w]] = "queued"] /\ write[mine[w]] = "new"
      BY <1>1, <2>0, <2>5, LaneMoves
    <3>2. UNCHANGED <<unread, channel, failed, mine>>
      BY <2>5 DEF Submit
    <3>3. mine[w] \in Page
      BY <2>5 DEF FetchInv, OnePlace, Holds, Submit
    <3>4. write'[mine[w]] = "queued"
          /\ \A x \in Page \ {mine[w]} : write'[x] = write[x]
      BY <1>1, <3>1, <3>3 DEF PagesOK
    <3>. QED
      BY <2>0, <2>1, <3>2, <3>4 DEF Somewhere, Holds, Underway
  <2>. QED
    BY <1>2, <2>2, <2>3, <2>4, <2>5 DEF WorkerStep
<1>3. ASSUME NEW x \in Page, WriteStep(x)
      PROVE  Somewhere(g)'
  <2>1. UNCHANGED <<unread, channel, failed, at, mine, canceled, stopping>>
    BY <1>3 DEF WriteStep, StartWrite, EndWrite, DiscardWrite
  <2>2. ~DiscardWrite(x)
    BY <1>1, <2>1 DEF DiscardWrite, Covered
  <2>3. CASE StartWrite(x)
    <3>1. write' = [write EXCEPT ![x] = "writing"]
      BY <1>1, <2>3, LaneMoves
    <3>2. UNCHANGED <<saved, reports, late>>
      BY <2>3 DEF StartWrite
    <3>3. write[g] \in {"queued", "writing"} => write'[g] \in {"queued", "writing"}
      BY <1>1, <3>1 DEF PagesOK
    <3>. QED
      BY <2>1, <3>2, <3>3 DEF Somewhere, Holds, Underway
  <2>4. CASE EndWrite(x)
    <3>1. write' = [write EXCEPT ![x] = "written"]
      BY <1>1, <2>4, LaneMoves
    <3>2. PICK end \in {"saved", "lost"} :
            /\ saved' = IF end = "saved" THEN saved \cup {x} ELSE saved
            /\ Deliver([page |-> x, end |-> end])
      BY <2>4 DEF EndWrite
    <3>3. Underway \subseteq Underway' /\ [page |-> x, end |-> end] \in Underway'
      BY <3>2 DEF Deliver, Underway
    <3>4. saved \subseteq saved' /\ (end = "saved" => x \in saved')
      BY <3>2
    <3>5. g # x => write'[g] = write[g]
      BY <1>1, <3>1 DEF PagesOK
    <3>. QED
      BY <2>1, <3>2, <3>3, <3>4, <3>5 DEF Somewhere, Holds
  <2>. QED
    BY <1>3, <2>2, <2>3, <2>4 DEF WriteStep
<1>4. CASE CountReport
  <2>1. PICK r \in reports :
            /\ reports' = reports \ {r}
            /\ failed' = IF r.end = "lost" /\ ~canceled THEN failed \cup {r.page}
                         ELSE failed
    BY <1>1, <1>4, CountsOne
  <2>2. UNCHANGED <<unread, channel, saved, at, mine, write, late, canceled>>
    BY <1>4 DEF CountReport
  <2>3. failed \subseteq failed' /\ Underway \subseteq Underway' \cup {r}
    BY <2>1, <2>2 DEF Underway
  <2>4. [page |-> g, end |-> "lost"] = r => g \in failed'
    <3>1. SUFFICES ASSUME [page |-> g, end |-> "lost"] = r
          PROVE  g \in failed'
      OBVIOUS
    <3>2. r.end = "lost" /\ r.page = g
      BY <3>1
    <3>. QED
      BY <2>1, <2>2, <3>2
  <2>. QED
    BY <2>2, <2>3, <2>4 DEF Somewhere, Holds
<1>5. CASE DeliverLate
  <2>1. Underway' = Underway
        /\ UNCHANGED <<unread, channel, failed, saved, at, mine, write>>
    BY <1>5 DEF DeliverLate, Underway
  <2>. QED
    BY <2>1 DEF Somewhere, Holds
<1>6. CASE Feed
  <2>1. UNCHANGED <<failed, saved, at, mine, write, reports, late>>
    BY <1>6 DEF Feed
  <2>2. unread \cup channel \subseteq unread' \cup channel'
    BY <1>6 DEF Feed
  <2>. QED
    BY <2>1, <2>2 DEF Somewhere, Holds, Underway
<1>7. CASE CoolingEnds \/ Stop \/ CloseReports \/ Return
  <2>1. UNCHANGED <<unread, channel, failed, saved, at, mine, write, reports, late>>
    BY <1>7 DEF CoolingEnds, Stop, CloseReports, Return
  <2>. QED
    BY <2>1 DEF Somewhere, Holds, Underway
<1>. QED
  BY <1>2, <1>3, <1>4, <1>5, <1>6, <1>7 DEF Next, Loop

LEMMA CoveredStep ==
    ASSUME FetchInv, Next
    PROVE  Covered'
<1>1. WorkersOK /\ PagesOK /\ TypeOK /\ Covered
  BY TypeParts DEF FetchInv
<1>2. canceled => canceled'
  BY DEF Next, WorkerStep, TakePage, Leave, Turn, Slot, CallOK, CallFails, PageFails,
     GiveUp, Submit, WriteStep, StartWrite, EndWrite, DiscardWrite, Loop, Feed,
     CoolingEnds, Stop, DeliverLate, CloseReports, CountReport, Return
<1>3. stopping' \/ unproven' => canceled'
  <2>1. (stopping' = stopping /\ unproven' = unproven) \/ canceled'
    BY DEF Next, WorkerStep, TakePage, Leave, Turn, Slot, CallOK, CallFails, PageFails,
       GiveUp, Submit, WriteStep, StartWrite, EndWrite, DiscardWrite, Loop, Feed,
       CoolingEnds, Stop, DeliverLate, CloseReports, CountReport, Return
  <2>. QED
    BY <1>1, <1>2, <2>1 DEF Covered
<1>4. ASSUME ~canceled'
      PROVE  fed' => unread' = {}
  <2>1. CASE Feed
    BY <1>1, <1>2, <1>4, <2>1 DEF Feed, Covered
  <2>2. CASE ~Feed
    <3>1. UNCHANGED <<fed, unread>>
      BY <2>2 DEF Next, WorkerStep, TakePage, Leave, Turn, Slot, CallOK, CallFails,
         PageFails, GiveUp, Submit, WriteStep, StartWrite, EndWrite, DiscardWrite, Loop,
         CoolingEnds, Stop, DeliverLate, CloseReports, CountReport, Return
    <3>. QED
      BY <1>1, <1>2, <1>4, <3>1 DEF Covered
  <2>. QED
    BY <2>1, <2>2
<1>5. ASSUME ~canceled', NEW w \in Worker, at'[w] = "left"
      PROVE  fed' /\ channel' = {}
  <2>1. CASE at[w] = "left"
    <3>1. fed /\ channel = {} /\ ~canceled
      BY <1>1, <1>2, <1>5, <2>1 DEF Covered
    <3>2. UNCHANGED <<fed, channel>>
      BY <3>1 DEF Next, WorkerStep, TakePage, Leave, Turn, Slot, CallOK, CallFails,
         PageFails, GiveUp, Submit, WriteStep, StartWrite, EndWrite, DiscardWrite, Loop,
         Feed, CoolingEnds, Stop, DeliverLate, CloseReports, CountReport, Return
    <3>. QED
      BY <3>1, <3>2
  <2>2. CASE at[w] # "left"
    <3>1. PICK v \in Worker : WorkerStep(v)
      BY <1>5, <2>2 DEF Next, WriteStep, StartWrite, EndWrite, DiscardWrite, Loop,
         Feed, CoolingEnds, Stop, DeliverLate, CloseReports, CountReport, Return
    <3>2. ~canceled
      BY <1>2, <1>5
    <3>3. CASE Leave(v)
      BY <3>2, <3>3 DEF Leave
    <3>4. ~(TakePage(v) \/ Turn(v) \/ Slot(v) \/ CallOK(v) \/ CallFails(v) \/ GiveUp(v))
      BY <1>1, <1>5, <2>2 DEF TakePage, Turn, Slot, CallOK, CallFails, GiveUp, Go, WorkersOK
    <3>5. ~PageFails(v)
      BY <1>1, <1>5, <2>2, <3>2 DEF PageFails, Go, WorkersOK
    <3>6. ~Submit(v)
      <4>1. Submit(v) => at' = [at EXCEPT ![v] = "idle"]
        BY <1>1, <3>2, LaneMoves
      <4>. QED
        BY <1>1, <1>5, <2>2, <4>1 DEF WorkersOK
    <3>. QED
      BY <3>1, <3>3, <3>4, <3>5, <3>6 DEF WorkerStep
  <2>. QED
    BY <2>1, <2>2
<1>6. ASSUME ~canceled', NEW g \in Page
      PROVE  Somewhere(g)'
  <2>1. Somewhere(g)
    BY <1>1, <1>2, <1>6 DEF Covered, Somewhere
  <2>. QED
    BY <1>6, <2>1, SomewhereStep
<1>. QED
  BY <1>3, <1>4, <1>5, <1>6 DEF Covered, Somewhere

-----------------------------------------------------------------------------
(* The theorems.                                                            *)

LEMMA InitInv == Init => FetchInv
<1>. SUFFICES ASSUME Init
     PROVE  FetchInv
  OBVIOUS
<1>. USE FetchAssumption
<1>1. FlagsOK
  BY Zenon DEF Init, FlagsOK
<1>2. WorkersOK
  BY DEF Init, WorkersOK
<1>3. write = [g \in Page |-> "new"]
  BY DEF Init, Lane!Init
<1>4. PagesOK
  BY <1>3 DEF Init, PagesOK, Lane!State
<1>5. Callers = {}
  BY DEF Init, Callers
<1>6. /\ free \in 0 .. Slots
      /\ free = Slots - Cardinality({w \in Worker : at[w] = "call"})
  <2>1. Cardinality({w \in Worker : at[w] = "call"}) = 0
    BY <1>5, FS_EmptySet DEF Callers
  <2>. QED
    BY <2>1 DEF Init
<1>7. Cardinality(Page) \in Nat /\ fails \in 0 .. Cardinality(Page)
  BY FS_CardinalityType DEF Init
<1>8. Cardinality(reports) <= Capacity /\ reports \subseteq Report /\ late \subseteq Report
  BY FS_EmptySet DEF Init
<1>9. TypeOK
  BY <1>1, <1>2, <1>4, <1>6, <1>7, <1>8 DEF TypeOK, FlagsOK, WorkersOK, PagesOK
<1>10. OnePlace
  BY <1>3 DEF Init, OnePlace, Holds
<1>11. FailsCounted
  <2>1. Unfetched = {}
    BY DEF Init, Unfetched
  <2>. QED
    BY <2>1, FS_EmptySet DEF Init, FailsCounted
<1>12. Reported
  BY FS_EmptySet DEF Init, Reported, Underway
<1>13. Covered
  BY DEF Init, Covered
<1>14. Ended
  BY DEF Init, Ended
<1>. QED
  BY <1>9, <1>10, <1>11, <1>12, <1>13, <1>14 DEF FetchInv

LEMMA NextInv == FetchInv /\ [Next]_vars => FetchInv'
<1>1. CASE Next
  BY <1>1, TypeStep, OnePlaceStep, FailsStep, ReportedStep, CoveredStep, EndedStep
  DEF FetchInv
<1>2. CASE UNCHANGED vars
  <2>. USE <1>2 DEF vars, FetchInv
  <2>1. FetchInv => TypeOK'
    BY DEF TypeOK
  <2>2. FetchInv => OnePlace'
    BY DEF OnePlace, Holds
  <2>3. FetchInv => FailsCounted'
    BY DEF FailsCounted, Unfetched
  <2>4. FetchInv => Reported'
    BY DEF Reported, Underway
  <2>5. FetchInv => Covered'
    BY DEF Covered, Holds, Underway
  <2>6. FetchInv => Ended'
    BY DEF Ended, Outstanding
  <2>. QED
    BY <2>1, <2>2, <2>3, <2>4, <2>5, <2>6
<1>. QED
  BY <1>1, <1>2

\* When the reports are counted, nothing is under way any more.
LEMMA CountsAgree == FetchInv => PagesCounted
<1>. SUFFICES ASSUME FetchInv, result # "none"
     PROVE  /\ \A g \in Page : write[g] \notin {"queued", "writing"}
            /\ success = saved
            /\ success \cap failed = {}
            /\ result \in {"done", "failed pages"} => success \cup failed = Page
            /\ result = "done" => success = Page
  BY DEF PagesCounted
<1>1. PagesOK /\ Reported /\ Covered /\ Ended /\ OnePlace
  BY TypeParts DEF FetchInv
<1>2. /\ \A w \in Worker : at[w] = "left"
      /\ \A g \in Page : write[g] \notin {"queued", "writing"}
      /\ Underway = {}
  BY <1>1 DEF Ended, Outstanding, Underway
<1>3. success = saved /\ success \cap failed = {}
  BY <1>1, <1>2 DEF Reported
<1>4. ASSUME result \in {"done", "failed pages"}
      PROVE  success \cup failed = Page
  <2>1. ~canceled
    BY <1>1, <1>4 DEF Ended
  <2>2. PICK w \in Worker : TRUE
    BY FetchAssumption
  <2>3. fed /\ channel = {} /\ unread = {}
    BY <1>1, <1>2, <2>1, <2>2 DEF Covered
  <2>4. \A g \in Page : g \in failed \cup saved
    BY <1>1, <1>2, <2>1, <2>3 DEF Covered, Holds
  <2>. QED
    BY <1>1, <1>3, <2>4 DEF PagesOK
<1>5. result = "done" => success = Page
  BY <1>1, <1>4 DEF Ended
<1>. QED
  BY <1>2, <1>3, <1>4, <1>5

\* Throughout every collection each page is in one place, every report says
\* what became of its page, and no page is forgotten before a stop.
THEOREM FetchInvHolds == Spec => []FetchInv
BY InitInv, NextInv, PTL DEF Spec

\* For any pages, workers and limits: when CollectPages returns, what it counts
\* as success is what is in the database, and unless it was stopped or given
\* up every page counts once.
THEOREM PagesSafeHolds == Spec => []PagesSafe
<1>1. FetchInv => PagesSafe
  BY CountsAgree DEF PagesSafe, FetchInv
<1>. QED
  BY <1>1, FetchInvHolds, PTL
=============================================================================
