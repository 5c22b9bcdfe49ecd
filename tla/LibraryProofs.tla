--------------------------- MODULE LibraryProofs ---------------------------
(***************************************************************************)
(* Proofs about the record of a batch, the cached pages, the films, the    *)
(* figures of the visitors and the categories.                             *)
(*                                                                         *)
(* The record, for any sources and films and any number of refused         *)
(* statements.  The invariant follows a film from the list through the     *)
(* queue and the hands of a checkpoint into the table, in one place at a   *)
(* time, and says who is still at work once the batch settles: nobody but  *)
(* the settlement itself.                                                  *)
(*                                                                         *)
(* The pages, for any films, readers and writers and any number of         *)
(* changes.  The invariant says what an invalidation still has to do, and  *)
(* of a reader with an old page in its hands that it will be told, or that *)
(* somebody deletes the page once it is stored.                            *)
(*                                                                         *)
(* The films, for any sources and vods and any number of goroutines.  The  *)
(* invariant says which film each vod stands for, how old its lines can be *)
(* and what a page that has read and not yet committed may rely on.        *)
(*                                                                         *)
(* The figures, for any number of days, events, failures and deletions.    *)
(* The invariant says where the figures of a day that is over can be: in   *)
(* MySQL, in Redis, or in the hands of the archive between the two.        *)
(*                                                                         *)
(* The categories, for any sources and trees and any number of goroutines. *)
(* The invariant says whose each category is, in the tables and in every   *)
(* snapshot that a transaction still holds.                                *)
(***************************************************************************)
EXTENDS MCLibrary, Sequences, FiniteSetTheorems, WellFoundedInduction, TLAPS

-----------------------------------------------------------------------------
(* The inductive invariant                                                 *)

\* Where the goroutines are, and the deleter is at a source while it deletes.
Places ==
    /\ \A s \in Source : at[s] \in {"collects", "waits", "drains", "saves",
                                    "reports", "left"}
    /\ at[Flusher] \in {"idle", "saves", "reports"}
    /\ at[Settler] \in {"batch", "waits", "drains", "saves", "reports",
                        "settles", "marks", "closed"}
    /\ at[Deleter] \in {"idle", "purges", "marks"}
    /\ at[Deleter] = "idle" <=> target = Nobody

\* Films are in somebody's hands only during a checkpoint, and in the
\* settlement's until it gives them up.
EmptyHanded ==
    \A p \in Proc : \/ at[p] \in {"saves", "reports"}
                    \/ p = Settler /\ at[p] = "settles"
                    \/ \A s \in Source : hand[p][s] = {}

\* The settlement comes last.
Ends ==
    /\ at[Settler] # "batch" => \A s \in Source : at[s] = "left"
    /\ at[Settler] \in {"drains", "saves", "reports", "settles", "marks"} =>
          at[Flusher] = "idle"
    /\ record.status = "settled" \/ ~open =>
          at[Settler] = "closed" /\ at[Flusher] = "idle"

\* recordMu belongs to the checkpoint that reports, and to the deleter.
Guarded ==
    /\ \A p \in Proc : at[p] = "reports" => holder = p
    /\ open /\ at[Deleter] # "idle" => holder = Deleter

\* A listed film is queued, in one pair of hands, or stored.
HandsApart ==
    \A p, q \in Proc : p # q =>
        \A s \in Source : hand[p][s] \cap hand[q][s] = {}
HandsTrue ==
    \A p \in Proc : \A s \in Source :
        /\ hand[p][s] \subseteq listed[s]
        /\ hand[p][s] \cap rows[s] = {}
        /\ \/ p = Settler /\ at[p] = "settles"
           \/ hand[p][s] \cap pending[s] = {}
RowsTrue ==
    /\ \A s \in Source : pending[s] \cap rows[s] = {}
    /\ at[Settler] # "closed" => \A s \in Source : rows[s] \subseteq listed[s]

\* The last checkpoint leaves in the queue what it could not store, and the
\* settlement gives that up.
Drained ==
    /\ at[Settler] \in {"saves", "reports", "marks"} =>
          \A s \in Source : pending[s] = {}
    /\ at[Settler] = "settles" =>
          \A s \in Source : pending[s] = hand[Settler][s]

\* Until the batch drops it, a purged source has no rows and is not mentioned.
Purged ==
    at[Deleter] = "marks" =>
        rows[target] = {} /\ (record.there => record.films[target] = Absent)

\* A snapshot, and later a result, counts what its source listed.
Snapped ==
    at[Settler] = "batch" =>
        \A s \in Source : \/ snap[s] = Absent
                          \/ at[s] # "collects" /\ snap[s] = Cardinality(listed[s])
Resulted ==
    at[Settler] \notin {"batch", "closed"} =>
        \A s \in Source \ dropped : results[s] = Cardinality(listed[s])

\* A settled record counts the rows, and a source it leaves out has none.
Settled ==
    record.there /\ record.status = "settled" /\ spared = {} =>
        /\ record.count = Sum(Stored(rows))
        /\ \A s \in Source : IF record.films[s] = Absent THEN rows[s] = {}
                             ELSE record.films[s] = Cardinality(rows[s])

\* The inductive invariant.
RecordInv ==
    /\ TypeOK /\ Places /\ EmptyHanded /\ Ends /\ Guarded
    /\ HandsApart /\ HandsTrue /\ RowsTrue /\ Drained /\ Purged
    /\ Snapped /\ Resulted /\ Settled /\ DroppedStaysOut /\ NoFilmLost

-----------------------------------------------------------------------------
(* Processes and cardinalities                                             *)

\* The goroutines of a batch are distinct.
LEMMA Processes ==
    /\ Flusher \in Proc /\ Settler \in Proc /\ Deleter \in Proc
    /\ \A p \in Proc : \/ p \in Source \/ p = Flusher \/ p = Settler
                       \/ p = Deleter
    /\ \A s \in Source : /\ s \in Proc /\ s # Flusher /\ s # Settler
                         /\ s # Deleter
    /\ Flusher # Settler /\ Flusher # Deleter /\ Settler # Deleter
    /\ Nobody \notin Proc /\ Nobody \notin Source
    BY BatchAssumption DEF Proc

\* What is counted of finitely many films; no count is Absent.
LEMMA Counting ==
    /\ \A noted \in SUBSET Film : /\ Cardinality(noted) \in Nat
                                  /\ Cardinality(noted) \in Total
                                  /\ Cardinality(noted) # Absent
    /\ Cardinality({}) = 0
    /\ Absent \in Total /\ \A n \in Total : n \in Int /\ n >= Absent
<1>1. IsFiniteSet(Film) /\ Cardinality(Film) \in Nat
    BY BatchAssumption, FS_CardinalityType
<1>2. ASSUME NEW noted \in SUBSET Film
      PROVE  Cardinality(noted) \in Nat /\ Cardinality(noted) <= Cardinality(Film)
    BY <1>1, FS_Subset, FS_CardinalityType
<1>3. Cardinality({}) = 0
    BY FS_EmptySet
<1> QED BY <1>1, <1>2, <1>3 DEF Total, Absent

\* A step of a checkpoint moves one goroutine.
LEMMA Going ==
    ASSUME TypeOK, NEW p \in Proc, NEW there, Go(p, there)
    PROVE  /\ at'[p] = there
           /\ \A q \in Proc : q # p => at'[q] = at[q]
    BY DEF Go, TypeOK

\* LiveProgress mentions no source the batch dropped, and gives what a source
\* listed once its snapshot does.
LEMMA Progressing ==
    ASSUME TypeOK
    PROVE  /\ LiveProgress \in [Source -> Total]
           /\ \A s \in dropped : LiveProgress[s] = Absent
           /\ \A s \in Source \ dropped :
                 snap[s] \in {Absent, Cardinality(listed[s])} =>
                     LiveProgress[s] = Cardinality(listed[s])
<1>1. ASSUME NEW s \in Source
      PROVE  /\ Larger(Cardinality(listed[s]), snap[s]) \in Total
             /\ snap[s] \in {Absent, Cardinality(listed[s])} =>
                   Larger(Cardinality(listed[s]), snap[s]) = Cardinality(listed[s])
    <2>1. /\ Cardinality(listed[s]) \in Nat /\ Cardinality(listed[s]) \in Total
          /\ snap[s] \in Total
        BY Counting DEF TypeOK
    <2> QED BY <2>1 DEF Larger, Absent
<1>2. Absent \in Total
    BY Counting
<1> QED BY <1>1, <1>2 DEF LiveProgress, TypeOK

-----------------------------------------------------------------------------
(* Every step keeps it                                                     *)

\* A source lists films (trackFilmsLocked).
LEMMA TrackKeeps ==
    ASSUME RecordInv, NEW s \in Source, NEW noted \in SUBSET Film,
           TrackFilms(s, noted)
    PROVE  RecordInv'
<1>0. /\ TypeOK /\ Places /\ EmptyHanded /\ Ends /\ Guarded
      /\ HandsApart /\ HandsTrue /\ RowsTrue /\ Drained /\ Purged
      /\ Snapped /\ Resulted /\ Settled /\ DroppedStaysOut /\ NoFilmLost
    BY DEF RecordInv
<1>1. /\ at[s] = "collects" /\ s \notin dropped /\ at[Settler] = "batch"
      /\ UNCHANGED <<snap, dropped, open, results, holder, at, hand, target,
                     rows, record, alive, spared, fails>>
    BY <1>0 DEF TrackFilms, Ends, tables
<1>2. /\ \A t \in Source : t # s => listed'[t] = listed[t] /\ pending'[t] = pending[t]
      /\ listed'[s] = listed[s] \cup noted
      /\ pending'[s] = pending[s] \cup (noted \ listed[s])
    BY <1>0 DEF TrackFilms, TypeOK
<1>3. TypeOK'
    <2>1. /\ listed' \in [Source -> SUBSET Film]
          /\ pending' \in [Source -> SUBSET Film]
        BY <1>0 DEF TrackFilms, TypeOK
    <2>2. \A t \in Source : pending'[t] \subseteq listed'[t]
        BY <1>0, <1>2 DEF TypeOK
    <2> QED BY <1>0, <1>1, <2>1, <2>2 DEF TypeOK
<1>4. /\ Places' /\ EmptyHanded' /\ Ends' /\ Guarded' /\ HandsApart' /\ Purged'
      /\ DroppedStaysOut'
    BY <1>0, <1>1
    DEF Places, EmptyHanded, Ends, Guarded, HandsApart, Purged, DroppedStaysOut
<1>5. HandsTrue' /\ RowsTrue'
    <2>1. ASSUME NEW t \in Source
          PROVE  /\ listed[t] \subseteq listed'[t]
                 /\ pending'[t] \subseteq pending[t] \cup (noted \ listed[t])
        BY <1>2
    <2>2. \A t \in Source : rows[t] \subseteq listed[t]
        BY <1>0, <1>1 DEF RowsTrue
    <2>3. HandsTrue'
        BY <1>0, <1>1, <2>1 DEF HandsTrue
    <2>4. RowsTrue'
        BY <1>0, <1>1, <2>1, <2>2 DEF RowsTrue
    <2> QED BY <2>3, <2>4
<1>6. Drained' /\ Resulted'
    BY <1>1 DEF Drained, Resulted
<1>7. Snapped'
    BY <1>0, <1>1, <1>2 DEF Snapped
<1>8. Settled'
    BY <1>0, <1>1 DEF Settled, Stored
<1>9. NoFilmLost'
    BY <1>0, <1>1, <1>2 DEF NoFilmLost
<1> QED BY <1>3, <1>4, <1>5, <1>6, <1>7, <1>8, <1>9 DEF RecordInv

\* A checkpoint takes what is queued (maybeFlushRecord).
LEMMA FlushKeeps ==
    ASSUME RecordInv, NEW s \in Source, FlushAsync(s)
    PROVE  RecordInv'
<1>0. /\ TypeOK /\ Places /\ EmptyHanded /\ Ends /\ Guarded
      /\ HandsApart /\ HandsTrue /\ RowsTrue /\ Drained /\ Purged
      /\ Snapped /\ Resulted /\ Settled /\ DroppedStaysOut /\ NoFilmLost
    BY DEF RecordInv
<1>1. /\ at[s] = "collects" /\ at[Flusher] = "idle" /\ at[Settler] = "batch"
      /\ UNCHANGED <<listed, snap, dropped, open, results, holder, target,
                     rows, record, alive, spared, fails>>
    BY <1>0 DEF FlushAsync, Ends, tables
<1>2. /\ at'[Flusher] = "saves"
      /\ \A q \in Proc : q # Flusher => at'[q] = at[q]
    BY <1>0, Going, Processes DEF FlushAsync
<1>3. /\ hand'[Flusher] = pending
      /\ \A q \in Proc : q # Flusher => hand'[q] = hand[q]
      /\ \A t \in Source : pending'[t] = {} /\ hand[Flusher][t] = {}
    BY <1>0, <1>1, Processes DEF FlushAsync, TypeOK, NoFilms, EmptyHanded
<1>4. TypeOK'
    <2>1. /\ pending' \in [Source -> SUBSET Film]
          /\ hand' \in [Proc -> [Source -> SUBSET Film]]
        BY <1>0, Processes DEF FlushAsync, TypeOK, NoFilms
    <2>2. at' \in [Proc -> {"collects", "waits", "drains", "saves", "reports", "left",
                        "idle", "purges", "marks", "batch", "settles", "closed"}]
        BY <1>0 DEF FlushAsync, Go, TypeOK
    <2> QED BY <1>0, <1>1, <1>3, <2>1, <2>2 DEF TypeOK
<1>5. Places' /\ EmptyHanded' /\ Ends' /\ Guarded'
    BY <1>0, <1>1, <1>2, <1>3, Processes DEF Places, EmptyHanded, Ends, Guarded
<1>6. HandsApart'
    BY <1>0, <1>1, <1>3, Processes DEF HandsApart, HandsTrue
<1>7. HandsTrue' /\ RowsTrue'
    BY <1>0, <1>1, <1>2, <1>3, Processes, ZenonT(60) DEF HandsTrue, RowsTrue, TypeOK
<1>8. Drained' /\ Resulted' /\ Purged' /\ DroppedStaysOut'
    BY <1>0, <1>1, <1>2, Processes DEF Drained, Resulted, Purged, DroppedStaysOut
<1>9. Snapped' /\ Settled'
    BY <1>0, <1>1, <1>2, Processes DEF Snapped, Settled, Stored
<1>10. NoFilmLost'
    BY <1>0, <1>1, <1>3, Processes DEF NoFilmLost
<1> QED BY <1>4, <1>5, <1>6, <1>7, <1>8, <1>9, <1>10 DEF RecordInv

\* A source ends (recordSourceSnapshot).
LEMMA EndKeeps ==
    ASSUME RecordInv, NEW s \in Source, EndSource(s)
    PROVE  RecordInv'
<1>0. /\ TypeOK /\ Places /\ EmptyHanded /\ Ends /\ Guarded
      /\ HandsApart /\ HandsTrue /\ RowsTrue /\ Drained /\ Purged
      /\ Snapped /\ Resulted /\ Settled /\ DroppedStaysOut /\ NoFilmLost
    BY DEF RecordInv
<1>1. /\ at[s] = "collects" /\ at[Settler] = "batch"
      /\ UNCHANGED <<listed, pending, dropped, open, results, holder, hand,
                     target, rows, record, alive, spared, fails>>
    BY <1>0 DEF EndSource, Ends, tables
<1>2. PICK there \in {"waits", "left"} : Go(s, there)
    BY DEF EndSource
<1>3. /\ at'[s] \in {"waits", "left"}
      /\ \A q \in Proc : q # s => at'[q] = at[q]
    BY <1>0, <1>2, Going, Processes
<1>4. /\ snap' \in [Source -> Total]
      /\ \A t \in Source : t # s => snap'[t] = snap[t]
      /\ snap'[s] = Absent \/ snap'[s] = Cardinality(listed[s])
    <2>1. Cardinality(listed[s]) \in Total
        BY <1>0, Counting DEF TypeOK
    <2> QED BY <1>0, <1>1, <2>1 DEF EndSource, Snapped, TypeOK
<1>5. TypeOK'
    <2>1. at' \in [Proc -> {"collects", "waits", "drains", "saves", "reports", "left",
                        "idle", "purges", "marks", "batch", "settles", "closed"}]
        BY <1>0, <1>2 DEF Go, TypeOK
    <2> QED BY <1>0, <1>1, <1>4, <2>1 DEF TypeOK
<1>6. Places' /\ EmptyHanded' /\ Ends' /\ Guarded'
    BY <1>0, <1>1, <1>3, Processes DEF Places, EmptyHanded, Ends, Guarded
<1>7. HandsApart' /\ HandsTrue' /\ RowsTrue'
    BY <1>0, <1>1, <1>3, Processes DEF HandsApart, HandsTrue, RowsTrue
<1>8. Drained' /\ Resulted' /\ Purged' /\ DroppedStaysOut' /\ NoFilmLost'
    BY <1>0, <1>1, <1>3, Processes
    DEF Drained, Resulted, Purged, DroppedStaysOut, NoFilmLost
<1>9. Snapped' /\ Settled'
    BY <1>0, <1>1, <1>3, <1>4, Processes DEF Snapped, Settled, Stored
<1> QED BY <1>5, <1>6, <1>7, <1>8, <1>9 DEF RecordInv

\* A source or the settlement has waited for the checkpoint (flushRecordSync).
LEMMA WaitKeeps ==
    ASSUME RecordInv, NEW p \in Proc, Waited(p)
    PROVE  RecordInv'
<1>0. /\ TypeOK /\ Places /\ EmptyHanded /\ Ends /\ Guarded
      /\ HandsApart /\ HandsTrue /\ RowsTrue /\ Drained /\ Purged
      /\ Snapped /\ Resulted /\ Settled /\ DroppedStaysOut /\ NoFilmLost
    BY DEF RecordInv
<1>1. /\ at[p] = "waits" /\ at[Flusher] = "idle" /\ p \in Source \cup {Settler}
      /\ UNCHANGED <<listed, pending, snap, dropped, open, results, holder, hand,
                     target, rows, record, alive, spared, fails>>
    BY <1>0, Processes DEF Waited, Places, memory, tables
<1>2. Go(p, "drains")
    BY DEF Waited
<1>3. /\ at'[p] = "drains"
      /\ \A q \in Proc : q # p => at'[q] = at[q]
    BY <1>0, <1>2, Going
<1>4. TypeOK'
    <2>1. at' \in [Proc -> {"collects", "waits", "drains", "saves", "reports", "left",
                        "idle", "purges", "marks", "batch", "settles", "closed"}]
        BY <1>0, <1>2 DEF Go, TypeOK
    <2> QED BY <1>0, <1>1, <2>1 DEF TypeOK
<1>5. Places' /\ EmptyHanded' /\ Ends' /\ Guarded'
    BY <1>0, <1>1, <1>3, Processes DEF Places, EmptyHanded, Ends, Guarded
<1>6. HandsApart' /\ HandsTrue' /\ RowsTrue'
    BY <1>0, <1>1, <1>3, Processes DEF HandsApart, HandsTrue, RowsTrue
<1>7. Drained' /\ Resulted' /\ Purged' /\ DroppedStaysOut' /\ NoFilmLost'
    BY <1>0, <1>1, <1>3, Processes
    DEF Drained, Resulted, Purged, DroppedStaysOut, NoFilmLost
<1>8. Snapped' /\ Settled'
    BY <1>0, <1>1, <1>3, Processes DEF Snapped, Settled, Stored
<1> QED BY <1>4, <1>5, <1>6, <1>7, <1>8 DEF RecordInv

\* It takes what is queued (drainPendingLocked).
LEMMA DrainKeeps ==
    ASSUME RecordInv, NEW p \in Proc, Drain(p)
    PROVE  RecordInv'
<1>0. /\ TypeOK /\ Places /\ EmptyHanded /\ Ends /\ Guarded
      /\ HandsApart /\ HandsTrue /\ RowsTrue /\ Drained /\ Purged
      /\ Snapped /\ Resulted /\ Settled /\ DroppedStaysOut /\ NoFilmLost
    BY DEF RecordInv
<1>1. /\ at[p] = "drains" /\ p \in Source \cup {Settler}
      /\ UNCHANGED <<listed, snap, dropped, open, results, holder, target,
                     rows, record, alive, spared, fails>>
    BY <1>0, Processes DEF Drain, Places, tables
<1>2. Go(p, "saves")
    BY DEF Drain
<1>3. /\ at'[p] = "saves"
      /\ \A q \in Proc : q # p => at'[q] = at[q]
    BY <1>0, <1>2, Going
<1>4. /\ hand'[p] = pending
      /\ \A q \in Proc : q # p => hand'[q] = hand[q]
      /\ \A t \in Source : pending'[t] = {} /\ hand[p][t] = {}
    BY <1>0, <1>1, Processes DEF Drain, TypeOK, NoFilms, EmptyHanded
<1>5. TypeOK'
    <2>1. /\ pending' \in [Source -> SUBSET Film]
          /\ hand' \in [Proc -> [Source -> SUBSET Film]]
        BY <1>0 DEF Drain, TypeOK, NoFilms
    <2>2. at' \in [Proc -> {"collects", "waits", "drains", "saves", "reports", "left",
                        "idle", "purges", "marks", "batch", "settles", "closed"}]
        BY <1>0, <1>2 DEF Go, TypeOK
    <2> QED BY <1>0, <1>1, <1>4, <2>1, <2>2 DEF TypeOK
<1>6. at[Settler] # "settles"
    BY <1>0, <1>1, Processes DEF Ends
<1>7. Places' /\ EmptyHanded' /\ Ends' /\ Guarded'
    BY <1>0, <1>1, <1>3, <1>4, Processes DEF Places, EmptyHanded, Ends, Guarded
<1>8. HandsApart' /\ HandsTrue' /\ RowsTrue'
    <2>1. HandsApart'
        BY <1>0, <1>1, <1>4, <1>6 DEF HandsApart, HandsTrue
    <2>2. HandsTrue'
        BY <1>0, <1>1, <1>3, <1>4, <1>6 DEF HandsTrue, RowsTrue, TypeOK
    <2>3. RowsTrue'
        BY <1>0, <1>1, <1>3, <1>4, Processes DEF RowsTrue
    <2> QED BY <2>1, <2>2, <2>3
<1>9. Drained' /\ Resulted' /\ Purged' /\ DroppedStaysOut'
    BY <1>0, <1>1, <1>3, <1>4, <1>6, Processes
    DEF Drained, Resulted, Purged, DroppedStaysOut
<1>10. Snapped' /\ Settled'
    BY <1>0, <1>1, <1>3, Processes DEF Snapped, Settled, Stored
<1>11. NoFilmLost'
    BY <1>0, <1>1, <1>4 DEF NoFilmLost
<1> QED BY <1>5, <1>7, <1>8, <1>9, <1>10, <1>11 DEF RecordInv

\* Films are stored but for those of dropped sources and those refused
\* (BatchSaveCollectRecordFilms).
LEMMA SaveKeeps ==
    ASSUME RecordInv, NEW p \in Proc, Save(p)
    PROVE  RecordInv'
<1>0. /\ TypeOK /\ Places /\ EmptyHanded /\ Ends /\ Guarded
      /\ HandsApart /\ HandsTrue /\ RowsTrue /\ Drained /\ Purged
      /\ Snapped /\ Resulted /\ Settled /\ DroppedStaysOut /\ NoFilmLost
    BY DEF RecordInv
<1>1. /\ at[p] = "saves" /\ holder = Nobody /\ holder' = p /\ p # Deleter
      /\ UNCHANGED <<listed, pending, snap, dropped, open, results, target,
                     record, alive, spared>>
    BY <1>0, Processes DEF Save, Places, memory
<1>2. Go(p, "reports")
    BY DEF Save
<1>3. /\ at'[p] = "reports"
      /\ \A q \in Proc : q # p => at'[q] = at[q]
    BY <1>0, <1>2, Going
<1>4. PICK unstored \in [Source -> SUBSET Film] :
        /\ \A t \in Source : unstored[t] \subseteq WithoutDropped(hand[p])[t]
        /\ IF unstored = NoFilms THEN UNCHANGED fails ELSE Fails
        /\ rows' = [t \in Source |->
                rows[t] \cup (WithoutDropped(hand[p])[t] \ unstored[t])]
        /\ hand' = [hand EXCEPT ![p] = unstored]
    BY DEF Save
<1>5. \A t \in Source : WithoutDropped(hand[p])[t] =
                            IF t \in dropped THEN {} ELSE hand[p][t]
    BY DEF WithoutDropped
<1>6. ASSUME NEW t \in Source
      PROVE  /\ unstored[t] \subseteq hand[p][t]
             /\ rows'[t] \subseteq rows[t] \cup (hand[p][t] \ unstored[t])
             /\ t \in dropped => rows'[t] = rows[t]
             /\ t \notin dropped => rows'[t] \cup unstored[t] = rows[t] \cup hand[p][t]
    BY <1>4, <1>5
<1>7. /\ hand'[p] = unstored
      /\ \A q \in Proc : q # p => hand'[q] = hand[q]
    BY <1>0, <1>4 DEF TypeOK
<1>8. TypeOK'
    <2>1. hand' \in [Proc -> [Source -> SUBSET Film]]
        BY <1>0, <1>4 DEF TypeOK
    <2>2. at' \in [Proc -> {"collects", "waits", "drains", "saves", "reports", "left",
                        "idle", "purges", "marks", "batch", "settles", "closed"}]
        BY <1>0, <1>2 DEF Go, TypeOK
    <2>3. rows' \in [Source -> SUBSET Film]
        <3>1. \A t \in Source : rows[t] \cup (WithoutDropped(hand[p])[t] \ unstored[t])
                                 \in SUBSET Film
            BY <1>0, <1>5 DEF TypeOK
        <3> QED BY <1>4, <3>1
    <2>4. fails' \in 0 .. MaxFails
        BY <1>0, <1>4, BatchAssumption DEF TypeOK, Fails
    <2> QED BY <1>0, <1>1, <2>1, <2>2, <2>3, <2>4 DEF TypeOK
<1>9. /\ open /\ record.status # "settled" /\ at[Deleter] = "idle"
      /\ at[Settler] # "settles"
    <2>1. open /\ record.status # "settled" /\ at[Settler] # "settles"
        BY <1>0, <1>1, Processes DEF Ends
    <2> QED BY <1>0, <1>1, <2>1, Processes DEF Guarded
<1>10. Places' /\ EmptyHanded' /\ Ends' /\ Guarded'
    BY <1>0, <1>1, <1>3, <1>7, <1>9, Processes
    DEF Places, EmptyHanded, Ends, Guarded
<1>11. HandsApart' /\ HandsTrue' /\ RowsTrue'
    <2>1. HandsApart'
        BY <1>0, <1>6, <1>7 DEF HandsApart
    <2>2. ASSUME NEW q \in Proc, NEW t \in Source
          PROVE  /\ hand'[q][t] \subseteq hand[q][t]
                 /\ hand'[q][t] \cap rows'[t] = {}
        BY <1>0, <1>6, <1>7 DEF HandsApart, HandsTrue
    <2>3. HandsTrue'
        BY <1>0, <1>1, <1>3, <1>9, <2>2 DEF HandsTrue
    <2>4. \A t \in Source : hand[p][t] \cap pending[t] = {}
        BY <1>0, <1>1 DEF HandsTrue
    <2>5. \A t \in Source : hand[p][t] \subseteq listed[t]
        BY <1>0 DEF HandsTrue
    <2>6. at[Settler] # "closed" \/ at'[Settler] = "closed"
        BY <1>1, <1>3, Processes
    <2>7. RowsTrue'
        <3>1. \A t \in Source : pending'[t] \cap rows'[t] = {}
            BY <1>0, <1>1, <1>6, <2>4 DEF RowsTrue
        <3>2. ASSUME at[Settler] # "closed", NEW t \in Source
              PROVE  rows'[t] \subseteq listed'[t]
            BY <1>0, <1>1, <1>6, <2>5, <3>2 DEF RowsTrue
        <3> QED BY <2>6, <3>1, <3>2 DEF RowsTrue
    <2> QED BY <2>1, <2>3, <2>7
<1>12. Drained' /\ Resulted' /\ Purged' /\ Snapped'
    BY <1>0, <1>1, <1>3, <1>9, Processes DEF Drained, Resulted, Purged, Snapped
<1>13. DroppedStaysOut' /\ Settled'
    BY <1>0, <1>1, <1>6, <1>9 DEF DroppedStaysOut, Settled, TypeOK
<1>14. NoFilmLost'
    BY <1>0, <1>1, <1>6, <1>7 DEF NoFilmLost
<1> QED BY <1>8, <1>10, <1>11, <1>12, <1>13, <1>14 DEF RecordInv

\* What was refused is queued again, and the running record follows
\* (requeuePending, UpdateRunningCollectRecord).
LEMMA ReportKeeps ==
    ASSUME RecordInv, NEW p \in Proc, Report(p)
    PROVE  RecordInv'
<1>0. /\ TypeOK /\ Places /\ EmptyHanded /\ Ends /\ Guarded
      /\ HandsApart /\ HandsTrue /\ RowsTrue /\ Drained /\ Purged
      /\ Snapped /\ Resulted /\ Settled /\ DroppedStaysOut /\ NoFilmLost
    BY DEF RecordInv
<1>1. /\ at[p] = "reports" /\ holder = p /\ p # Deleter /\ holder' = Nobody
      /\ UNCHANGED <<listed, snap, dropped, open, results, target, rows, alive,
                     spared>>
    BY <1>0, Processes DEF Report, Places, Guarded
<1>2. Go(p, After(p)) /\ After(p) \in {"idle", "settles", "left"}
    BY DEF Report, After
<1>3. /\ at'[p] = After(p)
      /\ \A q \in Proc : q # p => at'[q] = at[q]
    BY <1>0, <1>2, Going
<1>4. /\ open /\ record.status # "settled" /\ at[Deleter] = "idle"
      /\ at[Settler] # "settles"
    <2>1. open /\ record.status # "settled" /\ at[Settler] # "settles"
        BY <1>0, <1>1, Processes DEF Ends
    <2> QED BY <1>0, <1>1, <2>1, Processes DEF Guarded
<1>5. /\ \A q \in Proc : q # p => hand'[q] = hand[q]
      /\ p = Settler => hand'[p] = hand[p]
      /\ p # Settler => \A t \in Source : hand'[p][t] = {}
    BY <1>0 DEF Report, TypeOK, NoFilms
<1>6. \A t \in Source : pending'[t] = pending[t] \cup hand[p][t]
    BY DEF Report
<1>7. \/ record' = record
      \/ record' = [record EXCEPT !.films = LiveProgress, !.count = Sum(Listed)]
    BY DEF Report
<1>8. /\ LiveProgress \in [Source -> Total]
      /\ \A s \in dropped : LiveProgress[s] = Absent
    BY <1>0, Progressing
<1>9. /\ record'.status = record.status /\ record'.there = record.there
      /\ record'.films \in [Source -> Total]
      /\ record'.films = record.films \/ record'.films = LiveProgress
      /\ record' \in [there : BOOLEAN, status : {Running, "settled", "interrupted"},
                      films : [Source -> Total], count : {record'.count}]
    <2>1. CASE record' = record
        BY <1>0, <2>1 DEF TypeOK
    <2>2. CASE record' = [record EXCEPT !.films = LiveProgress,
                                        !.count = Sum(Listed)]
        BY <1>0, <1>8, <2>2 DEF TypeOK
    <2> QED BY <1>7, <2>1, <2>2
<1>10. TypeOK'
    <2>1. pending' \in [Source -> SUBSET Film]
        BY <1>0 DEF Report, TypeOK
    <2>2. hand' \in [Proc -> [Source -> SUBSET Film]]
        BY <1>0 DEF Report, TypeOK, NoFilms
    <2>3. at' \in [Proc -> {"collects", "waits", "drains", "saves", "reports", "left",
                        "idle", "purges", "marks", "batch", "settles", "closed"}]
        BY <1>0, <1>2 DEF Go, TypeOK
    <2>4. fails' \in 0 .. MaxFails
        BY <1>0, BatchAssumption DEF Report, TypeOK, Fails
    <2>5. \A t \in Source : pending'[t] \subseteq listed'[t]
        BY <1>0, <1>1, <1>6 DEF TypeOK, HandsTrue
    <2> QED BY <1>0, <1>1, <1>9, <2>1, <2>2, <2>3, <2>4, <2>5 DEF TypeOK
<1>11. Places' /\ EmptyHanded' /\ Ends' /\ Guarded'
    <2>1. Places'
        BY <1>0, <1>1, <1>3, Processes DEF Places, After
    <2>2. EmptyHanded'
        BY <1>0, <1>1, <1>3, <1>5, Processes DEF EmptyHanded, After
    <2>3. Ends'
        BY <1>0, <1>1, <1>3, <1>4, <1>9, Processes DEF Ends, After
    <2>4. Guarded'
        BY <1>0, <1>1, <1>2, <1>3, <1>4, Processes DEF Guarded
    <2> QED BY <2>1, <2>2, <2>3, <2>4
<1>12. HandsApart' /\ HandsTrue' /\ RowsTrue'
    <2>1. \A q \in Proc : \A t \in Source : hand'[q][t] \subseteq hand[q][t]
        BY <1>5
    <2>2. HandsApart'
        BY <1>0, <2>1 DEF HandsApart
    <2>3. ASSUME NEW q \in Proc, NEW t \in Source
          PROVE  \/ q = Settler /\ at'[q] = "settles"
                 \/ hand'[q][t] \cap pending'[t] = {}
        <3>1. CASE q = p /\ p = Settler
            BY <1>3, <3>1, Processes DEF After
        <3>2. CASE q = p /\ p # Settler
            BY <1>5, <3>2
        <3>3. CASE q # p
            BY <1>0, <1>3, <1>4, <1>5, <1>6, <3>3 DEF HandsApart, HandsTrue
        <3> QED BY <3>1, <3>2, <3>3
    <2>4. HandsTrue'
        BY <1>0, <1>1, <2>1, <2>3 DEF HandsTrue
    <2>5. RowsTrue'
        <3>1. \A t \in Source : pending'[t] \cap rows[t] = {}
            BY <1>0, <1>6 DEF RowsTrue, HandsTrue
        <3>2. at'[Settler] # "closed" => at[Settler] # "closed"
            BY <1>1, <1>3, Processes
        <3> QED BY <1>0, <1>1, <3>1, <3>2 DEF RowsTrue
    <2> QED BY <2>2, <2>4, <2>5
<1>13. Drained'
    <2>1. CASE p = Settler
        BY <1>0, <1>1, <1>3, <1>5, <1>6, <2>1 DEF Drained, After
    <2>2. CASE p # Settler
        <3>1. at[Settler] \notin {"saves", "reports", "marks", "settles"}
            BY <1>0, <1>1, <2>2, Processes DEF Ends
        <3> QED BY <1>3, <2>2, <3>1, Processes DEF Drained
    <2> QED BY <2>1, <2>2
<1>14. Resulted' /\ Purged' /\ Snapped'
    BY <1>0, <1>1, <1>3, <1>4, Processes DEF Resulted, Purged, Snapped, After
<1>15. DroppedStaysOut' /\ Settled'
    BY <1>0, <1>1, <1>4, <1>8, <1>9 DEF DroppedStaysOut, Settled
<1>16. NoFilmLost'
    BY <1>0, <1>1, <1>5, <1>6, <1>9 DEF NoFilmLost
<1> QED BY <1>10, <1>11, <1>12, <1>13, <1>14, <1>15, <1>16 DEF RecordInv

\* All sources have ended (emitBatchNotify).
LEMMA SummariseKeeps ==
    ASSUME RecordInv, Summarise
    PROVE  RecordInv'
<1>0. /\ TypeOK /\ Places /\ EmptyHanded /\ Ends /\ Guarded
      /\ HandsApart /\ HandsTrue /\ RowsTrue /\ Drained /\ Purged
      /\ Snapped /\ Resulted /\ Settled /\ DroppedStaysOut /\ NoFilmLost
    BY DEF RecordInv
<1>1. /\ at[Settler] = "batch" /\ \A s \in Source : at[s] = "left"
      /\ results' = LiveProgress
      /\ UNCHANGED <<listed, pending, snap, dropped, open, holder, hand, target,
                     rows, record, alive, spared, fails>>
    BY DEF Summarise, tables
<1>2. PICK there \in {"closed", "waits"} : Go(Settler, there)
    BY DEF Summarise
<1>3. /\ at'[Settler] \in {"closed", "waits"}
      /\ \A q \in Proc : q # Settler => at'[q] = at[q]
    BY <1>0, <1>2, Going, Processes
<1>4. /\ results' \in [Source -> Total]
      /\ \A s \in Source \ dropped : results'[s] = Cardinality(listed[s])
    <2>1. \A s \in Source : snap[s] \in {Absent, Cardinality(listed[s])}
        BY <1>0, <1>1 DEF Snapped
    <2> QED BY <1>0, <1>1, <2>1, Progressing
<1>5. TypeOK'
    <2>1. at' \in [Proc -> {"collects", "waits", "drains", "saves", "reports", "left",
                        "idle", "purges", "marks", "batch", "settles", "closed"}]
        BY <1>0, <1>2 DEF Go, TypeOK
    <2> QED BY <1>0, <1>1, <1>4, <2>1 DEF TypeOK
<1>6. Places' /\ EmptyHanded' /\ Ends' /\ Guarded'
    BY <1>0, <1>1, <1>3, Processes DEF Places, EmptyHanded, Ends, Guarded
<1>7. HandsApart' /\ HandsTrue' /\ RowsTrue'
    BY <1>0, <1>1, <1>3, Processes DEF HandsApart, HandsTrue, RowsTrue
<1>8. Drained' /\ Resulted' /\ Purged' /\ DroppedStaysOut' /\ NoFilmLost'
    BY <1>0, <1>1, <1>3, <1>4, Processes
    DEF Drained, Resulted, Purged, DroppedStaysOut, NoFilmLost
<1>9. Snapped' /\ Settled'
    BY <1>0, <1>1, <1>3, Processes DEF Snapped, Settled, Stored
<1> QED BY <1>5, <1>6, <1>7, <1>8, <1>9 DEF RecordInv

\* The settlement gives up what could not be stored (abandonUnstored).
LEMMA AbandonKeeps ==
    ASSUME RecordInv, Abandon
    PROVE  RecordInv'
<1>0. /\ TypeOK /\ Places /\ EmptyHanded /\ Ends /\ Guarded
      /\ HandsApart /\ HandsTrue /\ RowsTrue /\ Drained /\ Purged
      /\ Snapped /\ Resulted /\ Settled /\ DroppedStaysOut /\ NoFilmLost
    BY DEF RecordInv
<1>1. /\ at[Settler] = "settles"
      /\ UNCHANGED <<snap, dropped, open, holder, target, rows, record, alive,
                     spared, fails>>
    BY DEF Abandon, tables
<1>2. Go(Settler, "marks")
    BY DEF Abandon
<1>3. /\ at'[Settler] = "marks"
      /\ \A q \in Proc : q # Settler => at'[q] = at[q]
    BY <1>0, <1>2, Going, Processes
<1>4. /\ \A t \in Source : hand'[Settler][t] = {}
      /\ \A q \in Proc : q # Settler => hand'[q] = hand[q]
    BY <1>0, Processes DEF Abandon, TypeOK, NoFilms
<1>5. ASSUME NEW q \in Proc, q # Settler
      PROVE  \A t \in Source : hand[q][t] = {}
    BY <1>0, <1>1, <1>5, Processes DEF EmptyHanded, Ends, Places
<1>6. ASSUME NEW t \in Source
      PROVE  /\ listed'[t] = listed[t] \ hand[Settler][t]
             /\ pending'[t] = {}
             /\ pending[t] = hand[Settler][t]
    BY <1>0, <1>1 DEF Abandon, Missed, Drained
<1>7. /\ results' \in [Source -> Total]
      /\ \A s \in Source \ dropped : results'[s] = Cardinality(listed'[s])
    <2>1. \A s \in Source : listed'[s] \in SUBSET Film
        BY <1>0, <1>6 DEF TypeOK
    <2>2. \A s \in Source : Cardinality(listed'[s]) \in Total
        BY <2>1, Counting
    <2>3. \A s \in Source \ dropped : results[s] = Cardinality(listed[s])
        BY <1>0, <1>1 DEF Resulted
    <2>4. \A s \in Source : listed[s] = {} => listed'[s] = listed[s]
        BY <1>6
    <2>5. CASE \A s \in Source : Missed(s) = {}
        <3>1. results' = results
            BY <2>5 DEF Abandon
        <3>2. \A s \in Source : listed'[s] = listed[s]
            BY <1>6, <2>5 DEF Missed
        <3> QED BY <1>0, <2>3, <3>1, <3>2 DEF TypeOK
    <2>6. CASE ~\A s \in Source : Missed(s) = {}
        <3>1. results' = [s \in Source |->
                    IF s \in dropped \/ listed[s] = {} THEN results[s]
                    ELSE Cardinality(listed'[s])]
            BY <2>6 DEF Abandon
        <3> QED BY <1>0, <2>2, <2>3, <2>4, <3>1 DEF TypeOK
    <2> QED BY <2>5, <2>6
<1>8. TypeOK'
    <2>1. /\ listed' \in [Source -> SUBSET Film]
          /\ pending' \in [Source -> SUBSET Film]
          /\ hand' \in [Proc -> [Source -> SUBSET Film]]
        BY <1>0 DEF Abandon, Missed, TypeOK, NoFilms
    <2>2. at' \in [Proc -> {"collects", "waits", "drains", "saves", "reports", "left",
                        "idle", "purges", "marks", "batch", "settles", "closed"}]
        BY <1>0, <1>2 DEF Go, TypeOK
    <2> QED BY <1>0, <1>1, <1>6, <1>7, <2>1, <2>2 DEF TypeOK
<1>9. Places' /\ EmptyHanded' /\ Ends' /\ Guarded'
    BY <1>0, <1>1, <1>3, <1>4, Processes DEF Places, EmptyHanded, Ends, Guarded
<1>10. HandsApart' /\ HandsTrue' /\ RowsTrue'
    <2>1. \A q \in Proc, t \in Source : hand'[q][t] = {}
        BY <1>4, <1>5
    <2>2. \A t \in Source : rows[t] \subseteq listed'[t]
        BY <1>0, <1>1, <1>6, Processes DEF HandsTrue, RowsTrue
    <2> QED BY <1>1, <1>6, <2>1, <2>2 DEF HandsApart, HandsTrue, RowsTrue
<1>11. Drained' /\ Resulted' /\ Purged' /\ DroppedStaysOut'
    BY <1>0, <1>1, <1>3, <1>6, <1>7, Processes
    DEF Drained, Resulted, Purged, DroppedStaysOut
<1>12. Snapped' /\ Settled'
    BY <1>0, <1>1, <1>3, Processes DEF Snapped, Settled, Stored
<1>13. NoFilmLost'
    <2> SUFFICES ASSUME NEW t \in Source \ (dropped \cup spared \cup {target}),
                        record.there
                 PROVE  listed'[t] \subseteq rows[t]
        BY <1>1 DEF NoFilmLost
    <2>1. listed[t] \subseteq rows[t] \cup pending[t] \cup
                              UNION {hand[q][t] : q \in Proc}
        BY <1>0 DEF NoFilmLost
    <2>2. UNION {hand[q][t] : q \in Proc} \subseteq hand[Settler][t]
        BY <1>5
    <2> QED BY <1>6, <2>1, <2>2
<1> QED BY <1>8, <1>9, <1>10, <1>11, <1>12, <1>13 DEF RecordInv

\* The record is settled with what the results say, dropped sources left out
\* (withoutDroppedResults, CompleteCollectRecord).
LEMMA CompleteKeeps ==
    ASSUME RecordInv, Complete
    PROVE  RecordInv'
<1>0. /\ TypeOK /\ Places /\ EmptyHanded /\ Ends /\ Guarded
      /\ HandsApart /\ HandsTrue /\ RowsTrue /\ Drained /\ Purged
      /\ Snapped /\ Resulted /\ Settled /\ DroppedStaysOut /\ NoFilmLost
    BY DEF RecordInv
<1> DEFINE kept == [s \in Source |-> IF s \in dropped THEN Absent ELSE results[s]]
<1>1. /\ at[Settler] = "marks" /\ holder = Nobody
      /\ UNCHANGED <<listed, pending, snap, dropped, open, results, holder, hand,
                     target, rows, alive, spared>>
    BY DEF Complete, memory
<1>2. Go(Settler, "closed")
    BY DEF Complete
<1>3. /\ at'[Settler] = "closed"
      /\ \A q \in Proc : q # Settler => at'[q] = at[q]
    BY <1>0, <1>2, Going, Processes
<1>4. \/ record' = record
      \/ /\ record.there /\ record.status = Running
         /\ record' = [record EXCEPT !.status = "settled", !.films = kept,
                                     !.count = Sum(kept)]
    BY DEF Complete
<1>5. kept \in [Source -> Total]
    BY <1>0, Counting DEF TypeOK
<1>6. /\ record' \in [there : BOOLEAN, status : {Running, "settled", "interrupted"},
                      films : [Source -> Total], count : {record'.count}]
      /\ record'.there = record.there
      /\ record'.films = record.films \/ record'.films = kept
    <2>1. CASE record' = record
        BY <1>0, <2>1 DEF TypeOK
    <2>2. CASE record' = [record EXCEPT !.status = "settled", !.films = kept,
                                        !.count = Sum(kept)]
        <3> HIDE DEF kept
        <3> QED BY <1>0, <1>5, <2>2 DEF TypeOK
    <2> QED BY <1>4, <2>1, <2>2
<1>7. TypeOK'
    <2>1. at' \in [Proc -> {"collects", "waits", "drains", "saves", "reports", "left",
                        "idle", "purges", "marks", "batch", "settles", "closed"}]
        BY <1>0, <1>2 DEF Go, TypeOK
    <2>2. fails' \in 0 .. MaxFails
        BY <1>0, BatchAssumption DEF Complete, TypeOK, Fails
    <2> QED BY <1>0, <1>1, <1>6, <2>1, <2>2 DEF TypeOK
<1>8. /\ open /\ target = Nobody
      /\ \A s \in Source : pending[s] = {}
      /\ \A q \in Proc, s \in Source : hand[q][s] = {}
    <2>1. open
        BY <1>0, <1>1 DEF Ends
    <2>2. target = Nobody
        BY <1>0, <1>1, <2>1, Processes DEF Guarded, Places
    <2>3. ASSUME NEW q \in Proc
          PROVE  at[q] \notin {"saves", "reports", "settles"}
        BY <1>0, <1>1, Processes DEF Ends, Places
    <2> QED BY <1>0, <1>1, <2>1, <2>2, <2>3 DEF EmptyHanded, Drained
<1>9. Places' /\ EmptyHanded' /\ Ends' /\ Guarded'
    <2>1. Ends'
        BY <1>0, <1>1, <1>3, Processes DEF Ends
    <2> QED BY <1>0, <1>1, <1>3, <2>1, Processes DEF Places, EmptyHanded, Guarded
<1>10. HandsApart' /\ HandsTrue' /\ RowsTrue'
    BY <1>0, <1>1, <1>3, Processes DEF HandsApart, HandsTrue, RowsTrue
<1>11. Drained' /\ Resulted' /\ Snapped'
    BY <1>3 DEF Drained, Resulted, Snapped
<1>12. Purged'
    BY <1>0, <1>1, <1>3, <1>8, Processes DEF Purged, Places
<1>13. DroppedStaysOut' /\ NoFilmLost'
    BY <1>0, <1>1, <1>6 DEF DroppedStaysOut, NoFilmLost, TypeOK
<1>14. Settled'
    <2>1. CASE record' = record
        BY <1>0, <1>1, <2>1 DEF Settled
    <2>2. CASE /\ record.there
               /\ record' = [record EXCEPT !.status = "settled", !.films = kept,
                                           !.count = Sum(kept)]
        <3> SUFFICES ASSUME spared = {}
                     PROVE  /\ record'.count = Sum(Stored(rows))
                            /\ \A s \in Source :
                                 IF record'.films[s] = Absent THEN rows[s] = {}
                                 ELSE record'.films[s] = Cardinality(rows[s])
            BY <1>1 DEF Settled
        <3>1. record'.films = kept /\ record'.count = Sum(kept)
            <4> HIDE DEF kept
            <4> QED BY <1>0, <2>2 DEF TypeOK
        <3>2. ASSUME NEW s \in Source \ dropped
              PROVE  rows[s] = listed[s] /\ kept[s] = Cardinality(rows[s])
            <4>1. listed[s] \subseteq rows[s] \cup pending[s] \cup
                                      UNION {hand[q][s] : q \in Proc}
                BY <1>0, <1>8, <2>2, Processes DEF NoFilmLost
            <4>2. UNION {hand[q][s] : q \in Proc} = {}
                BY <1>8
            <4>3. rows[s] = listed[s]
                BY <1>0, <1>1, <1>8, <4>1, <4>2 DEF RowsTrue
            <4> QED BY <1>0, <1>1, <4>3 DEF Resulted
        <3>3. ASSUME NEW s \in dropped
              PROVE  /\ s \in Source /\ kept[s] = Absent
                     /\ rows[s] = {} /\ Cardinality(rows[s]) = 0
            BY <1>0, Counting DEF DroppedStaysOut, TypeOK
        <3>4. \A s \in Source : Cardinality(rows[s]) # Absent
            BY <1>0, Counting DEF TypeOK
        <3>5. Counts(kept) = Counts(Stored(rows))
            <4>1. \A s \in Source :
                    (IF kept[s] = Absent THEN 0 ELSE kept[s])
                    = (IF Stored(rows)[s] = Absent THEN 0 ELSE Stored(rows)[s])
                <5> HIDE DEF kept
                <5> QED BY <3>2, <3>3, <3>4 DEF Stored
            <4> HIDE DEF kept
            <4> QED BY <4>1 DEF Counts
        <3>6. Sum(kept) = Sum(Stored(rows))
            BY <3>5 DEF Sum
        <3> HIDE DEF kept
        <3> QED BY <3>1, <3>2, <3>3, <3>4, <3>6
    <2> QED BY <1>4, <2>1, <2>2
<1> QED BY <1>7, <1>9, <1>10, <1>11, <1>12, <1>13, <1>14 DEF RecordInv

\* The batch is closed.
LEMMA CloseKeeps ==
    ASSUME RecordInv, Close
    PROVE  RecordInv'
<1>0. /\ TypeOK /\ Places /\ EmptyHanded /\ Ends /\ Guarded
      /\ HandsApart /\ HandsTrue /\ RowsTrue /\ Drained /\ Purged
      /\ Snapped /\ Resulted /\ Settled /\ DroppedStaysOut /\ NoFilmLost
    BY DEF RecordInv
<1>1. /\ at[Settler] = "closed" /\ at[Flusher] = "idle" /\ open' = FALSE
      /\ UNCHANGED <<listed, pending, snap, dropped, results, holder, at, hand,
                     target, rows, record, alive, spared, fails>>
    BY DEF Close, tables
<1>2. TypeOK'
    BY <1>0, <1>1 DEF TypeOK
<1>3. Places' /\ EmptyHanded' /\ Ends' /\ Guarded'
    BY <1>0, <1>1 DEF Places, EmptyHanded, Ends, Guarded
<1>4. HandsApart' /\ HandsTrue' /\ RowsTrue' /\ Drained' /\ Purged' /\ Snapped'
    BY <1>0, <1>1 DEF HandsApart, HandsTrue, RowsTrue, Drained, Purged, Snapped
<1>5. Resulted' /\ Settled' /\ DroppedStaysOut' /\ NoFilmLost'
    BY <1>0, <1>1 DEF Resulted, Settled, Stored, DroppedStaysOut, NoFilmLost
<1> QED BY <1>2, <1>3, <1>4, <1>5 DEF RecordInv

\* A deletion takes recordMu (PauseActiveBatchRecords).
LEMMA BeginKeeps ==
    ASSUME RecordInv, NEW s \in Source, BeginDelete(s)
    PROVE  RecordInv'
<1>0. /\ TypeOK /\ Places /\ EmptyHanded /\ Ends /\ Guarded
      /\ HandsApart /\ HandsTrue /\ RowsTrue /\ Drained /\ Purged
      /\ Snapped /\ Resulted /\ Settled /\ DroppedStaysOut /\ NoFilmLost
    BY DEF RecordInv
<1>1. /\ at[Deleter] = "idle" /\ target = Nobody /\ target' = s
      /\ IF open THEN holder = Nobody /\ holder' = Deleter ELSE holder' = holder
      /\ UNCHANGED <<listed, pending, snap, dropped, open, results, hand, rows,
                     record, alive, spared, fails>>
    BY <1>0 DEF BeginDelete, Places, memory, tables
<1>2. Go(Deleter, "purges")
    BY DEF BeginDelete
<1>3. /\ at'[Deleter] = "purges"
      /\ \A q \in Proc : q # Deleter => at'[q] = at[q]
    BY <1>0, <1>2, Going, Processes
<1>4. TypeOK'
    <2>1. at' \in [Proc -> {"collects", "waits", "drains", "saves", "reports", "left",
                        "idle", "purges", "marks", "batch", "settles", "closed"}]
        BY <1>0, <1>2 DEF Go, TypeOK
    <2> QED BY <1>0, <1>1, <2>1, Processes DEF TypeOK
<1>5. Places' /\ EmptyHanded' /\ Ends' /\ Guarded'
    BY <1>0, <1>1, <1>3, Processes DEF Places, EmptyHanded, Ends, Guarded
<1>6. HandsApart' /\ HandsTrue' /\ RowsTrue'
    BY <1>0, <1>1, <1>3, Processes DEF HandsApart, HandsTrue, RowsTrue
<1>7. Drained' /\ Resulted' /\ Purged' /\ DroppedStaysOut'
    BY <1>0, <1>1, <1>3, Processes DEF Drained, Resulted, Purged, DroppedStaysOut
<1>8. Snapped' /\ Settled'
    BY <1>0, <1>1, <1>3, Processes DEF Snapped, Settled, Stored
<1>9. NoFilmLost'
    BY <1>0, <1>1, Processes DEF NoFilmLost
<1> QED BY <1>4, <1>5, <1>6, <1>7, <1>8, <1>9 DEF RecordInv

\* What the transaction of a deletion does to rows and record
\* (purgeSourceCollectHistoryTx).
LEMMA Purging ==
    ASSUME RecordInv, Purge
    PROVE  /\ target \in Source /\ at[Deleter] = "purges"
           /\ rows' \in [Source -> SUBSET Film]
           /\ record' \in [there : BOOLEAN,
                           status : {Running, "settled", "interrupted"},
                           films : [Source -> Total], count : {record'.count}]
           /\ rows'[target] = {} /\ \A t \in Source : rows'[t] \subseteq rows[t]
           /\ record'.status = record.status
           /\ record'.there => /\ record.there /\ record'.films[target] = Absent
                               /\ \A t \in Source \ {target} : rows'[t] = rows[t]
           /\ \A t \in Source : record.films[t] = Absent => record'.films[t] = Absent
           /\ Settled => \/ spared = {} /\ spared' # {}
                         \/ record'.there /\ record'.status = "settled" /\ spared = {} =>
                            /\ record'.count = Sum(Stored(rows'))
                            /\ \A s \in Source :
                                  IF record'.films[s] = Absent THEN rows'[s] = {}
                                  ELSE record'.films[s] = Cardinality(rows'[s])
<1>0. /\ TypeOK /\ Places /\ EmptyHanded /\ Ends /\ Guarded
      /\ HandsApart /\ HandsTrue /\ RowsTrue /\ Drained /\ Purged
      /\ Snapped /\ Resulted /\ Settled /\ DroppedStaysOut /\ NoFilmLost
    BY DEF RecordInv
<1> DEFINE left == [rows EXCEPT ![target] = {}]
           kept == [t \in Source |->
                      IF t = target \/ record.films[t] = Absent THEN Absent
                      ELSE Cardinality(left[t])]
<1>1. target \in Source /\ at[Deleter] = "purges"
    BY <1>0 DEF Purge, Places, TypeOK
<1>2. /\ left \in [Source -> SUBSET Film]
      /\ left[target] = {} /\ \A t \in Source \ {target} : left[t] = rows[t]
    BY <1>0, <1>1 DEF TypeOK
<1>3. kept \in [Source -> Total]
    <2>1. \A t \in Source : Cardinality(left[t]) \in Total /\ Absent \in Total
        BY <1>2, Counting
    <2> HIDE DEF left
    <2> QED BY <2>1
<1>4. \/ /\ record' = [record EXCEPT !.there = FALSE] /\ rows' = NoFilms
      \/ /\ record.there
         /\ record' = [record EXCEPT !.films = kept, !.count = Sum(Stored(left))]
         /\ rows' = left
      \/ /\ record' = record /\ rows' = left
         /\ ~record.there \/ record.films[target] = Absent
    <2>1. CASE ~(record.there /\ record.films[target] # Absent)
        BY <2>1 DEF Purge
    <2>2. CASE record.there /\ record.films[target] # Absent
        <3>1. /\ record' = RecordWithout(target, left)
              /\ rows' = IF record'.there THEN left ELSE NoFilms
            BY <2>2 DEF Purge
        <3>2. CASE \A t \in Source \ {target} : t \in alive => record.films[t] = Absent
            <4>1. record' = [record EXCEPT !.there = FALSE]
                BY <3>1, <3>2 DEF RecordWithout
            <4>2. ~record'.there
                BY <1>0, <4>1 DEF TypeOK
            <4> QED BY <3>1, <4>1, <4>2
        <3>3. CASE ~\A t \in Source \ {target} : t \in alive => record.films[t] = Absent
            <4>1. record' = [record EXCEPT !.films = kept, !.count = Sum(Stored(left))]
                BY <3>1, <3>3 DEF RecordWithout
            <4>2. record'.there
                <5> HIDE DEF kept, left
                <5> QED BY <1>0, <2>2, <4>1 DEF TypeOK
            <4> QED BY <2>2, <3>1, <4>1, <4>2
        <3> QED BY <3>2, <3>3
    <2> QED BY <2>1, <2>2
<1>5. CASE record' = [record EXCEPT !.there = FALSE] /\ rows' = NoFilms
    BY <1>0, <1>1, <1>5 DEF TypeOK, NoFilms
<1>6. CASE /\ record.there
           /\ record' = [record EXCEPT !.films = kept, !.count = Sum(Stored(left))]
           /\ rows' = left
    <2>1. /\ record'.there = record.there /\ record'.status = record.status
          /\ record'.films = kept /\ record'.count = Sum(Stored(rows'))
        <3> HIDE DEF kept, left
        <3> QED BY <1>0, <1>6 DEF TypeOK
    <2>2. record' \in [there : BOOLEAN, status : {Running, "settled", "interrupted"},
                       films : [Source -> Total], count : {record'.count}]
        <3> HIDE DEF kept, left
        <3> QED BY <1>0, <1>3, <1>6 DEF TypeOK
    <2>3. \A t \in Source : /\ t = target => kept[t] = Absent
                            /\ record.films[t] = Absent => kept[t] = Absent
                            /\ kept[t] # Absent => kept[t] = Cardinality(left[t])
                            /\ kept[t] = Absent => t = target \/ record.films[t] = Absent
        <3>1. \A t \in Source : Cardinality(left[t]) # Absent
            BY <1>2, Counting
        <3> HIDE DEF left
        <3> QED BY <3>1
    <2> HIDE DEF kept, left
    <2> QED BY <1>1, <1>2, <1>6, <2>1, <2>2, <2>3 DEF Settled
<1>7. CASE /\ record' = record /\ rows' = left
           /\ ~record.there \/ record.films[target] = Absent
    <2>1. Settled /\ record.there /\ record.status = "settled" /\ spared = {} =>
             /\ record.count = Sum(Stored(left))
             /\ \A s \in Source : IF record.films[s] = Absent THEN left[s] = {}
                                 ELSE record.films[s] = Cardinality(left[s])
        <3> SUFFICES ASSUME Settled, record.there, record.status = "settled",
                            spared = {}
                     PROVE  /\ record.count = Sum(Stored(left))
                            /\ \A s \in Source :
                                 IF record.films[s] = Absent THEN left[s] = {}
                                 ELSE record.films[s] = Cardinality(left[s])
            OBVIOUS
        <3>1. rows[target] = {}
            BY <1>1, <1>7 DEF Settled
        <3>2. \A t \in Source : left[t] = rows[t]
            BY <1>2, <3>1
        <3>3. Stored(left) = Stored(rows)
            <4> HIDE DEF left
            <4> QED BY <3>2 DEF Stored
        <3> HIDE DEF left
        <3> QED BY <3>2, <3>3 DEF Settled
    <2> HIDE DEF left
    <2> QED BY <1>0, <1>1, <1>2, <1>7, <2>1 DEF TypeOK
<1> HIDE DEF kept, left
<1> QED BY <1>4, <1>5, <1>6, <1>7

\* The transaction of a deletion, done or done with an error
\* (DelCollectResource).
LEMMA PurgeKeeps ==
    ASSUME RecordInv, Purge
    PROVE  RecordInv'
<1>0. /\ TypeOK /\ Places /\ EmptyHanded /\ Ends /\ Guarded
      /\ HandsApart /\ HandsTrue /\ RowsTrue /\ Drained /\ Purged
      /\ Snapped /\ Resulted /\ Settled /\ DroppedStaysOut /\ NoFilmLost
    BY DEF RecordInv
<1>1. /\ target \in Source /\ at[Deleter] = "purges"
      /\ rows' \in [Source -> SUBSET Film]
      /\ record' \in [there : BOOLEAN, status : {Running, "settled", "interrupted"},
                      films : [Source -> Total], count : {record'.count}]
      /\ rows'[target] = {} /\ \A t \in Source : rows'[t] \subseteq rows[t]
      /\ record'.status = record.status
      /\ record'.there => /\ record.there /\ record'.films[target] = Absent
                          /\ \A t \in Source \ {target} : rows'[t] = rows[t]
      /\ \A t \in Source : record.films[t] = Absent => record'.films[t] = Absent
    BY Purging
<1>2. /\ alive' \subseteq alive
      /\ UNCHANGED <<listed, pending, snap, dropped, open, results, hand>>
    BY DEF Purge, memory
<1>3. \/ /\ Go(Deleter, "marks") /\ UNCHANGED <<holder, target, spared, fails>>
      \/ /\ Fails /\ spared' = spared \cup {target} /\ target' = Nobody
         /\ holder' = IF holder = Deleter THEN Nobody ELSE holder
         /\ Go(Deleter, "idle")
    BY DEF Purge
<1>4. /\ spared \subseteq spared' /\ at'[Deleter] \in {"marks", "idle"}
      /\ \A q \in Proc : q # Deleter => at'[q] = at[q]
    <2>1. PICK there \in {"marks", "idle"} : Go(Deleter, there)
        BY <1>3
    <2> QED BY <1>0, <1>3, <2>1, Going, Processes
<1>5. \/ at'[Deleter] = "marks" /\ UNCHANGED <<holder, target, spared>>
      \/ /\ at'[Deleter] = "idle" /\ target' = Nobody
         /\ spared' = spared \cup {target}
         /\ holder' = IF holder = Deleter THEN Nobody ELSE holder
    BY <1>0, <1>3, Going, Processes
<1>6. TypeOK'
    <2>1. at' \in [Proc -> {"collects", "waits", "drains", "saves", "reports", "left",
                        "idle", "purges", "marks", "batch", "settles", "closed"}]
        BY <1>0, <1>3 DEF Go, TypeOK
    <2>2. fails' \in 0 .. MaxFails
        BY <1>0, <1>3, BatchAssumption DEF TypeOK, Fails
    <2>3. /\ target' \in Source \cup {Nobody} /\ spared' \subseteq Source
          /\ holder' \in Proc \cup {Nobody}
        BY <1>0, <1>1, <1>5 DEF TypeOK
    <2> QED BY <1>0, <1>1, <1>2, <2>1, <2>2, <2>3 DEF TypeOK
<1>7. Places' /\ EmptyHanded'
    BY <1>0, <1>1, <1>2, <1>4, <1>5, Processes DEF Places, EmptyHanded
<1>8. Ends' /\ Guarded'
    <2>1. \A p \in Proc : at'[p] = "reports" => p # Deleter /\ holder = p
        BY <1>0, <1>4, Processes DEF Guarded
    <2>2. Guarded'
        BY <1>0, <1>1, <1>2, <1>5, <2>1 DEF Guarded
    <2> QED BY <1>0, <1>1, <1>2, <1>4, <2>2, Processes DEF Ends
<1>9. HandsApart' /\ HandsTrue' /\ RowsTrue'
    BY <1>0, <1>1, <1>2, <1>4, Processes DEF HandsApart, HandsTrue, RowsTrue
<1>10. Drained' /\ Resulted' /\ Snapped'
    BY <1>0, <1>2, <1>4, Processes DEF Drained, Resulted, Snapped
<1>11. Purged' /\ DroppedStaysOut'
    BY <1>0, <1>1, <1>2, <1>5 DEF Purged, DroppedStaysOut, TypeOK
<1>12. NoFilmLost'
    <2>1. dropped \cup spared \cup {target} \subseteq
             dropped' \cup spared' \cup {target'}
        BY <1>2, <1>5
    <2> QED BY <1>0, <1>1, <1>2, <2>1 DEF NoFilmLost
<1>13. Settled'
    BY <1>0, <1>4, Purging DEF Settled
<1> QED BY <1>6, <1>7, <1>8, <1>9, <1>10, <1>11, <1>12, <1>13 DEF RecordInv

\* The batch drops the source (dropSourceLocked).
LEMMA MarkKeeps ==
    ASSUME RecordInv, MarkDropped
    PROVE  RecordInv'
<1>0. /\ TypeOK /\ Places /\ EmptyHanded /\ Ends /\ Guarded
      /\ HandsApart /\ HandsTrue /\ RowsTrue /\ Drained /\ Purged
      /\ Snapped /\ Resulted /\ Settled /\ DroppedStaysOut /\ NoFilmLost
    BY DEF RecordInv
<1>1. /\ at[Deleter] = "marks" /\ target \in Source /\ target' = Nobody
      /\ dropped' = dropped \cup {target}
      /\ holder' = IF holder = Deleter THEN Nobody ELSE holder
      /\ UNCHANGED <<listed, pending, snap, open, results, hand, rows, record, alive,
                     spared, fails>>
    BY <1>0 DEF MarkDropped, Places, TypeOK, tables
<1>2. Go(Deleter, "idle")
    BY DEF MarkDropped
<1>3. /\ at'[Deleter] = "idle"
      /\ \A q \in Proc : q # Deleter => at'[q] = at[q]
    BY <1>0, <1>2, Going, Processes
<1>4. TypeOK'
    <2>1. at' \in [Proc -> {"collects", "waits", "drains", "saves", "reports", "left",
                        "idle", "purges", "marks", "batch", "settles", "closed"}]
        BY <1>0, <1>2 DEF Go, TypeOK
    <2> QED BY <1>0, <1>1, <2>1 DEF TypeOK
<1>5. Places' /\ EmptyHanded' /\ Ends'
    BY <1>0, <1>1, <1>3, Processes DEF Places, EmptyHanded, Ends
<1>6. Guarded'
    BY <1>0, <1>1, <1>3, Processes DEF Guarded
<1>7. HandsApart' /\ HandsTrue' /\ RowsTrue'
    BY <1>0, <1>1, <1>3, Processes DEF HandsApart, HandsTrue, RowsTrue
<1>8. Drained' /\ Resulted' /\ Snapped' /\ Purged'
    BY <1>0, <1>1, <1>3, Processes DEF Drained, Resulted, Snapped, Purged
<1>9. DroppedStaysOut'
    BY <1>0, <1>1 DEF DroppedStaysOut, Purged
<1>10. Settled' /\ NoFilmLost'
    BY <1>0, <1>1 DEF Settled, Stored, NoFilmLost
<1> QED BY <1>4, <1>5, <1>6, <1>7, <1>8, <1>9, <1>10 DEF RecordInv

\* An administrator deletes the record (DeleteCollectRecords).
LEMMA DeleteKeeps ==
    ASSUME RecordInv, DeleteRecord
    PROVE  RecordInv'
<1>0. /\ TypeOK /\ Places /\ EmptyHanded /\ Ends /\ Guarded
      /\ HandsApart /\ HandsTrue /\ RowsTrue /\ Drained /\ Purged
      /\ Snapped /\ Resulted /\ Settled /\ DroppedStaysOut /\ NoFilmLost
    BY DEF RecordInv
<1>1. /\ record' = [record EXCEPT !.there = FALSE] /\ rows' = NoFilms
      /\ UNCHANGED <<listed, pending, snap, dropped, open, results, holder, at, hand,
                     target, alive, spared, fails>>
    BY DEF DeleteRecord, memory
<1>2. /\ ~record'.there /\ record'.status = record.status
      /\ record' \in [there : BOOLEAN, status : {Running, "settled", "interrupted"},
                      films : [Source -> Total], count : {record'.count}]
      /\ rows' \in [Source -> SUBSET Film] /\ \A t \in Source : rows'[t] = {}
    BY <1>0, <1>1 DEF TypeOK, NoFilms
<1>3. TypeOK'
    BY <1>0, <1>1, <1>2 DEF TypeOK
<1>4. Places' /\ EmptyHanded' /\ Ends' /\ Guarded'
    BY <1>0, <1>1, <1>2 DEF Places, EmptyHanded, Ends, Guarded
<1>5. HandsApart' /\ HandsTrue' /\ RowsTrue' /\ Drained' /\ Resulted' /\ Snapped'
    BY <1>0, <1>1, <1>2
    DEF HandsApart, HandsTrue, RowsTrue, Drained, Resulted, Snapped
<1>6. Purged' /\ DroppedStaysOut' /\ Settled' /\ NoFilmLost'
    BY <1>0, <1>1, <1>2
    DEF Purged, DroppedStaysOut, Settled, NoFilmLost, Places, TypeOK
<1> QED BY <1>3, <1>4, <1>5, <1>6 DEF RecordInv

\* A crash and the next start (MarkInterruptedCollectRecords).
LEMMA RestartKeeps ==
    ASSUME RecordInv, Restart
    PROVE  RecordInv'
<1>0. /\ TypeOK /\ Places /\ EmptyHanded /\ Ends /\ Guarded
      /\ HandsApart /\ HandsTrue /\ RowsTrue /\ Drained /\ Purged
      /\ Snapped /\ Resulted /\ Settled /\ DroppedStaysOut /\ NoFilmLost
    BY DEF RecordInv
<1>1. /\ listed' = NoFilms /\ pending' = NoFilms /\ snap' = NoTotals
      /\ results' = NoTotals /\ open' = FALSE /\ holder' = Nobody
      /\ target' = Nobody /\ dropped' = {} /\ hand' = [p \in Proc |-> NoFilms]
      /\ UNCHANGED <<rows, alive, spared, fails>>
    BY DEF Restart
<1>2. /\ \A s \in Source : at'[s] = "left"
      /\ at'[Flusher] = "idle" /\ at'[Settler] = "closed" /\ at'[Deleter] = "idle"
      /\ \A p \in Proc : at'[p] \in {"left", "closed", "idle"}
      /\ at' \in [Proc -> {"collects", "waits", "drains", "saves", "reports", "left",
                        "idle", "purges", "marks", "batch", "settles", "closed"}]
    BY Processes DEF Restart
<1>3. /\ record' \in [there : BOOLEAN, status : {Running, "settled", "interrupted"},
                      films : [Source -> Total], count : {record'.count}]
      /\ record' = record \/ record'.status = "interrupted"
    <2> DEFINE totals == [s \in Source |->
                            IF record.films[s] # Absent /\ rows[s] # {}
                            THEN Cardinality(rows[s]) ELSE record.films[s]]
    <2>1. totals \in [Source -> Total]
        BY <1>0, Counting DEF TypeOK
    <2>2. \/ record' = record
          \/ record' = [record EXCEPT !.status = "interrupted",
                                      !.count = Sum(Stored(rows)),
                                      !.films = totals]
        BY DEF Restart
    <2> HIDE DEF totals
    <2> QED BY <1>0, <2>1, <2>2 DEF TypeOK
<1>4. TypeOK'
    <2>1. Absent \in Total
        BY Counting
    <2> QED BY <1>0, <1>1, <1>2, <1>3, <2>1 DEF TypeOK, NoFilms, NoTotals
<1>5. Places' /\ EmptyHanded' /\ Ends' /\ Guarded'
    BY <1>1, <1>2, Processes DEF Places, EmptyHanded, Ends, Guarded, NoFilms
<1>6. HandsApart' /\ HandsTrue' /\ RowsTrue'
    BY <1>1, <1>2 DEF HandsApart, HandsTrue, RowsTrue, NoFilms
<1>7. Drained' /\ Purged' /\ Snapped' /\ Resulted'
    BY <1>2 DEF Drained, Purged, Snapped, Resulted
<1>8. Settled' /\ DroppedStaysOut' /\ NoFilmLost'
    BY <1>0, <1>1, <1>3 DEF Settled, Stored, DroppedStaysOut, NoFilmLost, NoFilms
<1> QED BY <1>4, <1>5, <1>6, <1>7, <1>8 DEF RecordInv

\* The record of a batch keeps its invariant in every state, through
\* checkpoints, refused statements, deletions, the settlement and restarts.
THEOREM RecordInvHolds == Spec => []RecordInv
<1>1. Init => RecordInv
    <2> SUFFICES ASSUME Init PROVE RecordInv
        OBVIOUS
    <2>1. /\ \A s \in Source : at[s] = "collects"
          /\ at[Flusher] = "idle" /\ at[Settler] = "batch" /\ at[Deleter] = "idle"
          /\ \A p \in Proc : at[p] \in {"collects", "batch", "idle"}
          /\ at \in [Proc -> {"collects", "waits", "drains", "saves", "reports", "left",
                        "idle", "purges", "marks", "batch", "settles", "closed"}]
        BY Processes DEF Init
    <2>2. TypeOK
        <3>1. Absent \in Total
            BY Counting
        <3> QED BY <2>1, <3>1, BatchAssumption DEF Init, TypeOK, NoFilms, NoTotals
    <2>3. Places /\ EmptyHanded /\ Ends /\ Guarded
        BY <2>1, Processes
        DEF Init, Places, EmptyHanded, Ends, Guarded, NoFilms, Running
    <2>4. HandsApart /\ HandsTrue /\ RowsTrue /\ Drained /\ Purged
        BY <2>1, Processes
        DEF Init, HandsApart, HandsTrue, RowsTrue, Drained, Purged, NoFilms
    <2>5. Snapped /\ Resulted /\ Settled /\ DroppedStaysOut /\ NoFilmLost
        BY <2>1, Processes
        DEF Init, Snapped, Resulted, Settled, DroppedStaysOut, NoFilmLost, NoFilms,
            NoTotals, Running
    <2> QED BY <2>2, <2>3, <2>4, <2>5 DEF RecordInv
<1>2. RecordInv /\ [Next]_vars => RecordInv'
    <2> SUFFICES ASSUME RecordInv, [Next]_vars PROVE RecordInv'
        OBVIOUS
    <2>1. CASE UNCHANGED vars
        <3>1. UNCHANGED <<listed, pending, snap, dropped, open, results, holder, at,
                          hand, target, rows, record, alive, spared, fails>>
            BY <2>1 DEF vars, memory, tables
        <3>2. TypeOK' /\ Places' /\ EmptyHanded' /\ Ends' /\ Guarded'
            BY <3>1 DEF RecordInv, TypeOK, Places, EmptyHanded, Ends, Guarded
        <3>3. HandsApart' /\ HandsTrue' /\ RowsTrue' /\ Drained' /\ Purged'
            BY <3>1 DEF RecordInv, HandsApart, HandsTrue, RowsTrue, Drained, Purged
        <3>4. Snapped' /\ Resulted' /\ Settled' /\ DroppedStaysOut' /\ NoFilmLost'
            BY <3>1 DEF RecordInv, Snapped, Resulted, Settled, Stored,
                        DroppedStaysOut, NoFilmLost
        <3> QED BY <3>2, <3>3, <3>4 DEF RecordInv
    <2> QED BY <2>1, TrackKeeps, FlushKeeps, EndKeeps, WaitKeeps, DrainKeeps, SaveKeeps,
               ReportKeeps, SummariseKeeps, AbandonKeeps, CompleteKeeps, CloseKeeps,
               BeginKeeps, PurgeKeeps, MarkKeeps, DeleteKeeps, RestartKeeps
            DEF Next, Works, Flushes
<1> QED BY <1>1, <1>2, PTL DEF Spec

\* What a source listed is stored, queued or in somebody's hands, whatever the
\* database refuses, and a source the batch dropped stays out of the record.
THEOREM RecordKeepsHolds == Spec => []RecordKeeps
<1>1. RecordInv => RecordKeeps
    BY DEF RecordInv, RecordKeeps
<1> QED BY <1>1, RecordInvHolds, PTL

\* A settled record counts the rows there are, in all and for each source.
THEOREM SettledCountsHolds == Spec => []SettledCounts
<1>1. RecordInv => SettledCounts
    BY DEF RecordInv, SettledCounts, Settled, Mentioned
<1> QED BY <1>1, RecordInvHolds, PTL

-----------------------------------------------------------------------------
(* The cached pages: the inductive invariant                               *)

\* What an invalidation still has to do.
Todo == {<<>>, <<"incr">>, <<"delete", "incr">>, <<"clear", "delete", "incr">>,
         Cached!Broad, Cached!Debounced,
         <<"register">>, <<"incr", "register">>, <<"delete", "incr", "register">>,
         <<"bump", "delete", "incr", "register">>, Cached!Publication}

\* What a reader still has to do before and after it has read the tables.
Unread == {Cached!Careful, <<"read", "check", "store", "recheck">>,
           Cached!Provide}
Unkept == {<<"gen", "check", "store", "recheck">>, <<"check", "store", "recheck">>,
           <<"store", "recheck">>}
Kept == {<<"recheck">>}
Making == [page : Shown \cup {"list"}, todo : Unread \cup Unkept \cup Kept,
           gen : Nat, seen : Nat, value : Nat]

CacheTyped ==
    /\ content \in [Shown -> Nat] /\ filmList \in Nat
    /\ playGen \in Nat /\ listGen \in Nat
    /\ mids \subseteq Shown /\ version \in BOOLEAN
    /\ timer \in {"nil", "armed", "fired"} /\ stray \in BOOLEAN
    /\ steps \in [Cached!Invalidator -> Todo]
    /\ due \in [Cached!Invalidator -> SUBSET Shown]
    /\ reader \in [Reader -> {Cached!Idle} \cup Making]
    /\ \A f \in Shown : detail[f] \in 0 .. content[f] \cup {None}
    /\ detail \in [Shown -> Nat \cup {None}]
    /\ list \in 0 .. filmList \cup {None}
    /\ slipped \subseteq {f \in Shown : detail[f] # None}

\* Films are in hand only while there is something to do about them.
InHand ==
    \A p \in Cached!Invalidator :
        steps[p] = <<>> \/ steps[p] = Cached!Debounced => due[p] = {}

\* The lists will be thrown away by somebody who has yet to start a new
\* generation of them.
ListsDue ==
    \/ Cached!Armed
    \/ \E p \in Cached!Invalidator :
           Cached!Has(p, "bump") \/ Cached!Has(p, "register")

\* Somebody will start a new generation after film f has changed.
Coming(f) ==
    \E p \in Cached!Invalidator : f \in due[p] /\ Cached!Has(p, "incr")

\* A reader that holds an old page will be told, or somebody will delete it
\* after it was stored.
Held(r) ==
    LET x == reader[r] IN
    /\ x.gen <= Cached!GenOf(r) /\ x.seen <= Cached!GenOf(r)
    /\ x.page = "list" =>
          x.todo \notin {Cached!Provide, <<"gen", "check", "store", "recheck">>}
    /\ x.todo \in Unkept /\ x.page = "list" =>
        /\ x.value <= filmList
        /\ x.value = filmList \/ x.gen < listGen \/ ListsDue
    /\ \A f \in Shown : x.todo \in Unkept /\ x.page = f =>
        /\ x.value <= content[f]
        /\ x.value = content[f] \/ x.seen < playGen \/ Coming(f)

\* Who will throw an old list away, and who an old detail.
ListLeaves ==
    \/ Cached!Armed
    \/ \E p \in Cached!Invalidator :
           \/ Cached!Has(p, "bump") \/ Cached!Has(p, "clear")
           \/ Cached!Has(p, "register")
Leaves(f) ==
    \/ f \in mids /\ Cached!Armed
    \/ \E p \in Cached!Invalidator : f \in due[p] /\ Cached!Has(p, "delete")

CacheInv ==
    /\ CacheTyped /\ InHand
    /\ \A r \in Reader : Cached!Reads(r) => Held(r)
    /\ Cached!ListsFresh /\ Cached!DetailsFresh /\ Cached!DebounceRuns

-----------------------------------------------------------------------------
\* What is in a sequence of one to five steps, and in none.
LEMMA RangeOf1 ==
    ASSUME NEW a PROVE Cached!Range(<<a>>) = {a}
<1> DEFINE s == <<a>>
<1>1. DOMAIN s = 1 .. 1 /\ s[1] = a
  OBVIOUS
<1> HIDE DEF s
<1>2. Cached!Range(s) = {a}
  BY <1>1 DEF Cached!Range
<1> QED
  BY <1>2 DEF s

LEMMA RangeOf2 ==
    ASSUME NEW a, NEW b PROVE Cached!Range(<<a, b>>) = {a, b}
<1> DEFINE s == <<a, b>>
<1>1. DOMAIN s = 1 .. 2 /\ s[1] = a /\ s[2] = b
  OBVIOUS
<1> HIDE DEF s
<1>2. Cached!Range(s) = {a, b}
  BY <1>1 DEF Cached!Range
<1> QED
  BY <1>2 DEF s

LEMMA RangeOf3 ==
    ASSUME NEW a, NEW b, NEW c PROVE Cached!Range(<<a, b, c>>) = {a, b, c}
<1> DEFINE s == <<a, b, c>>
<1>1. DOMAIN s = 1 .. 3 /\ s[1] = a /\ s[2] = b /\ s[3] = c
  OBVIOUS
<1> HIDE DEF s
<1>2. Cached!Range(s) = {a, b, c}
  BY <1>1 DEF Cached!Range
<1> QED
  BY <1>2 DEF s

LEMMA RangeOf4 ==
    ASSUME NEW a, NEW b, NEW c, NEW d PROVE Cached!Range(<<a, b, c, d>>) = {a, b, c, d}
<1> DEFINE s == <<a, b, c, d>>
<1>1. DOMAIN s = 1 .. 4 /\ s[1] = a /\ s[2] = b /\ s[3] = c /\ s[4] = d
  OBVIOUS
<1> HIDE DEF s
<1>2. Cached!Range(s) = {a, b, c, d}
  BY <1>1 DEF Cached!Range
<1> QED
  BY <1>2 DEF s

LEMMA RangeOf5 ==
    ASSUME NEW a, NEW b, NEW c, NEW d, NEW e
    PROVE  Cached!Range(<<a, b, c, d, e>>) = {a, b, c, d, e}
<1> DEFINE s == <<a, b, c, d, e>>
<1>1. DOMAIN s = 1 .. 5 /\ s[1] = a /\ s[2] = b /\ s[3] = c /\ s[4] = d /\ s[5] = e
  OBVIOUS
<1> HIDE DEF s
<1>2. Cached!Range(s) = {a, b, c, d, e}
  BY <1>1 DEF Cached!Range
<1> QED
  BY <1>2 DEF s

LEMMA NoRange == Cached!Range(<<>>) = {}
<1> DEFINE s == <<>>
<1>1. DOMAIN s = {}
  OBVIOUS
<1> HIDE DEF s
<1>2. Cached!Range(s) = {}
  BY <1>1 DEF Cached!Range
<1> QED
  BY <1>2 DEF s

\* What the first step of an invalidation leaves to do.
Walks(s) ==
    /\ Tail(s) \in Todo
    /\ Cached!Range(s) = {Head(s)} \cup Cached!Range(Tail(s))
    /\ Head(s) \notin Cached!Range(Tail(s))
    /\ Head(s) = "incr" => "delete" \notin Cached!Range(s)
    /\ "incr" \in Cached!Range(s) => Head(s) = "incr" \/ "delete" \in Cached!Range(s)
    /\ "delete" \in Cached!Range(s) => "incr" \in Cached!Range(s)
    /\ Len(s) = 1 => s = <<"incr">> \/ s = <<"register">>
    /\ Tail(s) = <<>> => Len(s) = 1
    /\ Head(s) = "bump" =>
          "clear" \in Cached!Range(Tail(s)) \/ "register" \in Cached!Range(Tail(s))
    /\ Head(s) = "drain" => s = Cached!Debounced
    /\ Tail(s) # Cached!Debounced

\* Every list of steps an invalidation can have is such a one.
LEMMA Walk == ASSUME NEW s \in Todo, s # <<>> PROVE Walks(s)
<1> USE RangeOf1, RangeOf2, RangeOf3, RangeOf4, RangeOf5, NoRange
    DEF Todo, Walks, Cached!Broad, Cached!Debounced, Cached!Publication
<1>1. CASE s = <<"incr">>
  BY <1>1
<1>2. CASE s = <<"delete", "incr">>
  BY <1>2
<1>3. CASE s = <<"clear", "delete", "incr">>
  BY <1>3
<1>4. CASE s = <<"bump", "clear", "delete", "incr">>
  BY <1>4
<1>5. CASE s = <<"drain", "bump", "clear", "delete", "incr">>
  BY <1>5
<1>6. CASE s = <<"register">>
  BY <1>6
<1>7. CASE s = <<"incr", "register">>
  BY <1>7
<1>8. CASE s = <<"delete", "incr", "register">>
  BY <1>8
<1>9. CASE s = <<"bump", "delete", "incr", "register">>
  BY <1>9
<1>10. CASE s = <<"lock", "bump", "delete", "incr", "register">>
  BY <1>10
<1> QED
  BY <1>1, <1>2, <1>3, <1>4, <1>5, <1>6, <1>7, <1>8, <1>9, <1>10

\* What a step of an invalidation leaves.
LEMMA DoesWalks ==
    ASSUME CacheTyped, InHand, NEW p \in Cached!Invalidator, NEW step,
           Cached!Does(p, step)
    PROVE  /\ steps' \in [Cached!Invalidator -> Todo]
           /\ due' \in [Cached!Invalidator -> SUBSET Shown]
           /\ InHand'
           /\ \A q \in Cached!Invalidator \ {p} :
                  steps'[q] = steps[q] /\ due'[q] = due[q]
           /\ \A x : Cached!Has(p, x) <=> x = step \/ Cached!Has(p, x)'
           /\ ~Cached!Has(p, step)'
           /\ step = "incr" => ~Cached!Has(p, "delete")
           /\ Cached!Has(p, "delete")' => Cached!Has(p, "incr")'
           /\ step \notin {"incr", "register"} => due'[p] = due[p]
           /\ due'[p] \subseteq due[p]
           /\ Cached!Has(p, "incr")' => due'[p] = due[p]
           /\ step = "bump" => Cached!Has(p, "clear")' \/ Cached!Has(p, "register")'
<1> DEFINE s == steps[p]
<1>1. s \in Todo /\ s # <<>> /\ Head(s) = step
  BY DEF CacheTyped, Cached!Does
<1>2. Walks(s)
  BY <1>1, Walk
<1>3. /\ steps' = [steps EXCEPT ![p] = Tail(s)]
      /\ due' = [due EXCEPT ![p] = IF Len(s) = 1 THEN {} ELSE due[p]]
  BY DEF Cached!Does
<1>4. /\ steps'[p] = Tail(s)
      /\ due'[p] = IF Len(s) = 1 THEN {} ELSE due[p]
      /\ \A q \in Cached!Invalidator \ {p} : steps'[q] = steps[q] /\ due'[q] = due[q]
  BY <1>3 DEF CacheTyped
<1>5. /\ steps' \in [Cached!Invalidator -> Todo]
      /\ due' \in [Cached!Invalidator -> SUBSET Shown]
  BY <1>2, <1>3 DEF CacheTyped, Walks
<1>6. InHand'
  BY <1>2, <1>4 DEF InHand, Walks
<1>7. /\ Cached!Range(s) = {step} \cup Cached!Range(steps'[p])
      /\ step \notin Cached!Range(steps'[p])
  BY <1>1, <1>2, <1>4 DEF Walks
<1>8. Len(s) = 1 => Cached!Range(steps'[p]) = {} /\ step \in {"incr", "register"}
  <2>1. CASE s = <<"incr">>
    BY <1>1, <1>4, <2>1, NoRange
  <2>2. CASE s = <<"register">>
    BY <1>1, <1>4, <2>2, NoRange
  <2> QED
    BY <1>2, <2>1, <2>2 DEF Walks
<1>9. "delete" \in Cached!Range(steps'[p]) => "incr" \in Cached!Range(steps'[p])
  BY <1>1, <1>2, <1>7 DEF Walks
<1> QED
  BY <1>1, <1>2, <1>4, <1>5, <1>6, <1>7, <1>8, <1>9 DEF Walks, Cached!Has

-----------------------------------------------------------------------------
(* What a step of an invalidation or of a change has to show               *)

\* A generation that began is not forgotten.
LEMMA HeldStays ==
    ASSUME CacheTyped, NEW r \in Reader, reader' = reader,
           Cached!Reads(r), Held(r),
           playGen' \in Nat, listGen' \in Nat, filmList' \in Nat,
           content' \in [Shown -> Nat],
           playGen <= playGen', listGen <= listGen', filmList <= filmList',
           \A f \in Shown : content[f] <= content'[f],
           ListsDue => ListsDue' \/ listGen < listGen',
           filmList' = filmList \/ ListsDue',
           \A f \in Shown : content'[f] = content[f] \/ Coming(f)',
           \A f \in Shown : Coming(f) => Coming(f)' \/ playGen < playGen'
    PROVE  Held(r)'
<1> DEFINE x == reader[r]
<1>1. x \in Making
  BY DEF CacheTyped, Cached!Reads, Cached!Idle
<1>2. /\ x.page \in Shown \cup {"list"} /\ x.gen \in Nat /\ x.seen \in Nat
      /\ x.value \in Nat
  BY <1>1 DEF Making
<1>3. Cached!GenOf(r) \in Nat /\ Cached!GenOf(r)' \in Nat
      /\ Cached!GenOf(r) <= Cached!GenOf(r)'
  BY DEF Cached!GenOf, CacheTyped
<1>4. x.gen <= Cached!GenOf(r)' /\ x.seen <= Cached!GenOf(r)'
  BY <1>2, <1>3 DEF Held
<1>5. ASSUME x.todo \in Unkept, x.page = "list"
      PROVE  /\ x.value <= filmList'
             /\ x.value = filmList' \/ x.gen < listGen' \/ ListsDue'
  <2>1. /\ x.value <= filmList /\ x.gen <= listGen
        /\ x.value = filmList \/ x.gen < listGen \/ ListsDue
    BY <1>5 DEF Held, Cached!GenOf
  <2>2. filmList \in Nat /\ listGen \in Nat
    BY DEF CacheTyped
  <2> QED
    BY <1>2, <2>1, <2>2
<1>6. ASSUME NEW f \in Shown, x.todo \in Unkept, x.page = f
      PROVE  /\ x.value <= content'[f]
             /\ x.value = content'[f] \/ x.seen < playGen' \/ Coming(f)'
  <2>1. /\ content[f] \in Nat /\ content'[f] \in Nat /\ playGen \in Nat
        /\ f # "list"
    BY CacheAssumption DEF CacheTyped
  <2>2. /\ x.value <= content[f] /\ x.seen <= playGen
        /\ x.value = content[f] \/ x.seen < playGen \/ Coming(f)
    BY <1>6, <2>1 DEF Held, Cached!GenOf
  <2>3. /\ content[f] <= content'[f]
        /\ content'[f] = content[f] \/ Coming(f)'
        /\ Coming(f) => Coming(f)' \/ playGen < playGen'
    OBVIOUS
  <2> QED
    BY <1>2, <2>1, <2>2, <2>3
<1>7. x.page = "list" =>
          x.todo \notin {Cached!Provide, <<"gen", "check", "store", "recheck">>}
  BY DEF Held
<1> QED
  BY <1>4, <1>5, <1>6, <1>7 DEF Held

\* What a step of an invalidation, or of a change, has to show.
LEMMA Invalidated ==
    ASSUME CacheInv, reader' = reader, CacheTyped', InHand', Cached!DebounceRuns',
           playGen <= playGen', listGen <= listGen', filmList <= filmList',
           \A f \in Shown : content[f] <= content'[f],
           ListsDue => ListsDue' \/ listGen < listGen',
           filmList' = filmList \/ ListsDue',
           list' = None \/ (list' = list /\ (ListLeaves => ListLeaves')),
           \A f \in Shown : content'[f] = content[f] \/ (Coming(f)' /\ Leaves(f)'),
           \A f \in Shown : Coming(f) => Coming(f)' \/ playGen < playGen',
           \A f \in Shown :
               \/ detail'[f] = None
               \/ /\ detail'[f] = detail[f] /\ (f \in slipped => f \in slipped')
                  /\ Leaves(f) => Leaves(f)'
    PROVE  CacheInv'
<1>1. \A r \in Reader : Cached!Reads(r)' => Held(r)'
  <2>1. \A r \in Reader : Cached!Reads(r)' <=> Cached!Reads(r)
    BY DEF Cached!Reads
  <2> QED
    BY <2>1, HeldStays DEF CacheInv, CacheTyped
<1>2. ASSUME NEW page, Cached!Withdraws(page) PROVE Cached!Withdraws(page)'
  <2>1. PICK r \in Reader : /\ Cached!At(r, "recheck") /\ reader[r].page = page
                            /\ reader[r].gen # Cached!GenOf(r)
    BY <1>2 DEF Cached!Withdraws
  <2>2. Cached!Reads(r) /\ Held(r) /\ reader[r] \in Making
    BY <2>1 DEF Cached!At, CacheInv, CacheTyped, Cached!Reads, Cached!Idle
  <2>3. reader[r].gen < Cached!GenOf(r)
    BY <2>1, <2>2, SMTT(30) DEF Held, Making, Cached!GenOf, CacheInv, CacheTyped
  <2>4. reader[r].gen # Cached!GenOf(r)'
    BY <2>2, <2>3 DEF Making, Cached!GenOf, CacheInv, CacheTyped
  <2> QED
    BY <2>1, <2>4 DEF Cached!Withdraws, Cached!At, Cached!Reads
<1>3. Cached!ListsFresh'
  <2>1. CASE list' = None
    BY <2>1 DEF Cached!ListsFresh
  <2>2. CASE list' = list /\ (ListLeaves => ListLeaves')
    <3>1. list \in {filmList, None} \/ ListLeaves \/ Cached!Withdraws("list")
      BY DEF CacheInv, Cached!ListsFresh, ListLeaves
    <3>2. ListsDue' => ListLeaves'
      BY DEF ListsDue, ListLeaves
    <3>3. list' \in {filmList', None} \/ ListLeaves' \/ Cached!Withdraws("list")'
      BY <1>2, <2>2, <3>1, <3>2
    <3> QED
      BY <3>3 DEF Cached!ListsFresh, ListLeaves
  <2> QED
    BY <2>1, <2>2
<1>4. Cached!DetailsFresh'
  <2>1. ASSUME NEW f \in Shown, f \notin slipped'
        PROVE  detail'[f] \in {content'[f], None} \/ Cached!Withdraws(f)' \/ Leaves(f)'
    <3>1. CASE detail'[f] = None
      BY <3>1
    <3>2. CASE detail'[f] # None
      <4>1. /\ detail'[f] = detail[f] /\ f \notin slipped
            /\ Leaves(f) => Leaves(f)'
        BY <2>1, <3>2
      <4>2. \/ detail[f] \in {content[f], None} \/ Cached!Withdraws(f) \/ Leaves(f)
        BY <4>1 DEF CacheInv, Cached!DetailsFresh, Leaves
      <4> QED
        BY <1>2, <4>1, <4>2
    <3> QED
      BY <3>1, <3>2
  <2> QED
    BY <2>1 DEF Cached!DetailsFresh, Leaves
<1> QED
  BY <1>1, <1>3, <1>4 DEF CacheInv

-----------------------------------------------------------------------------
(* The steps of an invalidation                                            *)

USE DEF Cached!tables, Cached!pages, Cached!debounce, Cached!vars

\* The lock of a publication.
LEMMA LocksKeeps ==
    ASSUME CacheInv, NEW w \in Actor, Cached!Locks(w) PROVE CacheInv'
<1> USE DEF Cached!Locks
<1>1. w \in Cached!Invalidator /\ CacheTyped /\ InHand
  BY DEF Cached!Invalidator, CacheInv
<1>2. Cached!Does(w, "lock")
  OBVIOUS
<1>3. /\ \A q \in Cached!Invalidator : \A x : x # "lock" =>
            (Cached!Has(q, x)' <=> Cached!Has(q, x))
      /\ due' = due
  BY <1>1, <1>2, DoesWalks DEF Cached!Has, CacheTyped
<1>4. CacheTyped' /\ InHand'
  BY <1>1, <1>2, DoesWalks DEF CacheTyped
<1>5. /\ Cached!Armed' <=> Cached!Armed
      /\ ListsDue' <=> ListsDue
      /\ ListLeaves' <=> ListLeaves
      /\ \A f : (Coming(f)' <=> Coming(f)) /\ (Leaves(f)' <=> Leaves(f))
  BY <1>3 DEF Cached!Armed, ListsDue, ListLeaves, Coming, Leaves, Cached!Invalidator
<1>6. Cached!DebounceRuns'
  BY <1>5 DEF CacheInv, Cached!DebounceRuns
<1> QED
  BY <1>1, <1>4, <1>5, <1>6, Invalidated DEF CacheTyped

\* A new generation of the lists.
LEMMA BumpsKeeps ==
    ASSUME CacheInv, NEW p \in Cached!Invalidator, Cached!Bumps(p) PROVE CacheInv'
<1> USE DEF Cached!Bumps
<1>1. CacheTyped /\ InHand
  BY DEF CacheInv
<1>2. Cached!Does(p, "bump")
  OBVIOUS
<1>3. /\ \A q \in Cached!Invalidator : \A x : x # "bump" =>
            (Cached!Has(q, x)' <=> Cached!Has(q, x))
      /\ due' = due
      /\ Cached!Has(p, "clear")' \/ Cached!Has(p, "register")'
      /\ \A q \in Cached!Invalidator \ {p} :
            \A x : Cached!Has(q, x)' <=> Cached!Has(q, x)
  BY <1>1, <1>2, DoesWalks DEF Cached!Has, CacheTyped
<1>4. CacheTyped' /\ InHand'
  BY <1>1, <1>2, DoesWalks DEF CacheTyped
<1>5. /\ Cached!Armed' <=> Cached!Armed
      /\ ListLeaves => ListLeaves'
      /\ \A f : (Coming(f)' <=> Coming(f)) /\ (Leaves(f)' <=> Leaves(f))
  BY <1>3 DEF Cached!Armed, ListLeaves, Coming, Leaves, Cached!Invalidator
<1>6. Cached!DebounceRuns'
  BY <1>5 DEF CacheInv, Cached!DebounceRuns
<1> QED
  BY <1>1, <1>4, <1>5, <1>6, Invalidated DEF CacheTyped

\* The lists are thrown away.
LEMMA ClearsKeeps ==
    ASSUME CacheInv, NEW p \in Cached!Invalidator, Cached!Clears(p) PROVE CacheInv'
<1> USE DEF Cached!Clears
<1>1. CacheTyped /\ InHand
  BY DEF CacheInv
<1>2. Cached!Does(p, "clear")
  OBVIOUS
<1>3. /\ \A q \in Cached!Invalidator : \A x : x # "clear" =>
            (Cached!Has(q, x)' <=> Cached!Has(q, x))
      /\ due' = due
  BY <1>1, <1>2, DoesWalks DEF Cached!Has, CacheTyped
<1>4. CacheTyped' /\ InHand'
  BY <1>1, <1>2, DoesWalks DEF CacheTyped
<1>5. /\ Cached!Armed' <=> Cached!Armed
      /\ ListsDue' <=> ListsDue
      /\ \A f : (Coming(f)' <=> Coming(f)) /\ (Leaves(f)' <=> Leaves(f))
  BY <1>3 DEF Cached!Armed, ListsDue, Coming, Leaves, Cached!Invalidator
<1>6. Cached!DebounceRuns'
  BY <1>5 DEF CacheInv, Cached!DebounceRuns
<1> QED
  BY <1>1, <1>4, <1>5, <1>6, Invalidated DEF CacheTyped

\* The details of the films in hand are thrown away; the generation that says
\* so is about to begin.
LEMMA DeletesKeeps ==
    ASSUME CacheInv, NEW p \in Cached!Invalidator, Cached!Deletes(p) PROVE CacheInv'
<1> USE DEF Cached!Deletes
<1>1. CacheTyped /\ InHand
  BY DEF CacheInv
<1>2. Cached!Does(p, "delete")
  OBVIOUS
<1>3. /\ \A q \in Cached!Invalidator : \A x : x # "delete" =>
            (Cached!Has(q, x)' <=> Cached!Has(q, x))
      /\ due' = due
      /\ \A q \in Cached!Invalidator \ {p} :
            \A x : Cached!Has(q, x)' <=> Cached!Has(q, x)
  BY <1>1, <1>2, DoesWalks DEF Cached!Has, CacheTyped
<1>4. CacheTyped' /\ InHand'
  BY <1>1, <1>2, DoesWalks DEF CacheTyped
<1>5. /\ Cached!Armed' <=> Cached!Armed
      /\ ListsDue' <=> ListsDue
      /\ ListLeaves' <=> ListLeaves
      /\ \A f : Coming(f)' <=> Coming(f)
      /\ \A f : f \notin due[p] /\ Leaves(f) => Leaves(f)'
  BY <1>3 DEF Cached!Armed, ListsDue, ListLeaves, Coming, Leaves, Cached!Invalidator
<1>6. Cached!DebounceRuns'
  BY <1>5 DEF CacheInv, Cached!DebounceRuns
<1> QED
  BY <1>1, <1>4, <1>5, <1>6, Invalidated DEF CacheTyped

\* A new generation of the details.
LEMMA IncrementsKeeps ==
    ASSUME CacheInv, NEW p \in Cached!Invalidator, Cached!Increments(p)
    PROVE  CacheInv'
<1> USE DEF Cached!Increments
<1>1. CacheTyped /\ InHand
  BY DEF CacheInv
<1>2. Cached!Does(p, "incr")
  OBVIOUS
<1>3. /\ \A q \in Cached!Invalidator : \A x : x # "incr" =>
            (Cached!Has(q, x)' <=> Cached!Has(q, x))
      /\ \A q \in Cached!Invalidator \ {p} :
            /\ due'[q] = due[q]
            /\ \A x : Cached!Has(q, x)' <=> Cached!Has(q, x)
      /\ ~Cached!Has(p, "delete")
  BY <1>1, <1>2, DoesWalks DEF Cached!Has, CacheTyped
<1>4. CacheTyped' /\ InHand'
  BY <1>1, <1>2, DoesWalks DEF CacheTyped
<1>5. /\ Cached!Armed' <=> Cached!Armed
      /\ ListsDue' <=> ListsDue
      /\ ListLeaves' <=> ListLeaves
      /\ \A f : Leaves(f) => Leaves(f)'
      /\ \A f : f \notin due[p] /\ Coming(f) => Coming(f)'
  BY <1>3 DEF Cached!Armed, ListsDue, ListLeaves, Coming, Leaves, Cached!Invalidator
<1>6. Cached!DebounceRuns'
  BY <1>5 DEF CacheInv, Cached!DebounceRuns
<1>7. playGen <= playGen' /\ (due[p] # {} => playGen < playGen')
  BY <1>1 DEF CacheTyped
<1> QED
  BY <1>1, <1>4, <1>5, <1>6, <1>7, Invalidated DEF CacheTyped

\* A publication leaves its films and the lists to the timer.
LEMMA RegistersKeeps ==
    ASSUME CacheInv, NEW w \in Actor, Cached!Registers(w) PROVE CacheInv'
<1> USE DEF Cached!Registers
<1>1. w \in Cached!Invalidator /\ CacheTyped /\ InHand
  BY DEF Cached!Invalidator, CacheInv
<1>2. Cached!Does(w, "register")
  OBVIOUS
<1>3. /\ \A q \in Cached!Invalidator \ {w} :
            /\ due'[q] = due[q]
            /\ \A x : Cached!Has(q, x)' <=> Cached!Has(q, x)
      /\ Cached!Has(w, "incr")' <=> Cached!Has(w, "incr")
      /\ Cached!Has(w, "delete")' <=> Cached!Has(w, "delete")
      /\ Cached!Has(w, "incr") \/ Cached!Has(w, "delete") => due'[w] = due[w]
  BY <1>1, <1>2, DoesWalks DEF Cached!Has, CacheTyped
<1>4. CacheTyped' /\ InHand'
  BY <1>1, <1>2, DoesWalks DEF CacheTyped
<1>5. /\ Cached!Armed'
      /\ ListsDue' /\ ListLeaves'
      /\ \A f : Leaves(f) => Leaves(f)'
      /\ \A f : Coming(f) => Coming(f)'
  BY <1>3 DEF Cached!Armed, ListsDue, ListLeaves, Coming, Leaves, Cached!Invalidator
<1>6. Cached!DebounceRuns'
  BY <1>5 DEF CacheInv, Cached!DebounceRuns
<1> QED
  BY <1>1, <1>4, <1>5, <1>6, Invalidated DEF CacheTyped

\* What is in each way to invalidate.
LEMMA Flows ==
    /\ Cached!Range(Cached!Publication) =
           {"lock", "bump", "delete", "incr", "register"}
    /\ Cached!Range(Cached!Broad) = {"bump", "clear", "delete", "incr"}
    /\ Cached!Range(Cached!Debounced) = {"drain", "bump", "clear", "delete", "incr"}
    /\ Cached!Range(Cached!Dynamic) = {"delete", "incr"}
    /\ {Cached!Publication, Cached!Broad, Cached!Dynamic, Cached!Debounced}
           \subseteq Todo
    /\ \A s \in {Cached!Publication, Cached!Broad, Cached!Dynamic} :
           s # <<>> /\ s # Cached!Debounced
<1> USE DEF Cached!Publication, Cached!Broad, Cached!Debounced, Cached!Dynamic
<1>1. Cached!Range(Cached!Publication) =
           {"lock", "bump", "delete", "incr", "register"}
  BY RangeOf5
<1>2. Cached!Range(Cached!Broad) = {"bump", "clear", "delete", "incr"}
  BY RangeOf4
<1>3. Cached!Range(Cached!Debounced) = {"drain", "bump", "clear", "delete", "incr"}
  BY RangeOf5
<1>4. Cached!Range(Cached!Dynamic) = {"delete", "incr"}
  BY RangeOf2
<1>5. {Cached!Publication, Cached!Broad, Cached!Dynamic, Cached!Debounced}
          \subseteq Todo
  BY DEF Todo
<1>6. \A s \in {Cached!Publication, Cached!Broad, Cached!Dynamic} :
           s # <<>> /\ s # Cached!Debounced
  <2> HIDE DEF Cached!Publication, Cached!Broad, Cached!Debounced, Cached!Dynamic
  <2> QED
    BY <1>1, <1>2, <1>3, <1>4, NoRange
<1> QED
  BY <1>1, <1>2, <1>3, <1>4, <1>5, <1>6

\* Whoever has nothing left to do has no film in hand.
LEMMA AtRest ==
    ASSUME CacheInv, NEW p \in Cached!Invalidator, steps[p] = <<>>
    PROVE  due[p] = {} /\ \A x : ~Cached!Has(p, x)
BY NoRange DEF CacheInv, InHand, Cached!Has

\* A change of the tables comes with an invalidation that reaches it.
LEMMA CommitsKeeps ==
    ASSUME CacheInv, NEW w \in Actor, NEW some \in SUBSET Shown,
           NEW how \in {Cached!Publication, Cached!Broad, Cached!Dynamic},
           Cached!Commits(w, some), steps' = [steps EXCEPT ![w] = how],
           \/ filmList' = filmList
           \/ filmList' = filmList + 1 /\ how # Cached!Dynamic
    PROVE  CacheInv'
<1> USE DEF Cached!Commits
<1>1. w \in Cached!Invalidator /\ CacheTyped /\ InHand
  BY DEF Cached!Invalidator, CacheInv
<1>2. due[w] = {} /\ \A x : ~Cached!Has(w, x)
  BY <1>1, AtRest
<1>3. /\ steps'[w] = how /\ due'[w] = some
      /\ \A q \in Cached!Invalidator \ {w} :
            /\ due'[q] = due[q]
            /\ \A x : Cached!Has(q, x)' <=> Cached!Has(q, x)
      /\ Cached!Has(w, "delete")' /\ Cached!Has(w, "incr")'
      /\ how # Cached!Dynamic => Cached!Has(w, "bump")'
  BY <1>1, Flows DEF Cached!Has, CacheTyped
<1>4. /\ steps' \in [Cached!Invalidator -> Todo]
      /\ due' \in [Cached!Invalidator -> SUBSET Shown]
      /\ content' \in [Shown -> Nat] /\ filmList' \in Nat
      /\ filmList <= filmList'
      /\ \A f \in Shown : /\ content[f] <= content'[f]
                          /\ f \notin some => content'[f] = content[f]
  BY <1>1, Flows DEF CacheTyped
<1>5. CacheTyped'
  <2>1. \A f \in Shown : detail'[f] \in 0 .. content'[f] \cup {None}
    BY <1>4 DEF CacheTyped, CacheInv
  <2>2. list' \in 0 .. filmList' \cup {None}
    BY <1>4 DEF CacheTyped, CacheInv
  <2> QED
    BY <1>1, <1>4, <2>1, <2>2 DEF CacheTyped
<1>6. InHand'
  BY <1>1, <1>3, <1>4, Flows DEF InHand, Cached!Has, CacheTyped
<1>7. /\ Cached!Armed => Cached!Armed'
      /\ ListsDue => ListsDue'
      /\ ListLeaves => ListLeaves'
      /\ \A f : Coming(f) => Coming(f)'
      /\ \A f : Leaves(f) => Leaves(f)'
      /\ \A f \in some : Coming(f)' /\ Leaves(f)'
      /\ how # Cached!Dynamic => ListsDue'
  BY <1>1, <1>2, <1>3 DEF Cached!Armed, ListsDue, ListLeaves, Coming, Leaves,
     Cached!Invalidator
<1>8. Cached!DebounceRuns'
  BY <1>7 DEF CacheInv, Cached!DebounceRuns
<1> QED
  BY <1>1, <1>4, <1>5, <1>6, <1>7, <1>8, Invalidated DEF CacheTyped

\* The timer starts its goroutine, which holds on to what is registered.
LEMMA FiresKeeps == ASSUME CacheInv, Cached!Fires PROVE CacheInv'
<1> USE DEF Cached!Fires
<1>1. Timer \in Cached!Invalidator /\ CacheTyped /\ InHand
  BY DEF Cached!Invalidator, CacheInv
<1>2. due[Timer] = {} /\ \A x : ~Cached!Has(Timer, x)
  BY <1>1, AtRest
<1>3. /\ steps' = [steps EXCEPT ![Timer] = Cached!Debounced]
      /\ steps'[Timer] = Cached!Debounced
      /\ \A q \in Cached!Invalidator \ {Timer} :
            \A x : Cached!Has(q, x)' <=> Cached!Has(q, x)
      /\ Cached!Has(Timer, "drain")'
  BY <1>1, Flows DEF Cached!Has, CacheTyped
<1>4. CacheTyped'
  BY <1>1, <1>3, Flows DEF CacheTyped
<1>5. InHand'
  BY <1>1, <1>2, <1>3 DEF InHand, Cached!Has, CacheTyped
<1>6. /\ Cached!Armed' /\ ListsDue' /\ ListLeaves'
      /\ \A f : Coming(f) => Coming(f)'
      /\ \A f : Leaves(f) => Leaves(f)'
  BY <1>1, <1>2, <1>3 DEF Cached!Armed, ListsDue, ListLeaves, Coming, Leaves
<1>7. Cached!DebounceRuns'
  BY <1>6 DEF CacheInv, Cached!DebounceRuns
<1> QED
  BY <1>1, <1>4, <1>5, <1>6, <1>7, Invalidated DEF CacheTyped

\* Whoever takes what is registered has all of it to do.
LEMMA DrainedKeeps ==
    ASSUME CacheInv, NEW p \in Cached!Invalidator,
           steps[p] \in {<<>>, Cached!Debounced}, Cached!Drained(p),
           steps' = [steps EXCEPT ![p] = Cached!Broad], stray' \in BOOLEAN,
           UNCHANGED <<Cached!tables, Cached!pages, playGen, listGen, reader>>
    PROVE  CacheInv'
<1> USE DEF Cached!Drained
<1>1. CacheTyped /\ InHand
  BY DEF CacheInv
<1>2. due[p] = {}
  BY <1>1 DEF InHand
<1>3. /\ steps'[p] = Cached!Broad /\ due'[p] = mids
      /\ \A q \in Cached!Invalidator \ {p} :
            /\ due'[q] = due[q]
            /\ \A x : Cached!Has(q, x)' <=> Cached!Has(q, x)
      /\ Cached!Has(p, "delete")' /\ Cached!Has(p, "bump")'
  BY <1>1, Flows DEF Cached!Has, CacheTyped
<1>4. CacheTyped'
  BY <1>1, Flows DEF CacheTyped
<1>5. InHand'
  BY <1>1, <1>3, Flows DEF InHand, Cached!Has, CacheTyped
<1>6. /\ ListsDue' /\ ListLeaves'
      /\ \A f : Coming(f) => Coming(f)'
      /\ \A f : Leaves(f) => Leaves(f)'
  BY <1>1, <1>2, <1>3 DEF ListsDue, ListLeaves, Coming, Leaves
<1>7. Cached!DebounceRuns'
  BY DEF Cached!DebounceRuns
<1> QED
  BY <1>1, <1>4, <1>5, <1>6, <1>7, Invalidated DEF CacheTyped

\* What a writer does besides invalidating.
LEMMA ChangesKeeps ==
    ASSUME CacheInv, NEW w \in Actor, Cached!Changes(w) PROVE CacheInv'
<1>1. ASSUME NEW some \in SUBSET Shown, Cached!WritesFilms(w, some)
      PROVE  CacheInv'
  <2>1. PICK how \in {Cached!Publication, Cached!Broad} :
            steps' = [steps EXCEPT ![w] = how]
    BY <1>1 DEF Cached!WritesFilms
  <2>2. how # Cached!Dynamic
    BY Flows
  <2> QED
    BY <1>1, <2>1, <2>2, CommitsKeeps DEF Cached!WritesFilms
<1>2. CASE Cached!WritesLines(w)
  BY <1>2, CommitsKeeps DEF Cached!WritesLines
<1>3. CASE Cached!Flushes(w)
  BY <1>3, DrainedKeeps DEF Cached!Flushes, Cached!Invalidator, CacheInv, CacheTyped
<1> QED
  BY <1>1, <1>2, <1>3, LocksKeeps, RegistersKeeps DEF Cached!Changes

\* The goroutine of the timer takes what is registered.
LEMMA DrainsKeeps == ASSUME CacheInv, Cached!Drains PROVE CacheInv'
<1>1. Timer \in Cached!Invalidator /\ CacheTyped
  BY DEF Cached!Invalidator, CacheInv
<1>2. steps[Timer] = Cached!Debounced
  BY <1>1, Walk DEF Cached!Drains, Walks, CacheTyped
<1>3. stray' \in BOOLEAN
  BY <1>1 DEF Cached!Drains, CacheTyped
<1> QED
  BY <1>1, <1>2, <1>3, DrainedKeeps DEF Cached!Drains

-----------------------------------------------------------------------------
(* The steps of a reader                                                   *)

\* What the first step of a reader leaves to do.
LEMMA ReaderWalk ==
    ASSUME NEW t \in Unread \cup Unkept \cup Kept
    PROVE  /\ t # <<>> /\ Tail(t) \in {<<>>} \cup Unread \cup Unkept \cup Kept
           /\ Head(t) = "gen" =>
                 \/ Tail(t) = <<"read", "check", "store", "recheck">>
                 \/ t \in Unkept /\ Tail(t) = <<"check", "store", "recheck">>
                    /\ t = <<"gen", "check", "store", "recheck">>
           /\ Head(t) = "read" =>
                 \/ Tail(t) = <<"check", "store", "recheck">>
                 \/ t = Cached!Provide
                    /\ Tail(t) = <<"gen", "check", "store", "recheck">>
           /\ Head(t) = "check" => t \in Unkept /\ Tail(t) = <<"store", "recheck">>
           /\ Head(t) = "store" => t \in Unkept /\ Tail(t) = <<"recheck">>
<1> USE DEF Unread, Unkept, Kept, Cached!Careful, Cached!Provide
<1>1. CASE t = <<"gen", "read", "check", "store", "recheck">>
  BY <1>1
<1>2. CASE t = <<"read", "check", "store", "recheck">>
  BY <1>2
<1>3. CASE t = <<"read", "gen", "check", "store", "recheck">>
  BY <1>3
<1>4. CASE t = <<"gen", "check", "store", "recheck">>
  BY <1>4
<1>5. CASE t = <<"check", "store", "recheck">>
  BY <1>5
<1>6. CASE t = <<"store", "recheck">>
  BY <1>6
<1>7. CASE t = <<"recheck">>
  BY <1>7
<1> QED
  BY <1>1, <1>2, <1>3, <1>4, <1>5, <1>6, <1>7

\* Before and after the tables are read are different stages.
LEMMA Stages ==
    /\ Cached!Careful \in Unread /\ Cached!Provide \in Unread
    /\ <<"read", "check", "store", "recheck">> \in Unread
    /\ Unread \cap Unkept = {}
    /\ <<"recheck">> \notin Unkept
    /\ \A t \in {<<"check", "store", "recheck">>, <<"store", "recheck">>, <<"recheck">>,
                 <<"read", "check", "store", "recheck">>, Cached!Careful} :
           t \notin {Cached!Provide, <<"gen", "check", "store", "recheck">>}
<1>1. \A t \in Unread : Len(t) \in {4, 5} /\ (Len(t) = 4 => t[1] = "read")
  BY DEF Unread, Cached!Careful, Cached!Provide
<1>2. \A t \in Unkept : Len(t) \in {2, 3, 4} /\ (Len(t) = 4 => t[1] = "gen")
  BY DEF Unkept
<1>3. Unread \cap Unkept = {}
  BY <1>1, <1>2
<1>4. Len(<<"recheck">>) = 1
  OBVIOUS
<1>5. <<"recheck">> \notin Unkept
  BY <1>2, <1>4
<1>6. \A t \in {<<"check", "store", "recheck">>, <<"store", "recheck">>, <<"recheck">>,
                <<"read", "check", "store", "recheck">>, Cached!Careful} :
           t \notin {Cached!Provide, <<"gen", "check", "store", "recheck">>}
  BY DEF Cached!Careful, Cached!Provide
<1> QED
  BY <1>3, <1>5, <1>6 DEF Unread

\* A step of one reader leaves the others and the invalidations alone.
LEMMA OneReader ==
    ASSUME CacheInv, NEW r \in Reader,
           reader' \in [Reader -> {Cached!Idle} \cup Making],
           \A q \in Reader \ {r} : reader'[q] = reader[q],
           UNCHANGED <<Cached!tables, playGen, listGen, Cached!debounce, steps, due>>,
           CacheTyped', Cached!Reads(r)' => Held(r)'
    PROVE  /\ InHand' /\ Cached!DebounceRuns'
           /\ \A q \in Reader : Cached!Reads(q)' => Held(q)'
           /\ ListLeaves' <=> ListLeaves
           /\ \A f : (Coming(f)' <=> Coming(f)) /\ (Leaves(f)' <=> Leaves(f))
           /\ \A page : Cached!Withdraws(page) =>
                 \/ Cached!Withdraws(page)'
                 \/ /\ Cached!At(r, "recheck") /\ reader[r].page = page
                    /\ reader[r].gen # Cached!GenOf(r)
<1>1. /\ Cached!Armed' <=> Cached!Armed
      /\ ListsDue' <=> ListsDue
      /\ ListLeaves' <=> ListLeaves
      /\ \A f : (Coming(f)' <=> Coming(f)) /\ (Leaves(f)' <=> Leaves(f))
  BY DEF Cached!Armed, ListsDue, ListLeaves, Coming, Leaves, Cached!Has
<1>2. InHand' /\ Cached!DebounceRuns'
  BY <1>1 DEF CacheInv, InHand, Cached!DebounceRuns
<1>3. ASSUME NEW q \in Reader, Cached!Reads(q)' PROVE Held(q)'
  <2>1. CASE q = r
    BY <1>3, <2>1
  <2>2. CASE q # r
    <3>1. reader'[q] = reader[q] /\ Held(q)
      BY <1>3, <2>2 DEF CacheInv, Cached!Reads
    <3> QED
      BY <1>1, <3>1 DEF Held, Cached!GenOf
  <2> QED
    BY <2>1, <2>2
<1>4. ASSUME NEW page, Cached!Withdraws(page),
             ~(/\ Cached!At(r, "recheck") /\ reader[r].page = page
               /\ reader[r].gen # Cached!GenOf(r))
      PROVE  Cached!Withdraws(page)'
  <2>1. PICK q \in Reader : /\ Cached!At(q, "recheck") /\ reader[q].page = page
                            /\ reader[q].gen # Cached!GenOf(q)
    BY <1>4 DEF Cached!Withdraws
  <2>2. q # r
    BY <1>4, <2>1
  <2>3. reader'[q] = reader[q]
    BY <2>2
  <2> QED
    BY <2>1, <2>3 DEF Cached!Withdraws, Cached!At, Cached!Reads, Cached!GenOf
<1> QED
  BY <1>1, <1>2, <1>3, <1>4

\* A step that keeps and throws away nothing.
LEMMA QuietReader ==
    ASSUME CacheInv, NEW r \in Reader,
           reader' \in [Reader -> {Cached!Idle} \cup Making],
           \A q \in Reader \ {r} : reader'[q] = reader[q],
           UNCHANGED <<Cached!tables, Cached!pages, playGen, listGen,
                       Cached!debounce, steps, due>>,
           Cached!Reads(r)' => Held(r)',
           Cached!At(r, "recheck") => reader[r].gen = Cached!GenOf(r)
    PROVE  CacheInv'
<1>1. CacheTyped'
  BY DEF CacheInv, CacheTyped
<1>2. /\ InHand' /\ Cached!DebounceRuns'
      /\ \A q \in Reader : Cached!Reads(q)' => Held(q)'
      /\ ListLeaves' <=> ListLeaves
      /\ \A f : Leaves(f)' <=> Leaves(f)
      /\ \A page : Cached!Withdraws(page) => Cached!Withdraws(page)'
  BY <1>1, OneReader
<1>3. Cached!ListsFresh'
  BY <1>2 DEF CacheInv, Cached!ListsFresh, ListLeaves
<1>4. Cached!DetailsFresh'
  BY <1>2 DEF CacheInv, Cached!DetailsFresh, Leaves
<1> QED
  BY <1>1, <1>2, <1>3, <1>4 DEF CacheInv

\* What is known of a reader at work.
LEMMA Reading ==
    ASSUME CacheInv, NEW r \in Reader, Cached!Reads(r)
    PROVE  /\ reader[r] \in Making /\ Held(r) /\ reader[r].todo # <<>>
           /\ Cached!GenOf(r) \in Nat
           /\ Tail(reader[r].todo) \in {<<>>} \cup Unread \cup Unkept \cup Kept
<1>1. reader[r] \in Making
  BY DEF CacheInv, CacheTyped, Cached!Reads, Cached!Idle
<1>2. reader[r].todo \in Unread \cup Unkept \cup Kept
  BY <1>1 DEF Making
<1> QED
  BY <1>1, <1>2, ReaderWalk DEF CacheInv, CacheTyped, Cached!GenOf

\* A reader that gives up, or is done.
LEMMA Given ==
    ASSUME CacheInv, NEW r \in Reader, Cached!Gives(r)
    PROVE  /\ reader' \in [Reader -> {Cached!Idle} \cup Making]
           /\ \A q \in Reader \ {r} : reader'[q] = reader[q]
           /\ ~Cached!Reads(r)'
BY DEF Cached!Gives, CacheInv, CacheTyped, Cached!Reads, Cached!Idle

\* A reader starts with nothing in its hands.
LEMMA AsksKeeps ==
    ASSUME CacheInv, NEW r \in Reader,
           \/ \E f \in Shown : Cached!Asks(r, f)
           \/ Cached!AsksList(r)
    PROVE  CacheInv'
<1>1. PICK page \in Shown \cup {"list"}, todo \in {Cached!Careful, Cached!Provide} :
        /\ reader' = [reader EXCEPT ![r] = Cached!Page(page, todo)]
        /\ page = "list" => todo = Cached!Careful
  BY CacheAssumption DEF Cached!Asks, Cached!AsksList
<1>2. /\ ~Cached!Reads(r)
      /\ UNCHANGED <<Cached!tables, Cached!pages, playGen, listGen,
                     Cached!debounce, steps, due>>
  BY DEF Cached!Asks, Cached!AsksList
<1> DEFINE x == Cached!Page(page, todo)
<1>3. x \in Making /\ x.page = page /\ x.todo = todo /\ x.gen = 0 /\ x.seen = 0
  BY Stages DEF Cached!Page, Making
<1> HIDE DEF x
<1>4. /\ reader' \in [Reader -> {Cached!Idle} \cup Making] /\ reader'[r] = x
      /\ \A q \in Reader \ {r} : reader'[q] = reader[q]
  BY <1>1, <1>3 DEF CacheInv, CacheTyped, x
<1>5. Cached!GenOf(r)' \in Nat
  BY <1>2 DEF Cached!GenOf, CacheInv, CacheTyped
<1>6. Held(r)'
  BY <1>1, <1>3, <1>4, <1>5, Stages DEF Held
<1>7. ~Cached!At(r, "recheck")
  BY <1>2 DEF Cached!At
<1> QED
  BY <1>2, <1>4, <1>6, <1>7, QuietReader

\* A generation that is taken late can only be newer than the page, which slips in.
LEMMA TakesGenKeeps ==
    ASSUME CacheInv, NEW r \in Reader, Cached!TakesGen(r) PROVE CacheInv'
<1> DEFINE x == reader[r]  g == Cached!GenOf(r)
           y == [x EXCEPT !.todo = Tail(x.todo), !.gen = g]
<1>1. Cached!Reads(r) /\ Head(x.todo) = "gen"
  BY DEF Cached!TakesGen, Cached!At
<1>2. x \in Making /\ Held(r) /\ g \in Nat
  BY <1>1, Reading
<1>3. \/ Tail(x.todo) = <<"read", "check", "store", "recheck">>
      \/ /\ x.todo \in Unkept /\ Tail(x.todo) = <<"check", "store", "recheck">>
         /\ x.todo = <<"gen", "check", "store", "recheck">>
  BY <1>1, <1>2, ReaderWalk DEF Making
<1>4. /\ y \in Making /\ y.page = x.page /\ y.todo = Tail(x.todo) /\ y.gen = g
      /\ y.seen = x.seen /\ y.value = x.value
  <2>1. Tail(x.todo) \in Unread \cup Unkept \cup Kept
    BY <1>3 DEF Unread, Unkept
  <2> HIDE DEF g
  <2> QED
    BY <1>2, <2>1 DEF Making
<1>5. reader' = [reader EXCEPT ![r] = y]
  BY DEF Cached!TakesGen, CacheInv, CacheTyped
<1> HIDE DEF y
<1>6. /\ reader' \in [Reader -> {Cached!Idle} \cup Making] /\ reader'[r] = y
      /\ \A q \in Reader \ {r} : reader'[q] = reader[q]
  BY <1>4, <1>5 DEF CacheInv, CacheTyped
<1>7. Cached!GenOf(r)' = g
  BY <1>4, <1>6 DEF Cached!GenOf, Cached!TakesGen
<1>8. Held(r)'
  <2>1. y.gen <= g /\ y.seen <= g
    BY <1>2, <1>4 DEF Held
  <2>2. x.todo = <<"gen", "check", "store", "recheck">> => x.page # "list"
    BY <1>2 DEF Held
  <2>3. y.page = "list" =>
            y.todo \notin {Cached!Provide, <<"gen", "check", "store", "recheck">>}
    BY <1>3, <1>4, Stages
  <2>4. y.todo \in Unkept => x.todo \in Unkept /\ x.page # "list"
    BY <1>3, <1>4, <2>2, Stages
  <2>5. \A f : Coming(f)' <=> Coming(f)
    BY DEF Coming, Cached!Has, Cached!TakesGen
  <2>6. \A f \in Shown : y.todo \in Unkept /\ y.page = f =>
            /\ y.value <= content'[f]
            /\ y.value = content'[f] \/ y.seen < playGen' \/ Coming(f)'
    BY <1>2, <1>4, <2>4, <2>5 DEF Held, Cached!TakesGen
  <2> QED
    BY <1>4, <1>6, <1>7, <2>1, <2>3, <2>4, <2>6 DEF Held
<1>9. ~Cached!At(r, "recheck")
  BY <1>1 DEF Cached!At
<1> QED
  BY <1>6, <1>8, <1>9, QuietReader DEF Cached!TakesGen

\* What was just read is what the tables hold.
LEMMA ReadsTablesKeeps ==
    ASSUME CacheInv, NEW r \in Reader, Cached!ReadsTables(r) PROVE CacheInv'
<1> DEFINE x == reader[r]  g == Cached!GenOf(r)
           v == IF x.page = "list" THEN filmList ELSE content[x.page]
           y == [x EXCEPT !.todo = Tail(x.todo), !.seen = g, !.value = v]
<1>1. Cached!Reads(r) /\ Head(x.todo) = "read"
  BY DEF Cached!ReadsTables, Cached!At
<1>2. x \in Making /\ Held(r) /\ g \in Nat
  BY <1>1, Reading
<1>3. v \in Nat
  BY <1>2 DEF Making, CacheInv, CacheTyped
<1>4. \/ Tail(x.todo) = <<"check", "store", "recheck">>
      \/ /\ x.todo = Cached!Provide
         /\ Tail(x.todo) = <<"gen", "check", "store", "recheck">>
  BY <1>1, <1>2, ReaderWalk DEF Making
<1>5. /\ y \in Making /\ y.page = x.page /\ y.todo = Tail(x.todo) /\ y.gen = x.gen
      /\ y.seen = g /\ y.value = v
  <2>1. Tail(x.todo) \in Unread \cup Unkept \cup Kept
    BY <1>4 DEF Unread, Unkept
  <2> HIDE DEF g, v
  <2> QED
    BY <1>2, <1>3, <2>1 DEF Making
<1>6. reader' = [reader EXCEPT ![r] = y]
  BY DEF Cached!ReadsTables, CacheInv, CacheTyped
<1> HIDE DEF y
<1>7. /\ reader' \in [Reader -> {Cached!Idle} \cup Making] /\ reader'[r] = y
      /\ \A q \in Reader \ {r} : reader'[q] = reader[q]
  BY <1>5, <1>6 DEF CacheInv, CacheTyped
<1>8. Cached!GenOf(r)' = g
  BY <1>5, <1>7 DEF Cached!GenOf, Cached!ReadsTables
<1>9. Held(r)'
  <2>1. y.gen <= g /\ y.seen <= g
    BY <1>2, <1>5 DEF Held
  <2>2. y.page = "list" =>
            y.todo \notin {Cached!Provide, <<"gen", "check", "store", "recheck">>}
    BY <1>2, <1>4, <1>5, Stages DEF Held
  <2>3. y.page = "list" => y.value = filmList'
    BY <1>5 DEF Cached!ReadsTables
  <2>4. \A f \in Shown : y.page = f => y.value = content'[f]
    BY <1>5, CacheAssumption DEF Cached!ReadsTables
  <2>5. y.value \in Nat
    BY <1>3, <1>5
  <2>6. y.page = "list" => y.value <= filmList' /\ y.value = filmList'
    BY <2>3, <2>5
  <2>7. \A f \in Shown :
            y.page = f => y.value <= content'[f] /\ y.value = content'[f]
    BY <2>4, <2>5
  <2> HIDE DEF v, g
  <2> QED
    BY <1>7, <1>8, <2>1, <2>2, <2>6, <2>7 DEF Held
<1>10. ~Cached!At(r, "recheck")
  BY <1>1 DEF Cached!At
<1> QED
  BY <1>7, <1>9, <1>10, QuietReader DEF Cached!ReadsTables

\* The look at the generation before storing changes nothing that is kept.
LEMMA ChecksKeeps ==
    ASSUME CacheInv, NEW r \in Reader, Cached!Checks(r) PROVE CacheInv'
<1> DEFINE x == reader[r]
           y == [x EXCEPT !.todo = Tail(x.todo)]
<1>1. Cached!Reads(r) /\ Head(x.todo) = "check"
  BY DEF Cached!Checks, Cached!At
<1>2. ~Cached!At(r, "recheck")
  BY <1>1 DEF Cached!At
<1>3. CASE Cached!Gives(r)
  BY <1>2, <1>3, Given, QuietReader DEF Cached!Checks
<1>4. CASE Cached!Moves(r)
  <2>1. x \in Making /\ Held(r)
    BY <1>1, Reading
  <2>2. x.todo \in Unkept /\ Tail(x.todo) = <<"store", "recheck">>
    BY <1>1, <2>1, ReaderWalk DEF Making
  <2>3. /\ y \in Making /\ y.page = x.page /\ y.todo = <<"store", "recheck">>
        /\ y.gen = x.gen /\ y.seen = x.seen /\ y.value = x.value
    BY <2>1, <2>2 DEF Making, Unkept
  <2>4. reader' = [reader EXCEPT ![r] = y]
    BY <1>4 DEF Cached!Moves, CacheInv, CacheTyped
  <2> HIDE DEF y
  <2>5. /\ reader' \in [Reader -> {Cached!Idle} \cup Making] /\ reader'[r] = y
        /\ \A q \in Reader \ {r} : reader'[q] = reader[q]
    BY <2>3, <2>4 DEF CacheInv, CacheTyped
  <2>6. /\ Cached!GenOf(r)' = Cached!GenOf(r) /\ (ListsDue' <=> ListsDue)
        /\ \A f : Coming(f)' <=> Coming(f)
    BY <2>3, <2>5 DEF Cached!GenOf, Cached!Checks, ListsDue, Cached!Armed, Coming,
       Cached!Has
  <2>7. Held(r)'
    BY <2>1, <2>2, <2>3, <2>5, <2>6, Stages DEF Held, Cached!Checks
  <2> QED
    BY <1>2, <2>5, <2>7, QuietReader DEF Cached!Checks
<1> QED
  BY <1>3, <1>4 DEF Cached!Checks

\* Whoever is about to start a new generation because of film f either has
\* yet to delete its page or starts it now.
LEMMA ComingLeaves ==
    ASSUME CacheInv, NEW f, Coming(f),
           \A p \in Cached!Invalidator :
               f \in due[p] /\ steps[p] # <<>> => Head(steps[p]) # "incr"
    PROVE  Leaves(f)
<1>1. PICK p \in Cached!Invalidator : f \in due[p] /\ Cached!Has(p, "incr")
  BY DEF Coming
<1>2. steps[p] \in Todo /\ steps[p] # <<>>
  BY <1>1, NoRange DEF CacheInv, CacheTyped, Cached!Has
<1>3. Cached!Has(p, "delete")
  BY <1>1, <1>2, Walk DEF Walks, Cached!Has
<1> QED
  BY <1>1, <1>3 DEF Leaves

\* An old page is stored only where it is still on its way out, or slips in.
LEMMA StoresKeeps ==
    ASSUME CacheInv, NEW r \in Reader, Cached!Stores(r) PROVE CacheInv'
<1> DEFINE x == reader[r]
           y == [x EXCEPT !.todo = Tail(x.todo), !.value = 0]
<1>1. Cached!Reads(r) /\ Head(x.todo) = "store"
  BY DEF Cached!Stores, Cached!At
<1>2. x \in Making /\ Held(r) /\ Cached!GenOf(r) \in Nat
  BY <1>1, Reading
<1>3. x.todo \in Unkept /\ Tail(x.todo) = <<"recheck">>
  BY <1>1, <1>2, ReaderWalk DEF Making
<1>4. /\ y \in Making /\ y.page = x.page /\ y.todo = <<"recheck">>
      /\ y.gen = x.gen /\ y.seen = x.seen
  BY <1>2, <1>3 DEF Making, Kept
<1>5. reader' = [reader EXCEPT ![r] = y]
  BY DEF Cached!Stores, CacheInv, CacheTyped
<1> HIDE DEF y
<1>6. /\ reader' \in [Reader -> {Cached!Idle} \cup Making] /\ reader'[r] = y
      /\ \A q \in Reader \ {r} : reader'[q] = reader[q]
  BY <1>4, <1>5 DEF CacheInv, CacheTyped
<1>7. UNCHANGED <<Cached!tables, playGen, listGen, Cached!debounce, steps, due>>
  BY DEF Cached!Stores
<1>8. Cached!GenOf(r)' = Cached!GenOf(r)
  BY <1>4, <1>6, <1>7 DEF Cached!GenOf
<1>9. Held(r)'
  <2>1. y.gen <= Cached!GenOf(r) /\ y.seen <= Cached!GenOf(r)
    BY <1>2, <1>4 DEF Held
  <2> QED
    BY <1>4, <1>6, <1>8, <2>1, Stages DEF Held
<1>10. x.page \in Shown \cup {"list"} /\ x.value \in Nat /\ x.gen \in Nat
       /\ x.seen \in Nat
  BY <1>2 DEF Making
<1>11. ~Cached!At(r, "recheck")
  BY <1>1 DEF Cached!At
<1>12. Cached!At(r, "recheck")' /\ reader'[r].page = x.page
       /\ reader'[r].gen = x.gen
  <2>1. <<"recheck">> # <<>> /\ Head(<<"recheck">>) = "recheck"
    OBVIOUS
  <2> QED
    BY <1>4, <1>6, <2>1 DEF Cached!At, Cached!Reads
<1>13. \A page : page = x.page /\ x.gen # Cached!GenOf(r)
                    => Cached!Withdraws(page)'
  BY <1>8, <1>12 DEF Cached!Withdraws
<1>14. CacheTyped'
  <2>1. CASE x.page = "list"
    <3>1. list' = x.value /\ UNCHANGED <<detail, slipped>>
      BY <2>1 DEF Cached!Stores
    <3>2. x.value \in 0 .. filmList
      BY <1>2, <1>3, <1>10, <2>1 DEF Held, CacheInv, CacheTyped
    <3> QED
      BY <1>6, <1>7, <3>1, <3>2 DEF CacheInv, CacheTyped
  <2>2. CASE x.page # "list"
    <3>1. /\ detail' = [detail EXCEPT ![x.page] = x.value] /\ list' = list
          /\ slipped' \subseteq slipped \cup {x.page}
          /\ x.page \in Shown
      BY <1>10, <2>2 DEF Cached!Stores
    <3>2. x.value \in 0 .. content[x.page]
      BY <1>2, <1>3, <1>10, <3>1 DEF Held, CacheInv, CacheTyped
    <3>3. detail' \in [Shown -> Nat \cup {None}]
      BY <1>10, <3>1 DEF CacheInv, CacheTyped
    <3>4. \A f \in Shown : detail'[f] \in 0 .. content'[f] \cup {None}
      BY <1>7, <3>1, <3>2 DEF CacheInv, CacheTyped
    <3>5. slipped' \subseteq {f \in Shown : detail'[f] # None}
      BY <1>10, <3>1, CacheAssumption DEF CacheInv, CacheTyped
    <3> QED
      BY <1>6, <1>7, <3>1, <3>3, <3>4, <3>5 DEF CacheInv, CacheTyped
  <2> QED
    BY <2>1, <2>2
<1>15. /\ InHand' /\ Cached!DebounceRuns'
       /\ \A q \in Reader : Cached!Reads(q)' => Held(q)'
       /\ ListLeaves' <=> ListLeaves
       /\ \A f : (Coming(f)' <=> Coming(f)) /\ (Leaves(f)' <=> Leaves(f))
       /\ \A page : Cached!Withdraws(page) => Cached!Withdraws(page)'
  BY <1>6, <1>7, <1>9, <1>11, <1>14, OneReader
<1>16. Cached!ListsFresh'
  <2>1. CASE x.page # "list"
    <3>1. list' = list
      BY <2>1 DEF Cached!Stores
    <3> QED
      BY <1>7, <1>15, <3>1 DEF CacheInv, Cached!ListsFresh, ListLeaves
  <2>2. CASE x.page = "list"
    <3>1. list' = x.value
      BY <2>2 DEF Cached!Stores
    <3>2. x.value = filmList \/ x.gen < listGen \/ ListsDue
      BY <1>2, <1>3, <2>2 DEF Held
    <3>3. x.gen < listGen => Cached!Withdraws("list")'
      BY <1>10, <1>13, <2>2 DEF Cached!GenOf, CacheInv, CacheTyped
    <3>4. ListsDue => ListLeaves
      BY DEF ListsDue, ListLeaves
    <3> QED
      BY <1>7, <1>15, <3>1, <3>2, <3>3, <3>4 DEF Cached!ListsFresh, ListLeaves
  <2> QED
    BY <2>1, <2>2
<1>17. Cached!DetailsFresh'
  <2> SUFFICES ASSUME NEW f \in Shown \ slipped'
               PROVE  \/ detail'[f] \in {content'[f], None}
                      \/ Cached!Withdraws(f)' \/ Leaves(f)'
    BY DEF Cached!DetailsFresh, Leaves
  <2>1. CASE x.page # f
    <3>1. detail'[f] = detail[f] /\ f \notin slipped
      BY <2>1 DEF Cached!Stores, CacheInv, CacheTyped
    <3> QED
      BY <1>7, <1>15, <3>1 DEF CacheInv, Cached!DetailsFresh, Leaves
  <2>2. CASE x.page = f
    <3>1. /\ detail' = [detail EXCEPT ![f] = x.value] /\ ~Cached!Slips(r, f)
      BY <2>2, CacheAssumption DEF Cached!Stores
    <3>2. detail'[f] = x.value
      BY <3>1 DEF CacheInv, CacheTyped
    <3>3. /\ ~(x.seen < x.gen)
          /\ \A p \in Cached!Invalidator :
                 f \in due[p] /\ steps[p] # <<>> => Head(steps[p]) # "incr"
      BY <3>1 DEF Cached!Slips
    <3>4. x.value = content[f] \/ x.seen < playGen \/ Coming(f)
      BY <1>2, <1>3, <2>2 DEF Held
    <3>5. x.seen < playGen => Cached!Withdraws(f)'
      <4>1. Cached!GenOf(r) = playGen /\ playGen \in Nat
        BY <2>2, CacheAssumption DEF Cached!GenOf, CacheInv, CacheTyped
      <4> QED
        BY <1>10, <1>13, <2>2, <3>3, <4>1
    <3>6. Coming(f) => Leaves(f)
      BY <3>3, ComingLeaves
    <3> QED
      BY <1>7, <1>15, <3>2, <3>4, <3>5, <3>6
  <2> QED
    BY <2>1, <2>2
<1> QED
  BY <1>14, <1>15, <1>16, <1>17 DEF CacheInv

\* A page that is read in a generation that is over is thrown away again.
LEMMA RechecksKeeps ==
    ASSUME CacheInv, NEW r \in Reader, Cached!Rechecks(r) PROVE CacheInv'
<1> DEFINE x == reader[r]
<1>1. Cached!Reads(r) /\ Cached!Gives(r)
  BY DEF Cached!Rechecks, Cached!At
<1>2. x \in Making
  BY <1>1, Reading
<1>3. UNCHANGED <<Cached!tables, playGen, listGen, Cached!debounce, steps, due>>
  BY DEF Cached!Rechecks
<1>4. /\ reader' \in [Reader -> {Cached!Idle} \cup Making]
      /\ \A q \in Reader \ {r} : reader'[q] = reader[q]
      /\ ~Cached!Reads(r)'
  BY <1>1, Given
<1>5. CASE x.gen = Cached!GenOf(r)
  <2>1. UNCHANGED Cached!pages
    BY <1>5 DEF Cached!Rechecks
  <2> QED
    BY <1>3, <1>4, <1>5, <2>1, QuietReader
<1>6. CASE x.gen # Cached!GenOf(r)
  <2>1. CacheTyped' /\ (x.page = "list" => list' = None)
        /\ (x.page # "list" => list' = list)
        /\ \A f \in Shown :
               /\ f = x.page => detail'[f] = None
               /\ f # x.page => detail'[f] = detail[f]
                                 /\ (f \in slipped => f \in slipped')
    <3>1. CASE x.page = "list"
      <4>1. list' = None /\ UNCHANGED <<detail, slipped>>
        BY <1>6, <3>1 DEF Cached!Rechecks
      <4> QED
        BY <1>3, <1>4, <3>1, <4>1, CacheAssumption DEF CacheInv, CacheTyped
    <3>2. CASE x.page # "list"
      <4>1. /\ detail' = [detail EXCEPT ![x.page] = None] /\ list' = list
            /\ slipped' = slipped \ {x.page} /\ x.page \in Shown
        BY <1>2, <1>6, <3>2 DEF Cached!Rechecks, Making
      <4>2. detail' \in [Shown -> Nat \cup {None}]
        BY <4>1 DEF CacheInv, CacheTyped
      <4>3. \A f \in Shown : detail'[f] \in 0 .. content'[f] \cup {None}
        BY <1>3, <4>1 DEF CacheInv, CacheTyped
      <4>4. slipped' \subseteq {f \in Shown : detail'[f] # None}
        BY <4>1 DEF CacheInv, CacheTyped
      <4>5. CacheTyped'
        BY <1>3, <1>4, <4>1, <4>2, <4>3, <4>4 DEF CacheInv, CacheTyped
      <4> QED
        BY <3>2, <4>1, <4>5 DEF CacheInv, CacheTyped
    <3> QED
      BY <3>1, <3>2
  <2>2. /\ InHand' /\ Cached!DebounceRuns'
        /\ \A q \in Reader : Cached!Reads(q)' => Held(q)'
        /\ ListLeaves' <=> ListLeaves
        /\ \A f : Leaves(f)' <=> Leaves(f)
        /\ \A page : Cached!Withdraws(page) =>
              Cached!Withdraws(page)' \/ x.page = page
    BY <1>3, <1>4, <2>1, OneReader
  <2>3. Cached!ListsFresh'
    BY <1>3, <2>1, <2>2 DEF CacheInv, Cached!ListsFresh, ListLeaves
  <2>4. Cached!DetailsFresh'
    <3> SUFFICES ASSUME NEW f \in Shown \ slipped'
                 PROVE  \/ detail'[f] \in {content'[f], None}
                        \/ Cached!Withdraws(f)' \/ Leaves(f)'
      BY DEF Cached!DetailsFresh, Leaves
    <3> QED
      BY <1>3, <2>1, <2>2 DEF CacheInv, Cached!DetailsFresh, Leaves
  <2> QED
    BY <2>1, <2>2, <2>3, <2>4 DEF CacheInv
<1> QED
  BY <1>5, <1>6

\* Nothing is kept at the start.
LEMMA CacheStarts == Cached!Init => CacheInv
<1> SUFFICES ASSUME Cached!Init PROVE CacheInv
  OBVIOUS
<1> USE DEF Cached!Init
<1>1. CacheTyped
  BY DEF CacheTyped, Todo
<1>2. InHand
  BY DEF InHand
<1>3. \A r \in Reader : ~Cached!Reads(r)
  BY DEF Cached!Reads, Cached!Idle
<1>4. Cached!ListsFresh /\ Cached!DetailsFresh /\ Cached!DebounceRuns
  BY DEF Cached!ListsFresh, Cached!DetailsFresh, Cached!DebounceRuns
<1> QED
  BY <1>1, <1>2, <1>3, <1>4 DEF CacheInv

\* A stutter leaves the invariant true.
LEMMA CacheStays == CacheInv /\ UNCHANGED Cached!vars => CacheInv'
<1> SUFFICES ASSUME CacheInv, UNCHANGED Cached!vars PROVE CacheInv'
  OBVIOUS
<1>1. CacheTyped' /\ InHand'
  BY DEF CacheInv, CacheTyped, InHand
<1>2. ListsDue' <=> ListsDue
  BY DEF ListsDue, Cached!Armed, Cached!Has
<1>3. \A f : Coming(f)' <=> Coming(f)
  BY DEF Coming, Cached!Has
<1>4. \A r \in Reader : Cached!Reads(r)' => Held(r)'
  BY <1>2, <1>3 DEF CacheInv, Held, Cached!Reads, Cached!GenOf
<1>5. Cached!ListsFresh' /\ Cached!DetailsFresh' /\ Cached!DebounceRuns'
  BY DEF CacheInv, Cached!ListsFresh, Cached!DetailsFresh, Cached!DebounceRuns,
     Cached!Armed, Cached!Has, Cached!Withdraws, Cached!At, Cached!Reads, Cached!GenOf
<1> QED
  BY <1>1, <1>4, <1>5 DEF CacheInv

\* Every step keeps the invariant.
LEMMA CacheNext == CacheInv /\ [Cached!Next]_Cached!vars => CacheInv'
<1> SUFFICES ASSUME CacheInv, [Cached!Next]_Cached!vars PROVE CacheInv'
  OBVIOUS
<1>1. CASE \E r \in Reader : Cached!Makes(r)
  BY <1>1, AsksKeeps, TakesGenKeeps, ReadsTablesKeeps, ChecksKeeps, StoresKeeps,
     RechecksKeeps DEF Cached!Makes
<1>2. CASE \E w \in Actor : Cached!Changes(w)
  BY <1>2, ChangesKeeps
<1>3. CASE \E p \in Cached!Invalidator : Cached!Invalidates(p)
  BY <1>3, BumpsKeeps, ClearsKeeps, DeletesKeeps, IncrementsKeeps
     DEF Cached!Invalidates
<1> QED
  BY <1>1, <1>2, <1>3, FiresKeeps, DrainsKeeps, CacheStays DEF Cached!Next

\* The types of the model are part of the invariant.
LEMMA CacheTypes == CacheInv => Cached!TypeOK
<1> SUFFICES ASSUME CacheInv PROVE Cached!TypeOK
  OBVIOUS
<1>1. \A s \in Todo : Cached!Range(s) \subseteq
          Cached!Range(Cached!Publication) \cup Cached!Range(Cached!Debounced)
  BY Flows, RangeOf1, RangeOf2, RangeOf3, RangeOf4, NoRange DEF Todo
<1> QED
  BY <1>1 DEF CacheInv, CacheTyped, Cached!TypeOK

\* A page that is older than the tables is on its way out: a reader will find
\* its generation over, the timer will run, or an invalidation has yet to
\* delete it (snapshot_cache_invalidation.go, index_play_cache.go).  The only
\* exceptions are the details the model names slipped.
THEOREM CachesFreshHolds == Cached!Spec => []CachesFresh
<1>1. CacheInv => CachesFresh
  BY CacheTypes DEF CacheInv, CachesFresh, Cached!CachesFresh
<1> QED
  BY <1>1, CacheStarts, CacheNext, PTL DEF Cached!Spec

-----------------------------------------------------------------------------
(* The films: the inductive invariant                                      *)

Fields == {"at", "kind", "site", "page", "keys", "held", "mid", "read"}

\* A goroutine at work: what it has to write, where, and the locks it holds.
Job(r, next) ==
    /\ DOMAIN r = Fields
    /\ r.at \in {"locks", "mid", "reads", "commits", "unlocks"}
    /\ r.kind \in {"page", "single", "edit"} /\ r.site \in Owner
    /\ DOMAIN r.page \subseteq Vod
    /\ \A v \in DOMAIN r.page : r.page[v] \in Writing!Time
    /\ r.kind = "edit" =>
          /\ r.at # "commits" /\ r.mid \in Writing!Mid /\ r.mid < next
          /\ r.read.owner \in Owner /\ r.read.locked \in BOOLEAN
Jobs ==
    /\ writer = [w \in Actor |-> writer[w]]
    /\ \A w \in Actor : writer[w] = Writing!Idle \/ Job(writer[w], nextMid)

\* Who has come past the locks on keys has its source to itself.
Working(w) == writer[w].at # "idle"
LocksApart ==
    /\ \A w \in Actor : Working(w) => writer[w].held \subseteq locks
    /\ \A w, x \in Actor : w # x /\ Working(w) /\ Working(x) =>
          writer[w].held \cap writer[x].held = {}
    /\ \A w \in Actor : writer[w].at \notin {"idle", "locks"} =>
          Writing!SourceLock(writer[w].site) \in writer[w].held

\* A vod is mapped to a film there is, and has no time without one.
Mapped ==
    /\ \A m \in DOMAIN film : m < nextMid
    /\ \A s \in Owner : \A v \in Vod :
          /\ vodMap[s][v] # 0 => vodMap[s][v] \in DOMAIN film
          /\ vodMap[s][v] = 0 => vodTime[s][v] = 0

\* The lines of the vod a film stands for are no newer than the time its
\* mapping has; other lines have no time.
LinesDated ==
    \A m \in Writing!Mid : \A s \in Owner : <<m, s>> \in DOMAIN lines =>
        /\ m < nextMid
        /\ lines[<<m, s>>].vod = Writing!ByHand \/ m \notin DOMAIN film =>
              lines[<<m, s>>].time = 0
        /\ \A v \in Vod :
              lines[<<m, s>>].vod = v /\ vodMap[s][v] = m =>
                 lines[<<m, s>>].time <= vodTime[s][v]

\* A vod that was written is the first of those that share its film.
First(s, v) == \A u \in Vod : vodMap[s][u] = vodMap[s][v] => v <= u
StoredFirst ==
    \A s \in Owner : \A v \in stored[s] : vodMap[s][v] # 0 => First(s, v)

\* What was read of a vod's film still holds, or the film has been deleted.
Found(s, page, read) ==
    /\ \A v \in DOMAIN page : LET m == read[v].mid IN
          /\ m \in Nat
          /\ m # 0 =>
                /\ m \in Writing!Mid /\ m < nextMid
                /\ \/ vodMap[s][v] = 0 /\ m \notin DOMAIN film
                   \/ vodMap[s][v] = m /\ First(s, v)
    /\ \A v, u \in DOMAIN page :
          read[v].mid = read[u].mid /\ read[v].mid # 0 => v = u
ReadsHold ==
    \A w \in Actor : writer[w].at = "commits" =>
        Found(writer[w].site, writer[w].page, writer[w].read)

FilmInv == /\ Writing!TypeOK /\ Mapped /\ LinesDated /\ StoredFirst
           /\ Jobs /\ LocksApart /\ ReadsHold

Base == Writing!TypeOK /\ Mapped /\ LinesDated /\ StoredFirst

NeverAges ==
    \A place \in DOMAIN lines \cap DOMAIN lines' :
        lines'[place].vod = lines[place].vod
        => lines'[place].time >= lines[place].time

-----------------------------------------------------------------------------
(* The films: what a commit does                                           *)

\* The model's Cardinality is the library's.
LEMMA Counted == \A S : Writing!Cardinality(S) = Cardinality(S)
BY DEF Writing!Cardinality, Cardinality

\* New films get consecutive ids in page order.
LEMMA Ranks ==
    ASSUME NEW new \in SUBSET Vod
    PROVE  /\ Cardinality(new) \in Nat
           /\ \A v \in new :
                 /\ Cardinality({u \in new : u < v}) \in Nat
                 /\ Cardinality({u \in new : u < v}) < Cardinality(new)
           /\ \A v, u \in new :
                 Cardinality({x \in new : x < v}) = Cardinality({x \in new : x < u})
                 => v = u
<1>1. IsFiniteSet(new) /\ Cardinality(new) \in Nat
  BY WritingAssumption, FS_Subset, FS_CardinalityType
<1>2. ASSUME NEW v \in new, NEW S, S = {u \in new : u < v}
      PROVE  /\ IsFiniteSet(S) /\ Cardinality(S) \in Nat
             /\ Cardinality(S) < Cardinality(new)
  <2>1. S \in SUBSET new /\ v \notin S
    BY <1>2, WritingAssumption
  <2>2. IsFiniteSet(S) /\ Cardinality(S) \in Nat /\ Cardinality(S) <= Cardinality(new)
    BY <1>1, <2>1, FS_Subset, FS_CardinalityType
  <2>3. Cardinality(S) # Cardinality(new)
    BY <1>1, <2>1, FS_Subset
  <2> QED
    BY <1>1, <2>2, <2>3
<1>3. ASSUME NEW v \in new, NEW u \in new, v < u
      PROVE  Cardinality({x \in new : x < v}) # Cardinality({x \in new : x < u})
  <2> DEFINE S == {x \in new : x < v}  T == {x \in new : x < u}
  <2>1. S \in SUBSET T /\ v \in T /\ v \notin S
    <3>1. new \subseteq Nat
      BY WritingAssumption
    <3>2. \A x \in new : x < v => x < u
      BY <1>3, <3>1
    <3>3. ~(v < v)
      BY <3>1
    <3> QED
      BY <1>3, <3>2, <3>3
  <2>2. IsFiniteSet(T)
    BY <1>2
  <2> HIDE DEF S, T
  <2>3. Cardinality(S) # Cardinality(T)
    BY <2>1, <2>2, FS_Subset
  <2> QED
    BY <2>3 DEF S, T
<1> QED
  BY <1>1, <1>2, <1>3, WritingAssumption

\* What a commit does, vod by vod.
Placed(s, page, read, new, of, winners) ==
    /\ of \in [DOMAIN page -> Writing!Mid]
    /\ \A v \in DOMAIN page :
          /\ v \in new => of[v] >= nextMid /\ of[v] < nextMid'
          /\ v \notin new => of[v] = read[v].mid /\ of[v] < nextMid
    /\ \A v, u \in DOMAIN page : of[v] = of[u] => v = u
    /\ winners \subseteq DOMAIN page
    /\ \A v \in winners :
          /\ page[v] >= vodTime[s][v]
          /\ page[v] > vodTime[s][v] => vodMap'[s][v] # 0
    /\ nextMid' \in Nat /\ nextMid <= nextMid' /\ nextMid' <= MaxMid + 1
    /\ \A m : m \in DOMAIN film' <=> m \in DOMAIN film \/ \E v \in new : m = of[v]
    /\ \A m \in DOMAIN film' : film'[m] \in [owner : Owner, text : {"site", "user"},
                                             locked : BOOLEAN]
    /\ vodMap' \in [Owner -> [Vod -> 0 .. MaxMid]]
    /\ \A t \in Owner \ {s} : vodMap'[t] = vodMap[t] /\ vodTime'[t] = vodTime[t]
                              /\ stored'[t] = stored[t]
    /\ \A v \in Vod : vodMap'[s][v] = IF v \in new THEN of[v] ELSE vodMap[s][v]
    /\ vodTime' \in [Owner -> [Vod -> Writing!Time]]
    /\ \A v \in Vod : vodTime'[s][v] =
          IF v \in winners /\ page[v] > vodTime[s][v]
          THEN page[v] ELSE vodTime[s][v]
    /\ stored' \in [Owner -> SUBSET Vod]
    /\ stored'[s] = stored[s] \cup DOMAIN page
    /\ DOMAIN lines' = DOMAIN lines \cup {of[v] : v \in winners} \X {s}
    /\ \A v \in winners : lines'[<<of[v], s>>] = Writing!Lines(v, page[v])
    /\ \A place \in DOMAIN lines :
          place \notin {of[v] : v \in winners} \X {s} => lines'[place] = lines[place]

\* The commit of vods whose reading holds: every vod has a film of its own
\* afterwards, and the winners' times are no older than those stored.
LEMMA Committed ==
    ASSUME Base, NEW s \in Owner, NEW page, NEW read, NEW new,
           DOMAIN page \subseteq Vod, \A v \in DOMAIN page : page[v] \in Writing!Time,
           Found(s, page, read), new = {v \in DOMAIN page : read[v].mid = 0},
           nextMid + Writing!Cardinality(new) <= MaxMid + 1,
           Writing!Commit(s, page, read, new)
    PROVE  \E of, winners : Placed(s, page, read, new, of, winners)
<1> DEFINE
      rank(v) == Writing!Cardinality({u \in new : u < v})
      midOf == [v \in DOMAIN page |->
                   IF v \in new THEN nextMid + rank(v) ELSE read[v].mid]
      bound == [v \in Vod |-> IF v \in DOMAIN page /\ midOf[v] # 0
                            THEN IF v \in new THEN midOf[v] ELSE vodMap[s][v]
                            ELSE vodMap[s][v]]
      winners == {v \in DOMAIN page :
                     midOf[v] # 0 /\ Writing!Wins(page[v], bound[v], vodTime[s][v])}
      vodOf(m) == CHOOSE v \in DOMAIN page : midOf[v] = m
      replaced == {midOf[v] : v \in winners}
      created == {midOf[v] : v \in new}
      followed == {m \in replaced \ created : ~read[vodOf(m)].locked}
<1>1. /\ film' = [m \in DOMAIN film \cup created |->
             IF m \in created THEN Writing!FilmOf(s)
             ELSE IF m \in followed THEN [film[m] EXCEPT !.text = "site"]
             ELSE film[m]]
      /\ lines' = [place \in DOMAIN lines \cup replaced \X {s} |->
             IF place \in replaced \X {s}
             THEN Writing!Lines(vodOf(place[1]), page[vodOf(place[1])])
             ELSE lines[place]]
      /\ vodMap' = [vodMap EXCEPT ![s] = bound]
      /\ vodTime' = [vodTime EXCEPT ![s] = [v \in Vod |->
             IF v \in winners /\ page[v] > vodTime[s][v]
             THEN page[v] ELSE vodTime[s][v]]]
      /\ nextMid' = nextMid + Writing!Cardinality(new)
      /\ stored' = [stored EXCEPT ![s] = @ \cup {v \in DOMAIN page :
                                                  midOf[v] # 0}]
  BY DEF Writing!Commit
<1>2. /\ new \in SUBSET Vod /\ nextMid \in Nat /\ nextMid >= 1
      /\ MaxMid \in Nat /\ MaxTime \in Nat
  BY WritingAssumption DEF Base, Writing!TypeOK
<1>3. /\ Writing!Cardinality(new) \in Nat
      /\ \A v \in new : rank(v) \in Nat /\ rank(v) < Writing!Cardinality(new)
      /\ \A v, u \in new : rank(v) = rank(u) => v = u
  BY <1>2, Ranks, Counted
<1> HIDE DEF rank
<1>4. /\ nextMid' \in Nat /\ nextMid <= nextMid' /\ nextMid' <= MaxMid + 1
  <2>1. nextMid' = nextMid + Writing!Cardinality(new)
    BY DEF Writing!Commit
  <2> QED
    BY <1>2, <1>3, <2>1
<1>5. \A v \in DOMAIN page :
         /\ v \in new => midOf[v] = nextMid + rank(v)
         /\ v \notin new => midOf[v] = read[v].mid
  OBVIOUS
<1> HIDE DEF midOf, bound, winners, vodOf, replaced, created, followed
<1>6. ASSUME NEW v \in DOMAIN page, v \in new
      PROVE  midOf[v] >= nextMid /\ midOf[v] < nextMid' /\ midOf[v] \in Writing!Mid
  BY <1>1, <1>2, <1>3, <1>5, <1>6 DEF Writing!Mid
<1>7. ASSUME NEW v \in DOMAIN page, v \notin new
      PROVE  midOf[v] = read[v].mid /\ midOf[v] < nextMid /\ midOf[v] \in Writing!Mid
  BY <1>5, <1>7 DEF Found
<1>8. midOf \in [DOMAIN page -> Writing!Mid]
  BY <1>6, <1>7 DEF midOf
<1>9. \A v, u \in DOMAIN page : midOf[v] = midOf[u] => v = u
  <2> SUFFICES ASSUME NEW v \in DOMAIN page, NEW u \in DOMAIN page, midOf[v] = midOf[u]
               PROVE  v = u
    OBVIOUS
  <2>1. midOf[v] \in Nat /\ midOf[u] \in Nat
    BY <1>8 DEF Writing!Mid
  <2>2. CASE v \in new /\ u \in new
    BY <1>2, <1>3, <1>5, <2>2
  <2>3. CASE v \notin new /\ u \notin new
    BY <1>7, <2>3 DEF Found
  <2> QED
    BY <1>2, <1>6, <1>7, <2>1, <2>2, <2>3
<1>10. \A v \in DOMAIN page : midOf[v] # 0 /\ vodOf(midOf[v]) = v
  <2>1. \A v \in DOMAIN page : midOf[v] # 0
    BY <1>8 DEF Writing!Mid
  <2> SUFFICES ASSUME NEW v \in DOMAIN page PROVE vodOf(midOf[v]) = v
    BY <2>1
  <2> QED
    BY <1>9 DEF vodOf
<1>11. \A v \in Vod : bound[v] = IF v \in new THEN midOf[v] ELSE vodMap[s][v]
  BY <1>10 DEF bound
<1>12. bound \in [Vod -> 0 .. MaxMid]
  <2>1. \A v \in Vod : bound[v] \in 0 .. MaxMid
    BY <1>2, <1>8, <1>11 DEF Base, Writing!TypeOK, Writing!Mid
  <2> QED
    BY <2>1 DEF bound
<1>13. /\ vodMap' \in [Owner -> [Vod -> 0 .. MaxMid]] /\ vodMap'[s] = bound
       /\ \A t \in Owner \ {s} : vodMap'[t] = vodMap[t]
  BY <1>1, <1>12 DEF Base, Writing!TypeOK
<1>14. /\ winners \subseteq DOMAIN page
       /\ \A v \in winners : /\ page[v] >= vodTime[s][v]
                             /\ page[v] > vodTime[s][v] => bound[v] # 0
  <2> SUFFICES ASSUME NEW v \in winners
               PROVE  /\ v \in DOMAIN page /\ page[v] >= vodTime[s][v]
                      /\ page[v] > vodTime[s][v] => bound[v] # 0
    OBVIOUS
  <2>1. v \in DOMAIN page /\ Writing!Wins(page[v], bound[v], vodTime[s][v])
    BY DEF winners
  <2>2. page[v] \in Nat /\ vodTime[s][v] \in Nat
    BY <1>2, <2>1 DEF Base, Writing!TypeOK, Writing!Time
  <2> QED
    BY <2>1, <2>2 DEF Writing!Wins
<1>15. /\ vodTime' \in [Owner -> [Vod -> Writing!Time]]
       /\ \A t \in Owner \ {s} : vodTime'[t] = vodTime[t]
       /\ \A v \in Vod : vodTime'[s][v] =
             IF v \in winners /\ page[v] > vodTime[s][v]
             THEN page[v] ELSE vodTime[s][v]
  BY <1>1, <1>14 DEF Base, Writing!TypeOK
<1>16. /\ stored' \in [Owner -> SUBSET Vod]
       /\ \A t \in Owner \ {s} : stored'[t] = stored[t]
       /\ stored'[s] = stored[s] \cup DOMAIN page
  BY <1>1, <1>10 DEF Base, Writing!TypeOK
<1>17. /\ \A m : m \in DOMAIN film' <=> m \in DOMAIN film \/ \E v \in new : m = midOf[v]
       /\ \A m \in DOMAIN film' :
             film'[m] \in [owner : Owner, text : {"site", "user"}, locked : BOOLEAN]
  BY <1>1, ZenonT(60) DEF created, Base, Writing!TypeOK, Writing!FilmOf
<1>18. DOMAIN lines' = DOMAIN lines \cup replaced \X {s}
  BY <1>1
<1>19. \A v \in winners : lines'[<<midOf[v], s>>] = Writing!Lines(v, page[v])
  <2> SUFFICES ASSUME NEW v \in winners
               PROVE  lines'[<<midOf[v], s>>] = Writing!Lines(v, page[v])
    OBVIOUS
  <2>1. <<midOf[v], s>> \in replaced \X {s} /\ vodOf(midOf[v]) = v
    BY <1>10, <1>14 DEF replaced
  <2> QED
    BY <1>1, <2>1
<1>20. \A place \in DOMAIN lines :
          place \notin replaced \X {s} => lines'[place] = lines[place]
  BY <1>1
<1> QED
  <2>1. Placed(s, page, read, new, midOf, winners)
    BY <1>4, <1>6, <1>7, <1>8, <1>9, <1>11, <1>13, <1>14, <1>15, <1>16, <1>17, <1>18,
       <1>19, <1>20 DEF Placed, replaced
  <2> QED
    BY <2>1

\* What the others have read still holds after a step that creates films and
\* maps vods of another source.
Spares(S) ==
    /\ nextMid <= nextMid' /\ nextMid' \in Nat
    /\ \A m \in DOMAIN film' : m < nextMid => m \in DOMAIN film
    /\ \A t \in Owner \ S : vodMap'[t] = vodMap[t]

\* A commit keeps the tables right: a lost film was deleted after it was
\* read, so that nothing but an unparsed time can win there.
LEMMA CommitKeeps ==
    ASSUME Base, NEW s \in Owner, NEW page, NEW read, NEW new,
           DOMAIN page \subseteq Vod, \A v \in DOMAIN page : page[v] \in Writing!Time,
           Found(s, page, read), new = {v \in DOMAIN page : read[v].mid = 0},
           nextMid + Writing!Cardinality(new) <= MaxMid + 1,
           Writing!Commit(s, page, read, new), asked' \in 0 .. MaxPages
    PROVE  Base' /\ NeverAges /\ Spares({s})
<1>1. PICK of, winners : Placed(s, page, read, new, of, winners)
  BY Committed
<1>2. /\ Vod \subseteq Nat \ {0} /\ MaxMid \in Nat /\ MaxTime \in Nat
      /\ nextMid \in Nat /\ nextMid >= 1 /\ DOMAIN film \subseteq Writing!Mid
      /\ vodMap \in [Owner -> [Vod -> 0 .. MaxMid]]
      /\ vodTime \in [Owner -> [Vod -> Writing!Time]]
      /\ stored \in [Owner -> SUBSET Vod]
      /\ DOMAIN lines \subseteq Writing!Mid \X Owner
      /\ \A place \in DOMAIN lines :
             lines[place] \in [vod : Vod \cup {Writing!ByHand}, time : Writing!Time]
  BY WritingAssumption DEF Base, Writing!TypeOK
<1>3. /\ new \subseteq DOMAIN page /\ winners \subseteq DOMAIN page
      /\ \A v \in DOMAIN page : v \in Vod /\ of[v] \in Writing!Mid
  BY <1>1 DEF Placed
<1>4. ASSUME NEW m \in Writing!Mid, NEW t \in Owner
      PROVE  \/ /\ t = s /\ \E v \in winners : m = of[v]
             \/ /\ ~(t = s /\ \E v \in winners : m = of[v])
                /\ <<m, t>> \in DOMAIN lines' <=> <<m, t>> \in DOMAIN lines
                /\ <<m, t>> \in DOMAIN lines => lines'[<<m, t>>] = lines[<<m, t>>]
  BY <1>1 DEF Placed
<1>5. \A t \in Owner : \A v \in Vod : vodMap[t][v] < nextMid
  BY <1>2 DEF Base, Mapped
<1>6. Spares({s})
  BY <1>1, <1>2, <1>3 DEF Spares, Placed
<1>7. Writing!TypeOK'
  <2>1. DOMAIN film' \subseteq Writing!Mid
    BY <1>1, <1>2, <1>3 DEF Placed
  <2>2. DOMAIN lines' \subseteq Writing!Mid \X Owner
    BY <1>1, <1>2, <1>3 DEF Placed
  <2>3. ASSUME NEW place \in DOMAIN lines'
        PROVE  lines'[place] \in [vod : Vod \cup {Writing!ByHand}, time : Writing!Time]
    <3>1. CASE \E v \in winners : place = <<of[v], s>>
      <4>1. PICK v \in winners : place = <<of[v], s>>
        BY <3>1
      <4>2. lines'[place] = [vod |-> v, time |-> page[v]]
        BY <1>1, <4>1 DEF Placed, Writing!Lines
      <4>3. v \in Vod /\ page[v] \in Writing!Time
        BY <1>3
      <4> QED
        BY <4>2, <4>3
    <3>2. CASE ~\E v \in winners : place = <<of[v], s>>
      <4>1. place \in DOMAIN lines /\ place \notin {of[v] : v \in winners} \X {s}
        BY <1>1, <2>3, <3>2 DEF Placed
      <4> QED
        BY <1>1, <1>2, <4>1 DEF Placed
    <3> QED
      BY <3>1, <3>2
  <2>4. nextMid' \in 1 .. MaxMid + 1
    BY <1>1, <1>2 DEF Placed
  <2> QED
    BY <1>1, <2>1, <2>2, <2>3, <2>4 DEF Placed, Writing!TypeOK
<1>8. Mapped'
  <2>1. ASSUME NEW m \in DOMAIN film' PROVE m < nextMid'
    <3>1. CASE m \in DOMAIN film
      <4>1. m \in Nat /\ m < nextMid
        BY <1>2, <3>1 DEF Base, Mapped, Writing!Mid
      <4> QED
        BY <1>1, <1>2, <4>1 DEF Placed
    <3>2. CASE m \notin DOMAIN film
      <4>1. \E v \in new : m = of[v]
        BY <1>1, <3>2 DEF Placed
      <4> QED
        BY <1>1, <1>3, <4>1 DEF Placed
    <3> QED
      BY <3>1, <3>2
  <2>2. ASSUME NEW t \in Owner, NEW v \in Vod
        PROVE  /\ vodMap'[t][v] # 0 => vodMap'[t][v] \in DOMAIN film'
               /\ vodMap'[t][v] = 0 => vodTime'[t][v] = 0
    <3>1. CASE t # s
      BY <1>1, <3>1 DEF Placed, Base, Mapped
    <3>2. CASE t = s /\ v \in new
      BY <1>1, <1>2, <1>3, <3>2 DEF Placed, Writing!Mid
    <3>3. CASE t = s /\ v \notin new
      <4>1. vodMap'[s][v] = vodMap[s][v]
        BY <1>1, <3>3 DEF Placed
      <4>2. vodMap[s][v] = 0 => vodTime'[s][v] = vodTime[s][v]
        BY <1>1, <4>1 DEF Placed
      <4> QED
        BY <1>1, <3>3, <4>1, <4>2 DEF Placed, Base, Mapped
    <3> QED
      BY <3>1, <3>2, <3>3
  <2> QED
    BY <2>1, <2>2 DEF Mapped
<1>9. ASSUME NEW v \in winners
      PROVE  LET m == of[v] IN
             /\ m < nextMid' /\ page[v] \in Nat /\ vodTime[s][v] \in Nat
             /\ vodTime'[s][v] \in Nat
             /\ vodTime[s][v] <= page[v] /\ page[v] <= vodTime'[s][v]
             /\ v \notin new =>
                   /\ m < nextMid /\ m # 0
                   /\ \/ m \notin DOMAIN film /\ vodMap[s][v] = 0 /\ page[v] = 0
                      \/ m \in DOMAIN film /\ vodMap[s][v] = m
             /\ v \in new => m >= nextMid /\ m \in DOMAIN film'
  <2>1. v \in DOMAIN page /\ v \in Vod /\ of[v] \in Nat /\ of[v] # 0
    BY <1>3 DEF Writing!Mid
  <2>2. page[v] \in Nat /\ vodTime[s][v] \in Nat
    <3>1. page[v] \in Writing!Time
      BY <2>1
    <3>2. vodTime[s][v] \in Writing!Time
      <4>1. vodTime \in [Owner -> [Vod -> Writing!Time]] /\ v \in Vod
        BY <1>2, <2>1
      <4> QED
        BY <4>1
    <3> QED
      BY <1>2, <3>1, <3>2 DEF Writing!Time
  <2>3. /\ vodTime[s][v] <= page[v] /\ page[v] <= vodTime'[s][v]
        /\ vodTime'[s][v] \in Nat
    BY <1>1, <2>1, <2>2 DEF Placed
  <2>4. CASE v \in new
    BY <1>1, <2>1, <2>2, <2>3, <2>4 DEF Placed
  <2>5. CASE v \notin new
    <3>1. of[v] = read[v].mid /\ of[v] < nextMid /\ vodMap'[s][v] = vodMap[s][v]
      BY <1>1, <2>1, <2>5 DEF Placed
    <3>2. \/ vodMap[s][v] = 0 /\ of[v] \notin DOMAIN film
          \/ vodMap[s][v] = of[v]
      BY <2>1, <3>1 DEF Found
    <3>3. vodMap[s][v] = of[v] => of[v] \in DOMAIN film
      BY <2>1 DEF Base, Mapped
    <3>4. vodMap[s][v] = 0 => page[v] = 0
      <4>1. page[v] > vodTime[s][v] => vodMap[s][v] # 0
        BY <1>1, <3>1 DEF Placed
      <4>2. vodMap[s][v] = 0 => vodTime[s][v] = 0
        BY <2>1 DEF Base, Mapped
      <4> QED
        BY <2>2, <2>3, <4>1, <4>2
    <3>5. of[v] < nextMid'
      BY <1>1, <1>2, <2>1, <3>1 DEF Placed
    <3> QED
      BY <2>1, <2>2, <2>3, <2>5, <3>1, <3>2, <3>3, <3>4, <3>5
  <2> QED
    BY <2>4, <2>5
<1>10. LinesDated'
  <2> SUFFICES ASSUME NEW m \in Writing!Mid, NEW t \in Owner, <<m, t>> \in DOMAIN lines'
               PROVE  /\ m < nextMid'
                      /\ lines'[<<m, t>>].vod = Writing!ByHand \/ m \notin DOMAIN film' =>
                            lines'[<<m, t>>].time = 0
                      /\ \A v \in Vod :
                            lines'[<<m, t>>].vod = v /\ vodMap'[t][v] = m =>
                               lines'[<<m, t>>].time <= vodTime'[t][v]
    BY DEF LinesDated
  <2>1. CASE t = s /\ \E v \in winners : m = of[v]
    <3>1. PICK v \in winners : m = of[v]
      BY <2>1
    <3>2. lines'[<<m, t>>].vod = v /\ lines'[<<m, t>>].time = page[v]
      <4>1. lines'[<<of[v], s>>] = [vod |-> v, time |-> page[v]]
        BY <1>1 DEF Placed, Writing!Lines
      <4> QED
        BY <2>1, <3>1, <4>1
    <3>3. v # Writing!ByHand
      BY <1>2, <1>3 DEF Writing!ByHand
    <3>4. m \notin DOMAIN film' => page[v] = 0
      <4>1. m \notin DOMAIN film' => m \notin DOMAIN film
        BY <1>1 DEF Placed
      <4> QED
        BY <1>9, <3>1, <4>1
    <3> QED
      BY <1>9, <2>1, <3>1, <3>2, <3>3, <3>4
  <2>2. CASE ~(t = s /\ \E v \in winners : m = of[v])
    <3>1. <<m, t>> \in DOMAIN lines /\ lines'[<<m, t>>] = lines[<<m, t>>]
      BY <1>4, <2>2
    <3>2. /\ m < nextMid
          /\ lines[<<m, t>>].vod = Writing!ByHand \/ m \notin DOMAIN film =>
                lines[<<m, t>>].time = 0
          /\ lines[<<m, t>>].time \in Nat
      <4>1. lines[<<m, t>>].time \in Writing!Time
        BY <1>2, <3>1
      <4>2. lines[<<m, t>>].time \in Nat
        BY <1>2, <4>1 DEF Writing!Time
      <4> QED
        BY <3>1, <4>2 DEF Base, LinesDated
    <3>3. m \notin DOMAIN film' => m \notin DOMAIN film
      BY <1>1 DEF Placed
    <3>4. ASSUME NEW v \in Vod, lines[<<m, t>>].vod = v, vodMap'[t][v] = m
          PROVE  lines[<<m, t>>].time <= vodTime'[t][v]
      <4>1. vodMap[t][v] = m
        <5>1. m \in Nat
          BY DEF Writing!Mid
        <5>2. t = s /\ v \in new => vodMap'[t][v] >= nextMid
          BY <1>1, <1>3 DEF Placed
        <5>3. ~(t = s /\ v \in new)
          BY <1>2, <3>2, <3>4, <5>1, <5>2
        <5> QED
          BY <1>1, <3>4, <5>3 DEF Placed
      <4>2. lines[<<m, t>>].time <= vodTime[t][v]
        BY <3>1, <3>4, <4>1 DEF Base, LinesDated
      <4>3. vodTime[t][v] \in Nat
        <5>1. vodTime[t][v] \in Writing!Time
          BY <1>2
        <5> QED
          BY <1>2, <5>1 DEF Writing!Time
      <4>4. CASE t = s /\ v \in winners
        BY <1>9, <3>2, <4>2, <4>3, <4>4
      <4>5. CASE ~(t = s /\ v \in winners)
        BY <1>1, <4>2, <4>5 DEF Placed
      <4> QED
        BY <4>4, <4>5
    <3>5. m < nextMid'
      BY <1>1, <1>2, <3>2 DEF Placed, Writing!Mid
    <3> QED
      BY <3>1, <3>2, <3>3, <3>4, <3>5
  <2> QED
    BY <2>1, <2>2
<1>11. NeverAges
  <2> SUFFICES ASSUME NEW place \in DOMAIN lines \cap DOMAIN lines',
                      lines'[place].vod = lines[place].vod
               PROVE  lines'[place].time >= lines[place].time
    BY DEF NeverAges
  <2>1. PICK m \in Writing!Mid, t \in Owner : place = <<m, t>>
    BY <1>2
  <2>2. lines[place].time \in Nat
    <3>1. lines[place].time \in Writing!Time
      BY <1>2
    <3> QED
      BY <1>2, <3>1 DEF Writing!Time
  <2>3. CASE t = s /\ \E v \in winners : m = of[v]
    <3>1. PICK v \in winners : m = of[v]
      BY <2>3
    <3>2. lines'[place].vod = v /\ lines'[place].time = page[v]
      <4>1. lines'[<<of[v], s>>] = [vod |-> v, time |-> page[v]]
        BY <1>1 DEF Placed, Writing!Lines
      <4> QED
        BY <2>1, <2>3, <3>1, <4>1
    <3>3. m < nextMid /\ m \in Nat /\ v \in Vod
      BY <1>3, <2>1, <2>3 DEF Base, LinesDated, Writing!Mid
    <3>4. v \notin new
      BY <1>2, <1>9, <3>1, <3>3
    <3>5. CASE m \notin DOMAIN film
      <4>1. lines[place].time = 0
        BY <2>1, <2>3, <3>5 DEF Base, LinesDated
      <4> QED
        BY <1>9, <3>2, <4>1
    <3>6. CASE m \in DOMAIN film
      <4>1. vodMap[s][v] = m
        BY <1>9, <3>1, <3>4, <3>6
      <4>2. lines[place].time <= vodTime[s][v]
        BY <2>1, <2>3, <3>2, <3>3, <4>1 DEF Base, LinesDated
      <4> QED
        BY <1>9, <2>2, <3>2, <4>2
    <3> QED
      BY <3>5, <3>6
  <2>4. CASE ~(t = s /\ \E v \in winners : m = of[v])
    BY <1>4, <2>1, <2>2, <2>4
  <2> QED
    BY <2>3, <2>4
<1>12. StoredFirst'
  <2> SUFFICES ASSUME NEW t \in Owner, NEW v \in stored'[t], vodMap'[t][v] # 0
               PROVE  First(t, v)'
    BY DEF StoredFirst
  <2>1. v \in Vod
    BY <1>1 DEF Placed
  <2>2. CASE t # s
    BY <1>1, <2>1, <2>2, SMTT(30) DEF Placed, Base, StoredFirst, First
  <2>3. CASE t = s /\ v \in new
    <3> SUFFICES ASSUME NEW u \in Vod, vodMap'[s][u] = vodMap'[s][v] PROVE v <= u
      BY <2>3 DEF First
    <3>1. vodMap'[s][v] = of[v] /\ of[v] >= nextMid /\ of[v] \in Nat
      BY <1>1, <1>3, <2>1, <2>3 DEF Placed, Writing!Mid
    <3>2. u \in new
      <4>1. vodMap[s][u] \in Nat /\ vodMap[s][u] < nextMid
        BY <1>2, <1>5
      <4> QED
        BY <1>1, <1>2, <3>1, <4>1 DEF Placed
    <3>3. u = v
      BY <1>1, <1>3, <2>3, <3>1, <3>2 DEF Placed
    <3> QED
      BY <1>2, <2>1, <3>3
  <2>4. CASE t = s /\ v \notin new
    <3>1. vodMap'[s][v] = vodMap[s][v]
      BY <1>1, <2>1, <2>4 DEF Placed
    <3>2. First(s, v)
      <4>1. v \in stored[s] \/ v \in DOMAIN page
        BY <1>1, <2>4 DEF Placed
      <4>2. CASE v \in stored[s]
        BY <2>4, <3>1, <4>2 DEF Base, StoredFirst
      <4>3. CASE v \in DOMAIN page
        BY <2>4, <3>1, <4>3 DEF Found
      <4> QED
        BY <4>1, <4>2, <4>3
    <3> SUFFICES ASSUME NEW u \in Vod, vodMap'[s][u] = vodMap'[s][v] PROVE v <= u
      BY <2>4 DEF First
    <3>3. u \notin new
      <4>1. vodMap[s][v] \in Nat /\ vodMap[s][v] < nextMid
        BY <1>2, <1>5, <2>1
      <4>2. u \in new => vodMap'[s][u] = of[u] /\ of[u] >= nextMid /\ of[u] \in Nat
        BY <1>1, <1>3 DEF Placed, Writing!Mid
      <4> QED
        BY <1>2, <3>1, <4>1, <4>2
    <3>4. vodMap'[s][u] = vodMap[s][u]
      BY <1>1, <3>3 DEF Placed
    <3> QED
      BY <3>1, <3>2, <3>4 DEF First
  <2> QED
    BY <2>2, <2>3, <2>4
<1> QED
  BY <1>6, <1>7, <1>8, <1>10, <1>11, <1>12 DEF Base

\* What is said of a job in the next state is said of its parts.
LEMMA Identified ==
    ASSUME NEW x, NEW s, NEW page, NEW read, Found(s, page, read)',
           writer'[x].site = s, writer'[x].page = page, writer'[x].read = read
    PROVE  Found(writer[x].site, writer[x].page, writer[x].read)'
BY DEF Found, First

\* What was read of a source whose mapping does not change.
LEMMA FoundStays ==
    ASSUME Base, NEW S, Spares(S), NEW s \in Owner, s \notin S, NEW page, NEW read,
           DOMAIN page \subseteq Vod, Found(s, page, read)
    PROVE  Found(s, page, read)'
<1>1. nextMid \in Nat
  BY DEF Base, Writing!TypeOK
<1>2. vodMap'[s] = vodMap[s]
  BY DEF Spares
<1>3. \A v : First(s, v) => First(s, v)'
  BY <1>2 DEF First
<1>4. ASSUME NEW v \in DOMAIN page, read[v].mid # 0
      PROVE  /\ read[v].mid \in Writing!Mid /\ read[v].mid < nextMid'
             /\ \/ vodMap'[s][v] = 0 /\ read[v].mid \notin DOMAIN film'
                \/ vodMap'[s][v] = read[v].mid /\ First(s, v)'
  <2>1. /\ read[v].mid \in Writing!Mid /\ read[v].mid < nextMid /\ read[v].mid \in Nat
        /\ \/ vodMap[s][v] = 0 /\ read[v].mid \notin DOMAIN film
           \/ vodMap[s][v] = read[v].mid /\ First(s, v)
    BY <1>4 DEF Found
  <2>2. read[v].mid < nextMid'
    BY <1>1, <2>1 DEF Spares
  <2> QED
    BY <1>2, <1>3, <2>1, <2>2 DEF Spares
<1> QED
  BY <1>4 DEF Found

\* A job stays one when films are created.
LEMMA JobLater ==
    ASSUME FilmInv, NEW r, Job(r, nextMid), NEW S, Spares(S)
    PROVE  Job(r, nextMid')
<1>1. nextMid \in Nat /\ nextMid' \in Nat /\ nextMid <= nextMid'
  BY DEF FilmInv, Writing!TypeOK, Spares
<1>2. \A m \in Writing!Mid : m < nextMid => m < nextMid'
  BY <1>1 DEF Writing!Mid
<1> QED
  BY <1>2 DEF Job

\* What a step of one goroutine has to show.
LEMMA OneWriter ==
    ASSUME FilmInv, Base', NEW w \in Actor, NEW y, NEW S,
           writer' = [writer EXCEPT ![w] = y],
           y = Writing!Idle \/ Job(y, nextMid'),
           Spares(S),
           \A q \in Actor \ {w} : writer[q].at = "commits" => writer[q].site \notin S,
           \A q \in Actor \ {w} : Working(q) =>
               writer[q].held \subseteq locks'
               /\ (y # Writing!Idle => y.held \cap writer[q].held = {}),
           y # Writing!Idle => y.held \subseteq locks',
           y.at \notin {"idle", "locks"} => Writing!SourceLock(y.site) \in y.held,
           y.at = "commits" => Found(y.site, y.page, y.read)'
    PROVE  FilmInv'
<1>1. /\ writer'[w] = y /\ writer' = [q \in Actor |-> writer'[q]]
      /\ \A q \in Actor \ {w} : writer'[q] = writer[q]
  BY DEF FilmInv, Jobs
<1>2. Jobs'
  <2>1. ASSUME NEW q \in Actor \ {w}
        PROVE  writer[q] = Writing!Idle \/ Job(writer[q], nextMid')
    <3>1. writer[q] = Writing!Idle \/ Job(writer[q], nextMid)
      BY DEF FilmInv, Jobs
    <3> QED
      BY <3>1, JobLater
  <2> QED
    BY <1>1, <2>1 DEF Jobs
<1>3. \A q \in Actor : writer[q].at # "idle" <=> writer[q] # Writing!Idle
  BY DEF FilmInv, Jobs, Job, Writing!Idle
<1>4. y.at # "idle" <=> y # Writing!Idle
  BY DEF Job, Writing!Idle
<1>5. LocksApart'
  BY <1>1, <1>3, <1>4 DEF FilmInv, LocksApart, Working
<1>6. ReadsHold'
  <2> SUFFICES ASSUME NEW q \in Actor, writer'[q].at = "commits"
               PROVE  Found(writer[q].site, writer[q].page, writer[q].read)'
    BY DEF ReadsHold
  <2>1. CASE q = w
    BY <1>1, <2>1, Identified
  <2>2. CASE q # w
    <3>1. writer'[q] = writer[q] /\ writer[q].at = "commits"
      BY <1>1, <2>2
    <3>2. Job(writer[q], nextMid)
      BY <3>1 DEF FilmInv, Jobs, Writing!Idle
    <3>3. Found(writer[q].site, writer[q].page, writer[q].read)
      BY <3>1 DEF FilmInv, ReadsHold
    <3> DEFINE s == writer[q].site  page == writer[q].page  read == writer[q].read
    <3>4. /\ s \in Owner /\ s \notin S /\ DOMAIN page \subseteq Vod
          /\ s = writer[q].site /\ page = writer[q].page /\ read = writer[q].read
      BY <2>2, <3>1, <3>2 DEF Job
    <3>5. PICK ss, pp, rr : ss = s /\ pp = page /\ rr = read
      OBVIOUS
    <3>6. Found(ss, pp, rr)'
      BY <3>3, <3>4, <3>5, FoundStays DEF FilmInv, Base
    <3> QED
      BY <3>1, <3>5, <3>6, Identified
  <2> QED
    BY <2>1, <2>2
<1> QED
  BY <1>2, <1>5, <1>6 DEF FilmInv, Base

\* Between the lock of its source and the unlock a goroutine is alone there.
LEMMA Alone ==
    ASSUME FilmInv, NEW w \in Actor, NEW q \in Actor \ {w},
           writer[w].at \notin {"idle", "locks"}, writer[q].at = "commits"
    PROVE  writer[q].site # writer[w].site
<1> SUFFICES ASSUME writer[q].site = writer[w].site PROVE FALSE
  OBVIOUS
<1> DEFINE lock == Writing!SourceLock(writer[w].site)
<1>1. lock = Writing!SourceLock(writer[q].site)
  OBVIOUS
<1> HIDE DEF lock
<1>2. lock \in writer[w].held /\ lock \in writer[q].held
  BY <1>1 DEF FilmInv, LocksApart, lock
<1>3. writer[w].held \cap writer[q].held = {}
  BY DEF FilmInv, LocksApart, Working
<1> QED
  BY <1>2, <1>3

\* What the invariant says of a goroutine that is at work.
LEMMA AtWork ==
    ASSUME FilmInv, NEW w \in Actor, writer[w].at # "idle"
    PROVE  /\ Job(writer[w], nextMid) /\ writer[w] # Writing!Idle
           /\ writer = [q \in Actor |-> writer[q]]
           /\ writer[w].held \subseteq locks
           /\ \A q \in Actor \ {w} : Working(q) =>
                  /\ writer[q].held \subseteq locks
                  /\ writer[w].held \cap writer[q].held = {}
           /\ writer[w].at # "locks" =>
                  Writing!SourceLock(writer[w].site) \in writer[w].held
BY DEF FilmInv, Jobs, LocksApart, Working, Writing!Idle

\* A step that leaves the tables alone.
LEMMA LibraryStays ==
    ASSUME FilmInv, UNCHANGED Writing!library, asked' \in 0 .. MaxPages
    PROVE  Base' /\ Spares({})
<1>1. /\ film' = film /\ lines' = lines /\ vodMap' = vodMap
      /\ vodTime' = vodTime /\ nextMid' = nextMid /\ stored' = stored
  BY DEF Writing!library
<1>2. Writing!TypeOK' /\ Mapped' /\ LinesDated'
  BY <1>1 DEF FilmInv, Writing!TypeOK, Mapped, LinesDated
<1>3. StoredFirst'
  BY <1>1 DEF FilmInv, StoredFirst, First
<1>4. nextMid \in Nat
  BY DEF FilmInv, Writing!TypeOK
<1> QED
  BY <1>1, <1>2, <1>3, <1>4 DEF Base, Spares

\* A job goes on with other keys, locks, vods, or another film or reading.
LEMMA GoesOn ==
    ASSUME NEW r, NEW next, Job(r, next), NEW y,
           DOMAIN y = Fields, y.kind = r.kind, y.site = r.site,
           y.at \in {"locks", "mid", "reads", "commits", "unlocks"},
           y.page = r.page \/ (r.kind # "edit" /\ DOMAIN y.page \subseteq Vod
                               /\ \A v \in DOMAIN y.page : y.page[v] \in Writing!Time),
           r.kind = "edit" => y.at # "commits" /\ y.mid = r.mid /\ y.read = r.read
    PROVE  Job(y, next)
BY DEF Job

-----------------------------------------------------------------------------
(* The films: the operations                                               *)

\* One lemma per operation, from here on: the locks,
LEMMA LocksKeyKeeps ==
    ASSUME FilmInv, NEW w \in Actor, Writing!LocksKey(w) PROVE FilmInv'
<1> DEFINE r == writer[w]  lock == Writing!KeyLock(Writing!NextKey(w))
           y == [r EXCEPT !.keys = r.keys \ {Writing!NextKey(w)},
                          !.held = r.held \cup {lock}]
<1>1. /\ r.at = "locks" /\ lock \notin locks /\ locks' = locks \cup {lock}
      /\ UNCHANGED Writing!library /\ asked' = asked
  BY DEF Writing!LocksKey, Writing!At, Writing!Lock, Writing!tables
<1>2. /\ Job(r, nextMid) /\ r # Writing!Idle
      /\ writer = [q \in Actor |-> writer[q]] /\ r.held \subseteq locks
      /\ \A q \in Actor \ {w} : Working(q) =>
             writer[q].held \subseteq locks /\ r.held \cap writer[q].held = {}
  BY <1>1, AtWork
<1>3. Base' /\ Spares({})
  BY <1>1, LibraryStays DEF FilmInv, Writing!TypeOK
<1>4. writer' = [writer EXCEPT ![w] = y]
  BY <1>2 DEF Writing!LocksKey
<1>5. /\ y.at = "locks" /\ y.held = r.held \cup {lock}
      /\ Job(y, nextMid)
  <2>1. DOMAIN r = Fields
    BY <1>2 DEF Job
  <2>2. /\ DOMAIN y = Fields /\ y.at = r.at /\ y.kind = r.kind /\ y.site = r.site
        /\ y.page = r.page /\ y.mid = r.mid /\ y.read = r.read
        /\ y.held = r.held \cup {lock}
    BY <2>1 DEF Fields
  <2> HIDE DEF y
  <2> QED
    BY <1>1, <1>2, <2>2, GoesOn
<1>6. nextMid' = nextMid
  BY <1>1 DEF Writing!library
<1> HIDE DEF y, lock
<1> QED
  BY <1>1, <1>2, <1>3, <1>4, <1>5, <1>6, OneWriter

\* the lock of the source,
LEMMA LocksSourceKeeps ==
    ASSUME FilmInv, NEW w \in Actor, Writing!LocksSource(w) PROVE FilmInv'
<1> DEFINE r == writer[w]  lock == Writing!SourceLock(r.site)
           mid == Writing!FilmToLock(w)
           y == [r EXCEPT !.at = "mid", !.mid = mid, !.held = r.held \cup {lock}]
<1>1. /\ r.at = "locks" /\ lock \notin locks /\ locks' = locks \cup {lock}
      /\ UNCHANGED Writing!library /\ asked' = asked
  BY DEF Writing!LocksSource, Writing!At, Writing!Lock, Writing!tables
<1>2. /\ Job(r, nextMid) /\ r # Writing!Idle
      /\ writer = [q \in Actor |-> writer[q]] /\ r.held \subseteq locks
      /\ \A q \in Actor \ {w} : Working(q) =>
             writer[q].held \subseteq locks /\ r.held \cap writer[q].held = {}
  BY <1>1, AtWork
<1>3. Base' /\ Spares({})
  BY <1>1, LibraryStays DEF FilmInv, Writing!TypeOK
<1>4. writer' = [writer EXCEPT ![w] = y]
  BY <1>2 DEF Writing!LocksSource
<1>5. r.kind = "edit" => mid = r.mid
  BY DEF Writing!FilmToLock
<1> HIDE DEF mid
<1>6. /\ y.at = "mid" /\ y.held = r.held \cup {lock} /\ y.site = r.site
      /\ Job(y, nextMid)
  <2>1. DOMAIN r = Fields
    BY <1>2 DEF Job
  <2>2. /\ DOMAIN y = Fields /\ y.at = "mid" /\ y.kind = r.kind /\ y.site = r.site
        /\ y.page = r.page /\ y.mid = mid /\ y.read = r.read
        /\ y.held = r.held \cup {lock}
    BY <2>1 DEF Fields
  <2> HIDE DEF y
  <2> QED
    BY <1>1, <1>2, <1>5, <2>2, GoesOn
<1>7. nextMid' = nextMid
  BY <1>1 DEF Writing!library
<1>8. Writing!SourceLock(y.site) \in y.held
  BY <1>6
<1> HIDE DEF y, lock
<1> QED
  BY <1>1, <1>2, <1>3, <1>4, <1>6, <1>7, <1>8, OneWriter

\* of the film, if there is one to lock,
LEMMA LocksFilmKeeps ==
    ASSUME FilmInv, NEW w \in Actor, Writing!LocksFilm(w) PROVE FilmInv'
<1> DEFINE r == writer[w]  lock == Writing!MidLock(r.mid)
<1>1. /\ r.at = "mid" /\ UNCHANGED Writing!library /\ asked' = asked
  BY DEF Writing!LocksFilm, Writing!At, Writing!tables
<1>2. /\ Job(r, nextMid) /\ r # Writing!Idle
      /\ writer = [q \in Actor |-> writer[q]] /\ r.held \subseteq locks
      /\ \A q \in Actor \ {w} : Working(q) =>
             writer[q].held \subseteq locks /\ r.held \cap writer[q].held = {}
      /\ Writing!SourceLock(r.site) \in r.held
  BY <1>1, AtWork
<1>3. Base' /\ Spares({}) /\ nextMid' = nextMid
  BY <1>1, LibraryStays DEF FilmInv, Writing!TypeOK, Writing!library
<1>4. PICK more : /\ more \cap locks = {} /\ locks' = locks \cup more
                  /\ writer' = [writer EXCEPT
                         ![w] = [r EXCEPT !.at = "reads", !.held = r.held \cup more]]
  <2>1. CASE r.mid = 0
    <3>1. locks' = locks \cup {} /\ {} \cap locks = {}
      BY <2>1 DEF Writing!LocksFilm
    <3>2. [r EXCEPT !.at = "reads", !.held = r.held \cup {}] = [r EXCEPT !.at = "reads"]
      BY <1>2 DEF Job, Fields
    <3>3. writer' = [writer EXCEPT ![w] = [r EXCEPT !.at = "reads"]]
      BY <1>2, <2>1 DEF Writing!LocksFilm, Writing!Goes
    <3> QED
      BY <3>1, <3>2, <3>3
  <2>2. CASE r.mid # 0
    <3>1. locks' = locks \cup {lock} /\ lock \notin locks
      BY <2>2 DEF Writing!LocksFilm, Writing!Lock
    <3>2. writer' = [writer EXCEPT
                         ![w] = [r EXCEPT !.at = "reads", !.held = r.held \cup {lock}]]
      BY <1>2, <2>2 DEF Writing!LocksFilm
    <3> HIDE DEF lock
    <3> QED
      BY <3>1, <3>2
  <2> QED
    BY <2>1, <2>2
<1> DEFINE y == [r EXCEPT !.at = "reads", !.held = r.held \cup more]
<1>5. /\ y.at = "reads" /\ y.held = r.held \cup more /\ y.site = r.site
      /\ Job(y, nextMid)
  <2>1. DOMAIN r = Fields
    BY <1>2 DEF Job
  <2>2. /\ DOMAIN y = Fields /\ y.at = "reads" /\ y.kind = r.kind /\ y.site = r.site
        /\ y.page = r.page /\ y.mid = r.mid /\ y.read = r.read
        /\ y.held = r.held \cup more
    BY <2>1 DEF Fields
  <2> HIDE DEF y
  <2> QED
    BY <1>1, <1>2, <2>2, GoesOn
<1>6. writer' = [writer EXCEPT ![w] = y]
  BY <1>4
<1> HIDE DEF y
<1>7. Writing!SourceLock(y.site) \in y.held
  BY <1>2, <1>5
<1> QED
  BY <1>1, <1>2, <1>3, <1>4, <1>5, <1>6, <1>7, OneWriter

\* and the deferred unlocks,
LEMMA UnlocksKeeps ==
    ASSUME FilmInv, NEW w \in Actor, Writing!Unlocks(w) PROVE FilmInv'
<1> DEFINE r == writer[w]
<1>1. /\ r.at = "unlocks" /\ UNCHANGED Writing!library /\ asked' = asked
      /\ locks' = locks \ r.held /\ writer' = [writer EXCEPT ![w] = Writing!Idle]
  BY DEF Writing!Unlocks, Writing!At, Writing!tables
<1>2. \A q \in Actor \ {w} : Working(q) =>
          writer[q].held \subseteq locks /\ r.held \cap writer[q].held = {}
  BY <1>1, AtWork
<1>3. Base' /\ Spares({})
  BY <1>1, LibraryStays DEF FilmInv, Writing!TypeOK
<1>4. Writing!Idle.at = "idle"
  BY DEF Writing!Idle
<1>5. \A q \in Actor \ {w} : Working(q) => writer[q].held \subseteq locks'
  BY <1>1, <1>2
<1> QED
  BY <1>1, <1>3, <1>4, <1>5, OneWriter

\* a page that is rolled back,
LEMMA FailsPageKeeps ==
    ASSUME FilmInv, NEW w \in Actor, Writing!FailsPage(w) PROVE FilmInv'
<1> DEFINE r == writer[w]  y == [r EXCEPT !.at = "unlocks"]
<1>1. /\ r.at = "commits" /\ UNCHANGED Writing!library /\ asked' = asked
      /\ locks' = locks
  BY DEF Writing!FailsPage, Writing!At, Writing!tables
<1>2. /\ Job(r, nextMid) /\ r # Writing!Idle
      /\ writer = [q \in Actor |-> writer[q]] /\ r.held \subseteq locks
      /\ \A q \in Actor \ {w} : Working(q) =>
             writer[q].held \subseteq locks /\ r.held \cap writer[q].held = {}
      /\ Writing!SourceLock(r.site) \in r.held
  BY <1>1, AtWork
<1>3. Base' /\ Spares({}) /\ nextMid' = nextMid
  BY <1>1, LibraryStays DEF FilmInv, Writing!TypeOK, Writing!library
<1>4. writer' = [writer EXCEPT ![w] = y]
  BY <1>2 DEF Writing!FailsPage, Writing!Goes
<1>5. /\ y.at = "unlocks" /\ y.held = r.held /\ y.site = r.site
      /\ Job(y, nextMid)
  <2>1. DOMAIN r = Fields
    BY <1>2 DEF Job
  <2>2. /\ DOMAIN y = Fields /\ y.at = "unlocks" /\ y.kind = r.kind /\ y.site = r.site
        /\ y.page = r.page /\ y.mid = r.mid /\ y.read = r.read /\ y.held = r.held
    BY <2>1 DEF Fields
  <2> HIDE DEF y
  <2> QED
    BY <1>1, <1>2, <2>2, GoesOn
<1> HIDE DEF y
<1> QED
  BY <1>1, <1>2, <1>3, <1>4, <1>5, OneWriter

\* the start of a page, a single film or an edit,
LEMMA StartsKeeps ==
    ASSUME FilmInv, NEW w \in Actor, Writing!Asked(w) PROVE FilmInv'
<1>1. /\ writer[w].at = "idle" /\ UNCHANGED Writing!library /\ locks' = locks
      /\ asked' \in 0 .. MaxPages
  BY WritingAssumption
     DEF Writing!Asked, Writing!Starts, Writing!StartsEdit, Writing!At, Writing!Asks,
         FilmInv, Writing!TypeOK
<1>2. /\ Base' /\ Spares({}) /\ nextMid' = nextMid
  BY <1>1, LibraryStays DEF Writing!library
<1>3. PICK y : /\ writer' = [writer EXCEPT ![w] = y] /\ y.at = "locks"
               /\ y.held = {} /\ Job(y, nextMid)
  <2>1. CASE \E s \in Owner, page \in Writing!Pages : Writing!Starts(w, s, page)
    <3>1. PICK s \in Owner, page \in Writing!Pages : Writing!Starts(w, s, page)
      BY <2>1
    <3>2. PICK kind \in {"page", "single"} : \E keys :
            writer' = [writer EXCEPT ![w] =
               [at |-> "locks", kind |-> kind, site |-> s, page |-> page,
                keys |-> keys, held |-> {}, mid |-> 0, read |-> <<>>]]
      BY <3>1 DEF Writing!Starts
    <3>4. PICK keys :
            writer' = [writer EXCEPT ![w] =
               [at |-> "locks", kind |-> kind, site |-> s, page |-> page,
                keys |-> keys, held |-> {}, mid |-> 0, read |-> <<>>]]
      BY <3>2
    <3>3. DOMAIN page \subseteq Vod /\ \A v \in DOMAIN page : page[v] \in Writing!Time
      BY DEF Writing!Pages
    <3> DEFINE y == [at |-> "locks", kind |-> kind, site |-> s, page |-> page,
                     keys |-> keys, held |-> {}, mid |-> 0, read |-> <<>>]
    <3>5. Job(y, nextMid)
      BY <3>3 DEF Job, Fields
    <3> QED
      BY <3>4, <3>5
  <2>2. CASE \E s \in Owner, m \in Writing!Mid : Writing!StartsEdit(w, s, m)
    <3>1. PICK s \in Owner, m \in Writing!Mid : Writing!StartsEdit(w, s, m)
      BY <2>2
    <3>2. PICK keys :
            writer' = [writer EXCEPT ![w] =
               [at |-> "locks", kind |-> "edit", site |-> s, mid |-> m,
                page |-> <<>>, keys |-> keys, held |-> {}, read |-> film[m]]]
      BY <3>1 DEF Writing!StartsEdit
    <3> DEFINE y == [at |-> "locks", kind |-> "edit", site |-> s, mid |-> m,
                     page |-> <<>>, keys |-> keys, held |-> {}, read |-> film[m]]
    <3>3. /\ m < nextMid /\ film[m].owner \in Owner /\ film[m].locked \in BOOLEAN
      BY <3>1 DEF FilmInv, Mapped, Writing!TypeOK, Writing!StartsEdit
    <3>4. Job(y, nextMid)
      BY <3>3 DEF Job, Fields
    <3> QED
      BY <3>2, <3>4
  <2> QED
    BY <2>1, <2>2 DEF Writing!Asked
<1>4. \A q \in Actor \ {w} : Working(q) => writer[q].held \subseteq locks
  BY DEF FilmInv, LocksApart
<1>5. \A q \in Actor \ {w} : Working(q) =>
          writer[q].held \subseteq locks' /\ y.held \cap writer[q].held = {}
  BY <1>1, <1>3, <1>4
<1>6. y.held \subseteq locks' /\ (y = Writing!Idle \/ Job(y, nextMid'))
  BY <1>2, <1>3
<1>7. y.at # "commits" /\ y.at \in {"idle", "locks"}
  BY <1>3
<1> QED
  BY <1>2, <1>3, <1>5, <1>6, <1>7, OneWriter

\* What is read holds when it is read.
LEMMA ReadNow ==
    ASSUME FilmInv, NEW s \in Owner, NEW page, NEW read, DOMAIN page \subseteq Vod,
           \A v \in DOMAIN page : read[v].mid = Writing!Bound(s, v)
    PROVE  Found(s, page, read)
<1>1. ASSUME NEW v \in DOMAIN page
      PROVE  /\ read[v].mid \in Nat
             /\ read[v].mid # 0 =>
                   /\ read[v].mid \in Writing!Mid /\ read[v].mid < nextMid
                   /\ vodMap[s][v] = read[v].mid /\ First(s, v)
  <2>1. CASE read[v].mid = 0
    BY <2>1
  <2>2. CASE read[v].mid # 0
    <3>1. /\ vodMap[s][v] = read[v].mid /\ vodMap[s][v] \in DOMAIN film
          /\ \A u \in Writing!Sharing(s, vodMap[s][v]) : v <= u
      BY <2>2 DEF Writing!Bound
    <3>2. First(s, v)
      BY <3>1 DEF First, Writing!Sharing
    <3>3. /\ vodMap[s][v] \in Writing!Mid /\ vodMap[s][v] < nextMid
      BY <3>1 DEF FilmInv, Mapped, Writing!TypeOK
    <3> QED
      BY <3>1, <3>2, <3>3 DEF Writing!Mid
  <2> QED
    BY <2>1, <2>2
<1>2. ASSUME NEW v \in DOMAIN page, NEW u \in DOMAIN page,
             read[v].mid = read[u].mid, read[v].mid # 0
      PROVE  v = u
  <2>1. v \in Vod /\ u \in Vod /\ v \in Nat /\ u \in Nat
    BY WritingAssumption
  <2>2. v <= u /\ u <= v
    BY <1>1, <1>2, <2>1 DEF First
  <2> QED
    BY <2>1, <2>2
<1> QED
  BY <1>1, <1>2 DEF Found

\* the reading of a page's films.
LEMMA ReadsKeeps ==
    ASSUME FilmInv, NEW w \in Actor, Writing!Reads(w) PROVE FilmInv'
<1> DEFINE r == writer[w]
           read == [v \in DOMAIN r.page |->
                       LET m == Writing!Bound(r.site, v)
                       IN  [mid |-> m, locked |-> m # 0 /\ film[m].locked]]
           y == [r EXCEPT !.at = "commits", !.read = read]
<1>1. /\ r.at = "reads" /\ UNCHANGED Writing!library /\ asked' = asked
      /\ locks' = locks /\ r.kind # "edit"
  BY DEF Writing!Reads, Writing!At, Writing!tables
<1>2. /\ Job(r, nextMid) /\ r # Writing!Idle
      /\ writer = [q \in Actor |-> writer[q]] /\ r.held \subseteq locks
      /\ \A q \in Actor \ {w} : Working(q) =>
             writer[q].held \subseteq locks /\ r.held \cap writer[q].held = {}
      /\ Writing!SourceLock(r.site) \in r.held
  BY <1>1, AtWork
<1>3. Base' /\ Spares({}) /\ nextMid' = nextMid
  BY <1>1, LibraryStays DEF FilmInv, Writing!TypeOK, Writing!library
<1>4. writer' = [writer EXCEPT ![w] = y]
  BY <1>2 DEF Writing!Reads
<1>5. \A v \in DOMAIN r.page : read[v].mid = Writing!Bound(r.site, v)
  OBVIOUS
<1> HIDE DEF read
<1>6. /\ y.at = "commits" /\ y.held = r.held /\ y.site = r.site
      /\ y.page = r.page /\ y.read = read /\ Job(y, nextMid)
  <2>1. DOMAIN r = Fields
    BY <1>2 DEF Job
  <2>2. /\ DOMAIN y = Fields /\ y.at = "commits" /\ y.kind = r.kind /\ y.site = r.site
        /\ y.page = r.page /\ y.mid = r.mid /\ y.read = read /\ y.held = r.held
    BY <2>1 DEF Fields
  <2> HIDE DEF y
  <2> QED
    BY <1>1, <1>2, <2>2, GoesOn
<1>7. PICK s, page, rd : s = y.site /\ page = y.page /\ rd = y.read
  OBVIOUS
<1>8. s \in Owner /\ DOMAIN page \subseteq Vod
  BY <1>2, <1>6, <1>7 DEF Job
<1> HIDE DEF y
<1>9. Found(s, page, rd)
  BY <1>5, <1>6, <1>7, <1>8, ReadNow
<1>10. Found(s, page, rd)'
  BY <1>3, <1>8, <1>9, FoundStays DEF FilmInv, Base
<1>11. PICK z : z = y
  OBVIOUS
<1>12. Found(z.site, z.page, z.read)'
  BY <1>7, <1>10, <1>11
<1> QED
  BY <1>1, <1>2, <1>3, <1>4, <1>6, <1>11, <1>12, OneWriter

\* Lines that stay do not age.
LEMMA SameLines == ASSUME FilmInv, lines' = lines PROVE NeverAges
<1>1. \A place \in DOMAIN lines : lines[place].time \in Nat
  <2>1. \A place \in DOMAIN lines : lines[place].time \in Writing!Time
    BY DEF FilmInv, Writing!TypeOK
  <2> QED
    BY <2>1, WritingAssumption DEF Writing!Time
<1> QED
  BY <1>1 DEF NeverAges

\* What has been read of some of the vods.
LEMMA FoundPart ==
    ASSUME NEW s, NEW page, NEW read, Found(s, page, read),
           NEW part, DOMAIN part \subseteq DOMAIN page
    PROVE  Found(s, part, read)
BY DEF Found

\* The commit of a page, less the vods that are left out.
LEMMA CommitsPageKeeps ==
    ASSUME FilmInv, NEW w \in Actor, Writing!CommitsPage(w) PROVE FilmInv' /\ NeverAges
<1> DEFINE r == writer[w]  y == [r EXCEPT !.at = "unlocks"]
<1>1. /\ r.at = "commits" /\ asked' = asked /\ locks' = locks
  BY DEF Writing!CommitsPage, Writing!At
<1>2. /\ Job(r, nextMid) /\ r # Writing!Idle
      /\ writer = [q \in Actor |-> writer[q]] /\ r.held \subseteq locks
      /\ \A q \in Actor \ {w} : Working(q) =>
             writer[q].held \subseteq locks /\ r.held \cap writer[q].held = {}
      /\ Writing!SourceLock(r.site) \in r.held
  BY <1>1, AtWork
<1>3. PICK left \in SUBSET DOMAIN r.page :
         LET page == [v \in DOMAIN r.page \ left |-> r.page[v]]
             new == Writing!Unbound(r) \ left
         IN  /\ nextMid + Writing!Cardinality(new) <= MaxMid + 1
             /\ Writing!Commit(r.site, page, r.read, new)
  BY DEF Writing!CommitsPage
<1>4. PICK s, page, read, new :
         /\ s = r.site /\ read = r.read
         /\ page = [v \in DOMAIN r.page \ left |-> r.page[v]]
         /\ new = Writing!Unbound(r) \ left
  OBVIOUS
<1>5. /\ nextMid + Writing!Cardinality(new) <= MaxMid + 1
      /\ Writing!Commit(s, page, read, new)
  BY <1>3, <1>4
<1>6. new = {v \in DOMAIN page : read[v].mid = 0}
  BY <1>4 DEF Writing!Unbound
<1>7. /\ s \in Owner /\ DOMAIN page \subseteq Vod
      /\ \A v \in DOMAIN page : page[v] \in Writing!Time
  BY <1>2, <1>4 DEF Job
<1>8. Found(s, page, read)
  <2>1. Found(s, r.page, read)
    BY <1>1, <1>4 DEF FilmInv, ReadsHold
  <2>2. DOMAIN page \subseteq DOMAIN r.page
    BY <1>4
  <2> QED
    BY <2>1, <2>2, FoundPart
<1>9. Base /\ asked' \in 0 .. MaxPages
  BY <1>1 DEF FilmInv, Base, Writing!TypeOK
<1>10. Base' /\ NeverAges /\ Spares({s})
  BY <1>5, <1>6, <1>7, <1>8, <1>9, CommitKeeps
<1>11. writer' = [writer EXCEPT ![w] = y]
  BY <1>2 DEF Writing!CommitsPage, Writing!Goes
<1>12. /\ y.at = "unlocks" /\ y.held = r.held /\ y.site = r.site
       /\ Job(y, nextMid)
  <2>1. DOMAIN r = Fields
    BY <1>2 DEF Job
  <2>2. /\ DOMAIN y = Fields /\ y.at = "unlocks" /\ y.kind = r.kind /\ y.site = r.site
        /\ y.page = r.page /\ y.mid = r.mid /\ y.read = r.read /\ y.held = r.held
    BY <2>1 DEF Fields
  <2>3. r.kind # "edit"
    BY <1>1, <1>2 DEF Job
  <2> HIDE DEF y
  <2> QED
    BY <1>1, <1>2, <2>2, <2>3, GoesOn
<1> HIDE DEF y
<1>13. Job(y, nextMid')
  BY <1>2, <1>10, <1>12, JobLater
<1>14. \A q \in Actor \ {w} : writer[q].at = "commits" => writer[q].site \notin {s}
  BY <1>1, <1>4, Alone
<1>15. FilmInv'
  BY <1>1, <1>2, <1>10, <1>11, <1>12, <1>13, <1>14, OneWriter
<1> QED
  BY <1>10, <1>15

\* One film of a page on its own, read and written in one transaction.
LEMMA IsolatesFilmKeeps ==
    ASSUME FilmInv, NEW w \in Actor, Writing!IsolatesFilm(w)
    PROVE  FilmInv' /\ NeverAges
<1> DEFINE r == writer[w]
<1>1. /\ r.at = "commits" /\ r.kind = "page" /\ asked' = asked /\ locks' = locks
  BY DEF Writing!IsolatesFilm, Writing!At
<1>2. /\ Job(r, nextMid) /\ r # Writing!Idle
      /\ writer = [q \in Actor |-> writer[q]] /\ r.held \subseteq locks
      /\ \A q \in Actor \ {w} : Working(q) =>
             writer[q].held \subseteq locks /\ r.held \cap writer[q].held = {}
      /\ Writing!SourceLock(r.site) \in r.held
  BY <1>1, AtWork
<1>3. PICK v \in DOMAIN r.page :
         LET rest == [u \in DOMAIN r.page \ {v} |-> r.page[u]]
             one == [u \in {v} |-> r.page[v]]
             now == [u \in {v} |-> [mid |-> Writing!Bound(r.site, v),
                        locked |-> Writing!Bound(r.site, v) # 0
                                   /\ film[Writing!Bound(r.site, v)].locked]]
             new == IF now[v].mid = 0 THEN {v} ELSE {}
         IN  /\ \/ /\ nextMid + Writing!Cardinality(new) <= MaxMid + 1
                   /\ Writing!Commit(r.site, one, now, new)
                \/ UNCHANGED Writing!library
             /\ writer' = [writer EXCEPT
                    ![w].page = rest,
                    ![w].at = IF rest = <<>> THEN "unlocks" ELSE "reads"]
  BY DEF Writing!IsolatesFilm
<1>4. PICK s, rest, one, now, new, place :
         /\ s = r.site
         /\ rest = [u \in DOMAIN r.page \ {v} |-> r.page[u]]
         /\ one = [u \in {v} |-> r.page[v]]
         /\ now = [u \in {v} |-> [mid |-> Writing!Bound(r.site, v),
                      locked |-> Writing!Bound(r.site, v) # 0
                                 /\ film[Writing!Bound(r.site, v)].locked]]
         /\ new = IF now[v].mid = 0 THEN {v} ELSE {}
         /\ place = IF rest = <<>> THEN "unlocks" ELSE "reads"
  OBVIOUS
<1>5. /\ \/ /\ nextMid + Writing!Cardinality(new) <= MaxMid + 1
            /\ Writing!Commit(s, one, now, new)
         \/ UNCHANGED Writing!library
      /\ writer' = [writer EXCEPT ![w].page = rest, ![w].at = place]
  BY <1>3, <1>4
<1>6. /\ s \in Owner /\ v \in Vod /\ DOMAIN one = {v}
      /\ \A u \in DOMAIN one : one[u] \in Writing!Time
      /\ DOMAIN rest \subseteq Vod /\ \A u \in DOMAIN rest : rest[u] \in Writing!Time
  BY <1>2, <1>4 DEF Job
<1>7. new = {u \in DOMAIN one : now[u].mid = 0}
  BY <1>4, <1>6
<1>8. Found(s, one, now)
  <2>1. \A u \in DOMAIN one : now[u].mid = Writing!Bound(s, u)
    BY <1>4
  <2> QED
    BY <1>6, <2>1, ReadNow
<1>9. Base /\ asked' \in 0 .. MaxPages
  BY <1>1 DEF FilmInv, Base, Writing!TypeOK
<1>10. Base' /\ NeverAges /\ Spares({s})
  <2>1. CASE UNCHANGED Writing!library
    <3>1. Base' /\ Spares({}) /\ lines' = lines
      BY <1>9, <2>1, LibraryStays DEF Writing!library
    <3>2. Spares({s})
      BY <3>1 DEF Spares
    <3> QED
      BY <3>1, <3>2, SameLines
  <2>2. CASE /\ nextMid + Writing!Cardinality(new) <= MaxMid + 1
             /\ Writing!Commit(s, one, now, new)
    <3>1. DOMAIN one \subseteq Vod
      BY <1>6
    <3> QED
      BY <1>6, <1>7, <1>8, <1>9, <2>2, <3>1, CommitKeeps
  <2> QED
    BY <1>5, <2>1, <2>2
<1> DEFINE y == [r EXCEPT !.page = rest, !.at = place]
<1>11. writer' = [writer EXCEPT ![w] = y]
  BY <1>2, <1>5
<1>12. /\ y.at \in {"reads", "unlocks"} /\ y.held = r.held /\ y.site = r.site
       /\ Job(y, nextMid)
  <2>1. DOMAIN r = Fields /\ place \in {"unlocks", "reads"}
    BY <1>2, <1>4 DEF Job
  <2>2. /\ DOMAIN y = Fields /\ y.at = place /\ y.kind = r.kind /\ y.site = r.site
        /\ y.page = rest /\ y.mid = r.mid /\ y.read = r.read /\ y.held = r.held
    BY <2>1 DEF Fields
  <2> HIDE DEF y
  <2> QED
    BY <1>1, <1>2, <1>6, <2>1, <2>2, GoesOn
<1> HIDE DEF y
<1>13. Job(y, nextMid')
  BY <1>2, <1>10, <1>12, JobLater
<1>14. \A q \in Actor \ {w} : writer[q].at = "commits" => writer[q].site \notin {s}
  BY <1>1, <1>4, Alone
<1>15. FilmInv'
  BY <1>1, <1>2, <1>10, <1>11, <1>12, <1>13, <1>14, OneWriter
<1> QED
  BY <1>10, <1>15

\* The same films with other texts; and lines typed by hand.
LEMMA Retold ==
    ASSUME FilmInv, asked' = asked, UNCHANGED <<vodMap, vodTime, nextMid, stored>>,
           DOMAIN film' = DOMAIN film,
           \A m \in DOMAIN film : film'[m] \in [owner : Owner, text : {"site", "user"},
                                                locked : BOOLEAN],
           NEW typed, typed = {} \/ \E m \in Writing!Mid, s \in Owner :
                                        typed = {<<m, s>>} /\ m < nextMid,
           DOMAIN lines' = DOMAIN lines \cup typed,
           \A place \in DOMAIN lines' :
               lines'[place] = IF place \in typed
                               THEN Writing!Lines(Writing!ByHand, 0) ELSE lines[place]
    PROVE  Base' /\ NeverAges /\ Spares({})
<1>1. /\ vodMap' = vodMap /\ vodTime' = vodTime /\ nextMid' = nextMid /\ stored' = stored
      /\ nextMid \in Nat /\ 0 \in Writing!Time
      /\ \A place \in DOMAIN lines :
             /\ lines[place] \in [vod : Vod \cup {Writing!ByHand}, time : Writing!Time]
             /\ lines[place].time \in Nat
      /\ \A v \in Vod : v # Writing!ByHand
  BY WritingAssumption DEF FilmInv, Writing!TypeOK, Writing!Time, Writing!ByHand
<1>2. \A place \in DOMAIN lines' :
         \/ place \in typed /\ lines'[place].vod = Writing!ByHand /\ lines'[place].time = 0
            /\ lines'[place] \in [vod : Vod \cup {Writing!ByHand}, time : Writing!Time]
         \/ place \in DOMAIN lines /\ lines'[place] = lines[place]
  BY <1>1 DEF Writing!Lines
<1>3. Writing!TypeOK'
  <2>1. DOMAIN lines' \subseteq Writing!Mid \X Owner
    BY DEF FilmInv, Writing!TypeOK
  <2>2. \A place \in DOMAIN lines' :
            lines'[place] \in [vod : Vod \cup {Writing!ByHand}, time : Writing!Time]
    BY <1>1, <1>2
  <2> QED
    BY <1>1, <2>1, <2>2 DEF FilmInv, Writing!TypeOK
<1>4. Mapped'
  BY <1>1 DEF FilmInv, Mapped
<1>5. StoredFirst'
  BY <1>1 DEF FilmInv, StoredFirst, First
<1>6. LinesDated'
  <2> SUFFICES ASSUME NEW m \in Writing!Mid, NEW t \in Owner, <<m, t>> \in DOMAIN lines'
               PROVE  /\ m < nextMid'
                      /\ lines'[<<m, t>>].vod = Writing!ByHand \/ m \notin DOMAIN film' =>
                            lines'[<<m, t>>].time = 0
                      /\ \A v \in Vod :
                            lines'[<<m, t>>].vod = v /\ vodMap'[t][v] = m =>
                               lines'[<<m, t>>].time <= vodTime'[t][v]
    BY DEF LinesDated
  <2>1. CASE <<m, t>> \in DOMAIN lines /\ lines'[<<m, t>>] = lines[<<m, t>>]
    BY <1>1, <2>1 DEF FilmInv, LinesDated
  <2>2. CASE /\ <<m, t>> \in typed /\ lines'[<<m, t>>].vod = Writing!ByHand
             /\ lines'[<<m, t>>].time = 0
    BY <1>1, <2>2
  <2> QED
    BY <1>2, <2>1, <2>2
<1>7. NeverAges
  <2> SUFFICES ASSUME NEW place \in DOMAIN lines, place \in DOMAIN lines',
                      lines'[place].vod = lines[place].vod
               PROVE  lines'[place].time >= lines[place].time
    BY DEF NeverAges
  <2>1. CASE place \in typed /\ lines'[place].vod = Writing!ByHand
    <3>1. PICK m \in Writing!Mid, t \in Owner : place = <<m, t>>
      BY <2>1
    <3>2. lines[<<m, t>>].time = 0
      BY <2>1, <3>1 DEF FilmInv, LinesDated
    <3>3. lines'[place].time \in Nat
      BY <1>1, <1>2, <2>1
    <3> QED
      BY <3>1, <3>2, <3>3
  <2>2. CASE lines'[place] = lines[place]
    BY <1>1, <2>2
  <2> QED
    BY <1>2, <2>1, <2>2
<1>8. Spares({})
  BY <1>1 DEF Spares
<1> QED
  BY <1>3, <1>4, <1>5, <1>6, <1>7, <1>8 DEF Base

\* An edit: its film may have been deleted since, and its lines come back.
LEMMA CommitsEditKeeps ==
    ASSUME FilmInv, NEW w \in Actor, Writing!CommitsEdit(w)
    PROVE  FilmInv' /\ NeverAges
<1> DEFINE r == writer[w]  y == [r EXCEPT !.at = "unlocks"]
<1>1. /\ r.at = "reads" /\ r.kind = "edit" /\ asked' = asked /\ locks' = locks
      /\ UNCHANGED <<vodMap, vodTime, nextMid, stored>> /\ nextMid' = nextMid
  BY DEF Writing!CommitsEdit, Writing!At
<1>2. /\ Job(r, nextMid) /\ r # Writing!Idle
      /\ writer = [q \in Actor |-> writer[q]] /\ r.held \subseteq locks
      /\ \A q \in Actor \ {w} : Working(q) =>
             writer[q].held \subseteq locks /\ r.held \cap writer[q].held = {}
      /\ Writing!SourceLock(r.site) \in r.held
  BY <1>1, AtWork
<1>3. PICK m \in Writing!Mid, s \in Owner, locked \in BOOLEAN :
         /\ m = r.mid /\ s = r.read.owner /\ locked = r.read.locked /\ m < nextMid
  BY <1>1, <1>2 DEF Job
<1>4. /\ DOMAIN film' = DOMAIN film
      /\ \A n \in DOMAIN film : film'[n] \in [owner : Owner, text : {"site", "user"},
                                              locked : BOOLEAN]
  <2>1. \A n \in DOMAIN film : film[n] \in [owner : Owner, text : {"site", "user"},
                                            locked : BOOLEAN]
    BY DEF FilmInv, Writing!TypeOK
  <2>2. film' = IF m \notin DOMAIN film THEN film
                ELSE [film EXCEPT ![m].text = "user", ![m].locked = locked]
    BY <1>3 DEF Writing!CommitsEdit
  <2> QED
    BY <2>1, <2>2
<1>5. PICK typed : /\ typed = {} \/ typed = {<<m, s>>}
                   /\ DOMAIN lines' = DOMAIN lines \cup typed
                   /\ \A place \in DOMAIN lines' :
                         lines'[place] = IF place \in typed
                                         THEN Writing!Lines(Writing!ByHand, 0)
                                         ELSE lines[place]
  <2>1. CASE lines' = lines
    <3>1. PICK none : none = {}
      OBVIOUS
    <3>2. \A place \in DOMAIN lines' : place \notin none /\ lines'[place] = lines[place]
      BY <2>1, <3>1
    <3>3. DOMAIN lines' = DOMAIN lines \cup none
      BY <2>1, <3>1
    <3> QED
      BY <3>1, <3>2, <3>3
  <2>2. CASE lines' = [place \in DOMAIN lines \cup {<<m, s>>} |->
                          IF place = <<m, s>> THEN Writing!Lines(Writing!ByHand, 0)
                          ELSE lines[place]]
    <3>1. /\ DOMAIN lines' = DOMAIN lines \cup {<<m, s>>}
          /\ \A place \in DOMAIN lines' :
                lines'[place] = IF place \in {<<m, s>>}
                                THEN Writing!Lines(Writing!ByHand, 0)
                                ELSE lines[place]
      BY <2>2
    <3> QED
      BY <3>1
  <2>3. \/ lines' = lines
        \/ lines' = [place \in DOMAIN lines \cup {<<m, s>>} |->
                        IF place = <<m, s>> THEN Writing!Lines(Writing!ByHand, 0)
                        ELSE lines[place]]
    BY <1>3 DEF Writing!CommitsEdit
  <2> QED
    BY <2>1, <2>2, <2>3
<1>6. typed = {} \/ \E n \in Writing!Mid, t \in Owner : typed = {<<n, t>>} /\ n < nextMid
  BY <1>3, <1>5
<1>7. Base' /\ NeverAges /\ Spares({})
  BY <1>1, <1>4, <1>5, <1>6, Retold
<1>8. writer' = [writer EXCEPT ![w] = y]
  BY <1>2 DEF Writing!CommitsEdit, Writing!Goes
<1>9. /\ y.at = "unlocks" /\ y.held = r.held /\ y.site = r.site
      /\ Job(y, nextMid)
  <2>1. DOMAIN r = Fields
    BY <1>2 DEF Job
  <2>2. /\ DOMAIN y = Fields /\ y.at = "unlocks" /\ y.kind = r.kind /\ y.site = r.site
        /\ y.page = r.page /\ y.mid = r.mid /\ y.read = r.read /\ y.held = r.held
    BY <2>1 DEF Fields
  <2> HIDE DEF y
  <2> QED
    BY <1>1, <1>2, <2>2, GoesOn
<1> HIDE DEF y
<1>10. FilmInv'
  BY <1>1, <1>2, <1>7, <1>8, <1>9, OneWriter
<1> QED
  BY <1>7, <1>10

\* A scrape takes no lock, and touches nothing but texts.
LEMMA ScrapesKeeps ==
    ASSUME FilmInv, NEW m \in Writing!Mid, Writing!Scrapes(m)
    PROVE  FilmInv' /\ NeverAges
<1>1. /\ UNCHANGED <<vodMap, vodTime, nextMid, stored>> /\ asked' = asked
      /\ lines' = lines /\ locks' = locks /\ writer' = writer /\ nextMid' = nextMid
      /\ vodMap' = vodMap /\ DOMAIN film' = DOMAIN film
  BY DEF Writing!Scrapes
<1>2. \A n \in DOMAIN film : film'[n] \in [owner : Owner, text : {"site", "user"},
                                           locked : BOOLEAN]
  <2>1. \A n \in DOMAIN film : film[n] \in [owner : Owner, text : {"site", "user"},
                                            locked : BOOLEAN]
    BY DEF FilmInv, Writing!TypeOK
  <2>2. film' = [film EXCEPT ![m].text = "user", ![m].locked = TRUE]
    BY DEF Writing!Scrapes
  <2> QED
    BY <2>1, <2>2
<1>3. PICK typed : typed = {}
  OBVIOUS
<1>4. /\ DOMAIN lines' = DOMAIN lines \cup typed
      /\ \A place \in DOMAIN lines' :
            lines'[place] = IF place \in typed
                            THEN Writing!Lines(Writing!ByHand, 0) ELSE lines[place]
  BY <1>1, <1>3
<1>5. Base' /\ NeverAges
  BY <1>1, <1>2, <1>3, <1>4, Retold
<1>6. Jobs' /\ LocksApart'
  BY <1>1 DEF FilmInv, Jobs, LocksApart, Working
<1>7. ReadsHold'
  BY <1>1 DEF FilmInv, ReadsHold, Found, First
<1> QED
  BY <1>5, <1>6, <1>7 DEF FilmInv, Base

\* A deletion takes no lock either: who has read the film finds its vod
\* without one, and that the film is gone.
LEMMA DeletesFilmKeeps ==
    ASSUME FilmInv, NEW m \in Writing!Mid, Writing!Deletes(m)
    PROVE  FilmInv' /\ NeverAges
<1>1. /\ locks' = locks /\ writer' = writer /\ nextMid' = nextMid /\ asked' = asked
      /\ \A n : n \in DOMAIN film' <=> n \in DOMAIN film /\ n # m
      /\ \A n \in DOMAIN film' : film'[n] = film[n]
      /\ \A place : place \in DOMAIN lines' <=> place \in DOMAIN lines /\ place[1] # m
      /\ \A place \in DOMAIN lines' : lines'[place] = lines[place]
  BY DEF Writing!Deletes, Writing!Restrict
<1>2. /\ vodMap' = [s \in Owner |-> [v \in Vod |->
                       IF vodMap[s][v] = m THEN 0 ELSE vodMap[s][v]]]
      /\ vodTime' = [s \in Owner |-> [v \in Vod |->
                        IF vodMap[s][v] = m THEN 0 ELSE vodTime[s][v]]]
      /\ stored' = [s \in Owner |-> stored[s] \ Writing!Sharing(s, m)]
  BY DEF Writing!Deletes
<1>3. m # 0 /\ m \in Nat /\ 0 \in Writing!Time /\ 0 \in 0 .. MaxMid
  BY WritingAssumption DEF Writing!Mid, Writing!Time
<1>4. \A s \in Owner : \A v \in Vod :
         \/ vodMap[s][v] = m /\ vodMap'[s][v] = 0 /\ vodTime'[s][v] = 0
         \/ vodMap[s][v] # m /\ vodMap'[s][v] = vodMap[s][v]
            /\ vodTime'[s][v] = vodTime[s][v]
  BY <1>2
<1>5. Writing!TypeOK'
  <2>1. vodMap' \in [Owner -> [Vod -> 0 .. MaxMid]]
    <3>1. \A s \in Owner : \A v \in Vod : vodMap[s][v] \in 0 .. MaxMid
      BY DEF FilmInv, Writing!TypeOK
    <3> QED
      BY <1>2, <1>3, <3>1
  <2>2. vodTime' \in [Owner -> [Vod -> Writing!Time]]
    <3>1. \A s \in Owner : \A v \in Vod : vodTime[s][v] \in Writing!Time
      BY DEF FilmInv, Writing!TypeOK
    <3> QED
      BY <1>2, <1>3, <3>1
  <2>3. stored' \in [Owner -> SUBSET Vod]
    <3>1. \A s \in Owner : stored[s] \subseteq Vod
      BY DEF FilmInv, Writing!TypeOK
    <3> QED
      BY <1>2, <3>1
  <2> QED
    BY <1>1, <2>1, <2>2, <2>3 DEF FilmInv, Writing!TypeOK
<1>6. Mapped'
  BY <1>1, <1>4 DEF FilmInv, Mapped
<1>7. \A s \in Owner : \A v \in Vod :
         vodMap[s][v] # m /\ vodMap[s][v] # 0 /\ First(s, v) => First(s, v)'
  BY <1>4 DEF First
<1>8. LinesDated'
  <2> SUFFICES ASSUME NEW n \in Writing!Mid, NEW t \in Owner, <<n, t>> \in DOMAIN lines'
               PROVE  /\ n < nextMid'
                      /\ lines'[<<n, t>>].vod = Writing!ByHand \/ n \notin DOMAIN film' =>
                            lines'[<<n, t>>].time = 0
                      /\ \A v \in Vod :
                            lines'[<<n, t>>].vod = v /\ vodMap'[t][v] = n =>
                               lines'[<<n, t>>].time <= vodTime'[t][v]
    BY DEF LinesDated
  <2>1. /\ <<n, t>> \in DOMAIN lines /\ n # m /\ n # 0
        /\ lines'[<<n, t>>] = lines[<<n, t>>]
    BY <1>1 DEF Writing!Mid
  <2>2. n \in DOMAIN film' <=> n \in DOMAIN film
    BY <1>1, <2>1
  <2>3. \A v \in Vod : vodMap'[t][v] = n =>
           vodMap[t][v] = n /\ vodTime'[t][v] = vodTime[t][v]
    BY <1>4, <2>1
  <2> QED
    BY <1>1, <2>1, <2>2, <2>3 DEF FilmInv, LinesDated
<1>9. StoredFirst'
  <2> SUFFICES ASSUME NEW s \in Owner, NEW v \in stored'[s], vodMap'[s][v] # 0
               PROVE  First(s, v)'
    BY DEF StoredFirst
  <2>1. v \in stored[s] /\ v \in Vod
    BY <1>2 DEF FilmInv, Writing!TypeOK
  <2>2. vodMap[s][v] # m /\ vodMap[s][v] # 0
    BY <1>4, <2>1
  <2> QED
    BY <1>7, <2>1, <2>2 DEF FilmInv, StoredFirst
<1>10. Jobs' /\ LocksApart'
  BY <1>1 DEF FilmInv, Jobs, LocksApart, Working
<1>11. ReadsHold'
  <2> SUFFICES ASSUME NEW w \in Actor, writer[w].at = "commits"
               PROVE  Found(writer[w].site, writer[w].page, writer[w].read)'
    BY <1>1 DEF ReadsHold
  <2>1. PICK s, page, read : /\ s = writer[w].site /\ page = writer[w].page
                             /\ read = writer[w].read
    OBVIOUS
  <2>2. s \in Owner /\ DOMAIN page \subseteq Vod /\ Found(s, page, read)
    BY <2>1 DEF FilmInv, Jobs, Job, ReadsHold, Writing!Idle
  <2>3. ASSUME NEW v \in DOMAIN page, read[v].mid # 0
        PROVE  \/ vodMap'[s][v] = 0 /\ read[v].mid \notin DOMAIN film'
               \/ vodMap'[s][v] = read[v].mid /\ First(s, v)'
    <3>1. v \in Vod
      BY <2>2
    <3>2. CASE vodMap[s][v] = 0 /\ read[v].mid \notin DOMAIN film
      BY <1>1, <1>3, <1>4, <2>2, <3>1, <3>2
    <3>3. CASE vodMap[s][v] = read[v].mid /\ First(s, v)
      BY <1>1, <1>4, <1>7, <2>2, <2>3, <3>1, <3>3
    <3> QED
      BY <2>2, <2>3, <3>2, <3>3 DEF Found
  <2>4. Found(s, page, read)'
    BY <1>1, <2>2, <2>3 DEF Found
  <2> QED
    BY <1>1, <2>1, <2>4
<1>12. NeverAges
  <2>1. \A place \in DOMAIN lines : lines[place].time \in Nat
    <3>1. \A place \in DOMAIN lines : lines[place].time \in Writing!Time
      BY DEF FilmInv, Writing!TypeOK
    <3> QED
      BY <3>1, WritingAssumption DEF Writing!Time
  <2> QED
    BY <1>1, <2>1 DEF NeverAges
<1> QED
  BY <1>5, <1>6, <1>8, <1>9, <1>10, <1>11, <1>12 DEF FilmInv

-----------------------------------------------------------------------------
(* The films: the theorems                                                 *)

\* The library the server starts with, also one from before a film stood for
\* one vod.
LEMMA FilmStarts == ASSUME Writing!Init PROVE FilmInv
<1>1. /\ locks = {} /\ asked = 0 /\ vodTime = Writing!NoRows
      /\ writer = [w \in Actor |-> Writing!Idle] /\ stored = [s \in Owner |-> {}]
  BY DEF Writing!Init
<1>2. /\ 0 \in Writing!Time /\ 0 \in 0 .. MaxMid /\ 1 \in Writing!Mid /\ 1 \in 0 .. MaxMid
      /\ 1 \in 1 .. MaxMid + 1 /\ 2 \in 1 .. MaxMid + 1 /\ 0 \in 0 .. MaxPages
      /\ Writing!ByHand \notin Vod /\ Writing!ByHand = 0 /\ 0 < 1 /\ 1 < 2
  BY WritingAssumption DEF Writing!Time, Writing!Mid, Writing!ByHand
<1>3. /\ vodTime \in [Owner -> [Vod -> Writing!Time]]
      /\ \A s \in Owner : \A v \in Vod : vodTime[s][v] = 0
      /\ stored \in [Owner -> SUBSET Vod] /\ asked \in 0 .. MaxPages
  BY <1>1, <1>2 DEF Writing!NoRows
<1>4. Writing!TypeOK /\ Mapped /\ LinesDated
  <2>1. CASE film = <<>> /\ lines = <<>> /\ vodMap = Writing!NoRows /\ nextMid = 1
    <3>1. DOMAIN film = {} /\ DOMAIN lines = {}
      BY <2>1
    <3>2. /\ vodMap \in [Owner -> [Vod -> 0 .. MaxMid]]
          /\ \A s \in Owner : \A v \in Vod : vodMap[s][v] = 0
      BY <1>2, <2>1 DEF Writing!NoRows
    <3>3. Writing!TypeOK
      BY <1>2, <1>3, <2>1, <3>1, <3>2 DEF Writing!TypeOK
    <3>4. Mapped
      BY <1>3, <3>1, <3>2 DEF Mapped
    <3>5. LinesDated
      BY <3>1 DEF LinesDated
    <3> QED
      BY <3>3, <3>4, <3>5
  <2>2. CASE \E s, owner \in Owner, v \in Vod :
               /\ film = [m \in {1} |-> Writing!FilmOf(owner)]
               /\ lines = [place \in {<<1, s>>} |-> Writing!Lines(v, 0)]
               /\ vodMap = [Writing!NoRows EXCEPT ![s] = [w \in Vod |-> 1]]
               /\ nextMid = 2
    <3>1. PICK s, owner \in Owner, v \in Vod :
               /\ film = [m \in {1} |-> Writing!FilmOf(owner)]
               /\ lines = [place \in {<<1, s>>} |-> Writing!Lines(v, 0)]
               /\ vodMap = [Writing!NoRows EXCEPT ![s] = [w \in Vod |-> 1]]
               /\ nextMid = 2
      BY <2>2
    <3>2. /\ DOMAIN film = {1} /\ DOMAIN lines = {<<1, s>>}
          /\ film[1] \in [owner : Owner, text : {"site", "user"}, locked : BOOLEAN]
          /\ lines[<<1, s>>] \in [vod : Vod \cup {Writing!ByHand}, time : Writing!Time]
          /\ lines[<<1, s>>].time = 0
      BY <1>2, <3>1 DEF Writing!FilmOf, Writing!Lines
    <3>3. /\ vodMap \in [Owner -> [Vod -> 0 .. MaxMid]]
          /\ \A t \in Owner : \A w \in Vod : vodMap[t][w] \in {0, 1}
      BY <1>2, <3>1 DEF Writing!NoRows
    <3>4. Writing!TypeOK
      BY <1>2, <1>3, <3>1, <3>2, <3>3 DEF Writing!TypeOK
    <3>5. Mapped
      BY <1>2, <1>3, <3>1, <3>2, <3>3 DEF Mapped
    <3>6. LinesDated
      BY <1>2, <1>3, <3>1, <3>2 DEF LinesDated
    <3> QED
      BY <3>4, <3>5, <3>6
  <2> QED
    BY <2>1, <2>2 DEF Writing!Init
<1>5. StoredFirst
  BY <1>1 DEF StoredFirst
<1>6. \A w \in Actor : writer[w] = Writing!Idle /\ writer[w].at = "idle"
  BY <1>1 DEF Writing!Idle
<1>7. Jobs /\ LocksApart /\ ReadsHold
  BY <1>1, <1>6 DEF Jobs, LocksApart, ReadsHold, Working
<1> QED
  BY <1>4, <1>5, <1>7 DEF FilmInv

\* Every step, and every stutter.
LEMMA FilmSteps ==
    ASSUME FilmInv, [Writing!Next]_(Writing!vars)
    PROVE  FilmInv' /\ [NeverAges]_(Writing!vars)
<1>1. CASE UNCHANGED Writing!vars
  <2>1. /\ film' = film /\ lines' = lines /\ vodMap' = vodMap /\ vodTime' = vodTime
        /\ nextMid' = nextMid /\ locks' = locks /\ writer' = writer /\ asked' = asked
        /\ stored' = stored
    BY <1>1 DEF Writing!vars
  <2>2. UNCHANGED Writing!library /\ asked' \in 0 .. MaxPages
    BY <2>1 DEF Writing!library, FilmInv, Writing!TypeOK
  <2>3. Base'
    BY <2>2, LibraryStays
  <2>4. Jobs' /\ LocksApart' /\ ReadsHold'
    BY <2>1 DEF FilmInv, Jobs, LocksApart, ReadsHold, Working, Found, First
  <2> QED
    BY <1>1, <2>3, <2>4 DEF FilmInv, Base
<1>2. ASSUME NEW w \in Actor,
             \/ Writing!Asked(w) \/ Writing!Takes(w) \/ Writing!Reads(w)
             \/ Writing!FailsPage(w) \/ Writing!Unlocks(w)
      PROVE  FilmInv' /\ NeverAges
  <2>1. lines' = lines
    BY <1>2 DEF Writing!Asked, Writing!Starts, Writing!StartsEdit, Writing!Takes,
                Writing!LocksKey, Writing!LocksSource, Writing!LocksFilm, Writing!Reads,
                Writing!FailsPage, Writing!Unlocks, Writing!tables, Writing!library
  <2>2. FilmInv'
    BY <1>2, StartsKeeps, LocksKeyKeeps, LocksSourceKeeps, LocksFilmKeeps, ReadsKeeps,
       FailsPageKeeps, UnlocksKeeps DEF Writing!Takes
  <2> QED
    BY <2>1, <2>2, SameLines
<1>3. ASSUME NEW w \in Actor,
             Writing!CommitsPage(w) \/ Writing!IsolatesFilm(w) \/ Writing!CommitsEdit(w)
      PROVE  FilmInv' /\ NeverAges
  BY <1>3, CommitsPageKeeps, IsolatesFilmKeeps, CommitsEditKeeps
<1>4. ASSUME NEW m \in Writing!Mid, Writing!Scrapes(m) \/ Writing!Deletes(m)
      PROVE  FilmInv' /\ NeverAges
  BY <1>4, ScrapesKeeps, DeletesFilmKeeps
<1> QED
  BY <1>1, <1>2, <1>3, <1>4 DEF Writing!Next, Writing!Writes

\* The inductive invariant of the film writer holds for any sources and vods,
\* any number of goroutines, films, times and requests.
THEOREM FilmsHold == Writing!Spec => []FilmInv
<1>1. Writing!Init => FilmInv
  BY FilmStarts
<1>2. FilmInv /\ [Writing!Next]_(Writing!vars) => FilmInv'
  BY FilmSteps
<1> QED
  BY <1>1, <1>2, PTL DEF Writing!Spec

\* Two vods of a source that have been written stand for two films, whatever
\* was committed, edited and deleted between a page's reading and its commit
\* (writer/vod_film.go): the lock of the source keeps the other pages out.
THEOREM OneVodPerFilmHolds == Writing!Spec => []OneVodPerFilm
<1>1. FilmInv => OneVodPerFilm
  <2> SUFFICES ASSUME FilmInv PROVE Writing!OneVodPerFilm
    BY DEF OneVodPerFilm, FilmInv
  <2> SUFFICES ASSUME NEW s \in Owner, NEW v \in stored[s], NEW u \in stored[s],
                      vodMap[s][v] # 0, vodMap[s][v] = vodMap[s][u]
               PROVE  v = u
    BY DEF Writing!OneVodPerFilm
  <2>1. v \in Vod /\ u \in Vod /\ v \in Nat /\ u \in Nat
    BY WritingAssumption DEF FilmInv, Writing!TypeOK
  <2>2. v <= u /\ u <= v
    BY <2>1 DEF FilmInv, StoredFirst, First
  <2> QED
    BY <2>1, <2>2
<1> QED
  BY <1>1, FilmsHold, PTL

\* No step replaces the lines of a vod by older lines of the same vod
\* (claimSourceVodTimeTx): a stored time is never below that of the lines it
\* came with, and without a mapping row nothing dated can win.
THEOREM LinesNeverAgeHolds == Writing!Spec => LinesNeverAge
<1>1. FilmInv /\ [Writing!Next]_(Writing!vars) => [NeverAges]_(Writing!vars)
  BY FilmSteps
<1> QED
  BY <1>1, FilmsHold, PTL
     DEF Writing!Spec, LinesNeverAge, Writing!LinesNeverAge, NeverAges

-----------------------------------------------------------------------------
(* The figures: sums over the days                                         *)

\* Of any numbers there is a least.
LEMMA Least ==
    ASSUME NEW T, T \subseteq Nat, T # {}
    PROVE  \E n \in T : \A m \in T : n <= m
<1> DEFINE R == OpToRel(<, Nat)
<1>1. IsWellFoundedOn(R, Nat)
  BY NatLessThanWellFounded
<1>2. \A x, y \in Nat : <<x, y>> \in R <=> x < y
  BY DEF OpToRel
<1> HIDE DEF R
<1>3. \E n \in T : \A m \in T : ~(<<m, n>> \in R)
  <2>1. T \subseteq Nat /\ T # {}
    OBVIOUS
  <2> QED
    BY <1>1, <2>1, WFMin, Zenon
<1>4. PICK n \in T : \A m \in T : ~(<<m, n>> \in R)
  BY <1>3
<1>5. ASSUME NEW m \in T PROVE n <= m
  <2>1. m \in Nat /\ n \in Nat
    OBVIOUS
  <2>2. ~(m < n)
    BY <1>2, <1>4, <2>1
  <2> QED
    BY <2>1, <2>2
<1> QED
  BY <1>5

\* What is false of some day is false of a first one.
LEMMA FirstOf ==
    ASSUME NEW k \in Nat, NEW T, T \subseteq 0 .. k, T # {}
    PROVE  \E n \in T : \A m \in 0 .. k : m < n => m \notin T
<1>1. PICK n \in T : \A m \in T : n <= m
  <2>1. T \subseteq Nat
    OBVIOUS
  <2> QED
    BY <2>1, Least
<1> QED
  BY <1>1

\* s holds the sums of f up to each day.
SumsTo(f, k, s) == s = [n \in 0 .. k |-> IF n = 0 THEN 0 ELSE s[n - 1] + f[n]]

\* The partial sums there are.
\* The partial sums that SumOver of AccessRollup chooses exist, so that it can
\* be unfolded.
LEMMA SumsExist ==
    ASSUME NEW f \in [Visits!Day -> Int]
    PROVE  \A k \in 0 .. LastDay : \E s \in [0 .. k -> Int] : SumsTo(f, k, s)
<1> SUFFICES ASSUME NEW k \in 0 .. LastDay, ~\E s \in [0 .. k -> Int] : SumsTo(f, k, s)
             PROVE  FALSE
  OBVIOUS
<1> DEFINE Bad == {j \in 0 .. LastDay : ~\E s \in [0 .. j -> Int] : SumsTo(f, j, s)}
<1>1. Bad \subseteq 0 .. LastDay /\ Bad # {}
  <2>1. k \in Bad
    OBVIOUS
  <2> QED
    BY <2>1
<1>2. PICK j \in Bad : \A m \in 0 .. LastDay : m < j => m \notin Bad
  <2> HIDE DEF Bad
  <2> QED
    BY <1>1, FirstOf, AccessAssumption
<1>3. j # 0
  <2>1. SumsTo(f, 0, [n \in 0 .. 0 |-> 0])
    BY DEF SumsTo
  <2>2. [n \in 0 .. 0 |-> 0] \in [0 .. 0 -> Int]
    OBVIOUS
  <2> QED
    BY <2>1, <2>2
<1>4. PICK s \in [0 .. j - 1 -> Int] : SumsTo(f, j - 1, s)
  BY <1>2, <1>3, AccessAssumption
<1> DEFINE t == [n \in 0 .. j |-> IF n = j THEN s[j - 1] + f[j] ELSE s[n]]
<1>5. j \in Visits!Day /\ j \in Nat /\ f[j] \in Int /\ j - 1 \in 0 .. j - 1
  BY <1>3, AccessAssumption DEF Visits!Day
<1>6. /\ \A n \in 0 .. j - 1 : s[n] \in Int
      /\ \A n \in 0 .. j - 1 : s[n] = IF n = 0 THEN 0 ELSE s[n - 1] + f[n]
  BY <1>4 DEF SumsTo
<1>7. t \in [0 .. j -> Int]
  <2>1. \A n \in 0 .. j : (IF n = j THEN s[j - 1] + f[j] ELSE s[n]) \in Int
    BY <1>5, <1>6
  <2> QED
    BY <2>1
<1>8. t[j] = s[j - 1] + f[j] /\ \A n \in 0 .. j - 1 : t[n] = s[n]
  BY <1>5
<1>9. \A n \in 0 .. j : t[n] = IF n = 0 THEN 0 ELSE t[n - 1] + f[n]
  <2> HIDE DEF t
  <2> SUFFICES ASSUME NEW n \in 0 .. j PROVE t[n] = IF n = 0 THEN 0 ELSE t[n - 1] + f[n]
    OBVIOUS
  <2>1. CASE n = j
    BY <1>3, <1>5, <1>8, <2>1
  <2>2. CASE n # j
    <3>1. n \in 0 .. j - 1 /\ (n # 0 => n - 1 \in 0 .. j - 1)
      BY <1>5, <2>2
    <3> QED
      BY <1>6, <1>8, <3>1
  <2> QED
    BY <2>1, <2>2
<1>10. SumsTo(f, j, t)
  <2>1. t = [n \in 0 .. j |-> t[n]]
    OBVIOUS
  <2> HIDE DEF t
  <2> QED
    BY <1>9, <2>1 DEF SumsTo
<1> QED
  BY <1>7, <1>10

\* The sum is the last of the partial sums.
LEMMA SumIs ==
    ASSUME NEW f \in [Visits!Day -> Int]
    PROVE  \E s : /\ Visits!SumOver(f) = s[LastDay] /\ s[0] = 0
                  /\ \A n \in 0 .. LastDay : s[n] \in Int
                  /\ \A n \in Visits!Day :
                        n - 1 \in 0 .. LastDay /\ s[n] = s[n - 1] + f[n]
<1> DEFINE S == CHOOSE s : s = [n \in 0 .. LastDay |->
                                  IF n = 0 THEN 0 ELSE s[n - 1] + f[n]]
<1>1. PICK r \in [0 .. LastDay -> Int] : SumsTo(f, LastDay, r)
  <2>1. LastDay \in 0 .. LastDay
    BY AccessAssumption
  <2> QED
    BY <2>1, SumsExist
<1>2. SumsTo(f, LastDay, S)
  BY <1>1 DEF SumsTo
<1>3. Visits!SumOver(f) = S[LastDay]
  BY DEF Visits!SumOver
<1> HIDE DEF S
<1>4. S[0] = 0 /\ \A n \in Visits!Day : n - 1 \in 0 .. LastDay /\ S[n] = S[n - 1] + f[n]
  BY <1>2, AccessAssumption DEF SumsTo, Visits!Day
<1>5. \A n \in 0 .. LastDay : S[n] \in Int
  <2> SUFFICES ASSUME NEW n \in 0 .. LastDay, S[n] \notin Int PROVE FALSE
    OBVIOUS
  <2> DEFINE Bad == {i \in 0 .. LastDay : S[i] \notin Int}
  <2>1. Bad \subseteq 0 .. LastDay /\ Bad # {}
    OBVIOUS
  <2> HIDE DEF Bad
  <2>2. PICK i \in Bad : \A m \in 0 .. LastDay : m < i => m \notin Bad
    BY <2>1, FirstOf, AccessAssumption
  <2> USE DEF Bad
  <2>3. i # 0 /\ i \in Visits!Day /\ i - 1 \in 0 .. LastDay /\ i - 1 < i
    BY <1>4, AccessAssumption DEF Visits!Day
  <2>4. S[i - 1] \in Int /\ f[i] \in Int
    BY <2>2, <2>3
  <2> QED
    BY <1>4, <2>3, <2>4
<1> QED
  BY <1>3, <1>4, <1>5

\* The sum of two counts, day by day, is the sum of their sums.
LEMMA SumAdds ==
    ASSUME NEW f \in [Visits!Day -> Int], NEW g \in [Visits!Day -> Int],
           NEW h \in [Visits!Day -> Int], \A d \in Visits!Day : f[d] = g[d] + h[d]
    PROVE  Visits!SumOver(f) = Visits!SumOver(g) + Visits!SumOver(h)
<1>1. PICK r : /\ Visits!SumOver(f) = r[LastDay] /\ r[0] = 0
               /\ \A n \in 0 .. LastDay : r[n] \in Int
               /\ \A n \in Visits!Day : n - 1 \in 0 .. LastDay /\ r[n] = r[n - 1] + f[n]
  BY SumIs
<1>2. PICK s : /\ Visits!SumOver(g) = s[LastDay] /\ s[0] = 0
               /\ \A n \in 0 .. LastDay : s[n] \in Int
               /\ \A n \in Visits!Day : n - 1 \in 0 .. LastDay /\ s[n] = s[n - 1] + g[n]
  BY SumIs
<1>3. PICK t : /\ Visits!SumOver(h) = t[LastDay] /\ t[0] = 0
               /\ \A n \in 0 .. LastDay : t[n] \in Int
               /\ \A n \in Visits!Day : n - 1 \in 0 .. LastDay /\ t[n] = t[n - 1] + h[n]
  BY SumIs
<1>4. \A n \in 0 .. LastDay : r[n] = s[n] + t[n]
  <2> SUFFICES ASSUME NEW n \in 0 .. LastDay, r[n] # s[n] + t[n] PROVE FALSE
    OBVIOUS
  <2> DEFINE Bad == {i \in 0 .. LastDay : r[i] # s[i] + t[i]}
  <2>1. Bad \subseteq 0 .. LastDay /\ Bad # {}
    OBVIOUS
  <2> HIDE DEF Bad
  <2>2. PICK i \in Bad : \A m \in 0 .. LastDay : m < i => m \notin Bad
    BY <2>1, FirstOf, AccessAssumption
  <2> USE DEF Bad
  <2>0. i # 0
    BY <1>1, <1>2, <1>3
  <2>3. i \in Visits!Day /\ i - 1 \in 0 .. LastDay /\ i - 1 < i
    BY <1>1, <2>0, AccessAssumption DEF Visits!Day
  <2>4. r[i - 1] = s[i - 1] + t[i - 1]
    BY <2>2, <2>3
  <2>5. /\ s[i - 1] \in Int /\ t[i - 1] \in Int /\ g[i] \in Int /\ h[i] \in Int
        /\ r[i] = r[i - 1] + f[i] /\ s[i] = s[i - 1] + g[i] /\ t[i] = t[i - 1] + h[i]
        /\ f[i] = g[i] + h[i]
    BY <1>1, <1>2, <1>3, <2>3
  <2> QED
    BY <2>4, <2>5
<1> QED
  BY <1>1, <1>2, <1>3, <1>4, AccessAssumption

\* The sum of one day's count; of none with k = 0.
LEMMA SumOne ==
    ASSUME NEW k \in Int, NEW d \in Visits!Day
    PROVE  Visits!SumOver([e \in Visits!Day |-> IF e = d THEN k ELSE 0]) = k
<1> DEFINE f == [e \in Visits!Day |-> IF e = d THEN k ELSE 0]
<1>1. f \in [Visits!Day -> Int] /\ \A e \in Visits!Day : f[e] = IF e = d THEN k ELSE 0
  OBVIOUS
<1> HIDE DEF f
<1>2. PICK s : /\ Visits!SumOver(f) = s[LastDay] /\ s[0] = 0
               /\ \A n \in 0 .. LastDay : s[n] \in Int
               /\ \A n \in Visits!Day : n - 1 \in 0 .. LastDay /\ s[n] = s[n - 1] + f[n]
  BY <1>1, SumIs
<1>3. \A n \in 0 .. LastDay : s[n] = IF n < d THEN 0 ELSE k
  <2> SUFFICES ASSUME NEW n \in 0 .. LastDay, s[n] # IF n < d THEN 0 ELSE k PROVE FALSE
    OBVIOUS
  <2> DEFINE Bad == {i \in 0 .. LastDay : s[i] # IF i < d THEN 0 ELSE k}
  <2>1. Bad \subseteq 0 .. LastDay /\ Bad # {}
    OBVIOUS
  <2> HIDE DEF Bad
  <2>2. PICK i \in Bad : \A m \in 0 .. LastDay : m < i => m \notin Bad
    BY <2>1, FirstOf, AccessAssumption
  <2> USE DEF Bad
  <2>3. i # 0 /\ i \in Visits!Day /\ i - 1 \in 0 .. LastDay /\ i - 1 < i
    BY <1>2, AccessAssumption DEF Visits!Day
  <2>4. s[i - 1] = IF i - 1 < d THEN 0 ELSE k
    BY <2>2, <2>3
  <2>5. s[i] = s[i - 1] + IF i = d THEN k ELSE 0
    BY <1>1, <1>2, <2>3
  <2> QED
    BY <2>3, <2>4, <2>5, AccessAssumption DEF Visits!Day
<1>4. Visits!SumOver(f) = k
  BY <1>2, <1>3, AccessAssumption DEF Visits!Day
<1> QED
  BY <1>4 DEF f

\* No sum of numbers is negative.
LEMMA SumNat ==
    ASSUME NEW f \in [Visits!Day -> Nat]
    PROVE  Visits!SumOver(f) \in Nat
<1>1. f \in [Visits!Day -> Int]
  OBVIOUS
<1>2. PICK s : /\ Visits!SumOver(f) = s[LastDay] /\ s[0] = 0
               /\ \A n \in 0 .. LastDay : s[n] \in Int
               /\ \A n \in Visits!Day : n - 1 \in 0 .. LastDay /\ s[n] = s[n - 1] + f[n]
  BY <1>1, SumIs
<1>3. \A n \in 0 .. LastDay : s[n] >= 0
  <2> SUFFICES ASSUME NEW n \in 0 .. LastDay, ~(s[n] >= 0) PROVE FALSE
    OBVIOUS
  <2> DEFINE Bad == {i \in 0 .. LastDay : ~(s[i] >= 0)}
  <2>1. Bad \subseteq 0 .. LastDay /\ Bad # {}
    OBVIOUS
  <2> HIDE DEF Bad
  <2>2. PICK i \in Bad : \A m \in 0 .. LastDay : m < i => m \notin Bad
    BY <2>1, FirstOf, AccessAssumption
  <2> USE DEF Bad
  <2>3. i # 0 /\ i \in Visits!Day /\ i - 1 \in 0 .. LastDay /\ i - 1 < i
    BY <1>2, AccessAssumption DEF Visits!Day
  <2>4. s[i - 1] >= 0 /\ s[i - 1] \in Int /\ f[i] \in Nat /\ s[i] = s[i - 1] + f[i]
    BY <1>2, <2>2, <2>3
  <2> QED
    BY <2>4
<1> QED
  BY <1>2, <1>3, AccessAssumption

-----------------------------------------------------------------------------
(* The figures: the inductive invariant                                    *)

\* What MySQL and a snapshot have of a day.
Figure == [pv : Nat, dropped : Nat]

\* The values of the variables.
FiguresTyped ==
    /\ today \in Visits!Day /\ early \in BOOLEAN
    /\ eventCh \in Seq(Visits!Day) /\ Len(eventCh) <= Room
    /\ unsynced \in Nat
    /\ worker = Visits!Nothing \/ worker \in [day : Visits!Day, taken : Nat]
    /\ pv \in [Visits!Day -> Nat] /\ lostEvents \in [Visits!Day -> Nat]
    /\ written \in [Visits!Day -> Nat] /\ closed \in [Visits!Day -> Nat]
    /\ row \in [Visits!Day -> Figure]
    /\ watermark \in 0 .. today - 1

\* rollupMu; a day is archived above the watermark, or is its last once more.
RollTyped ==
    roll = Visits!Idle \/
    /\ roll.at \in {"snapshot", "persist", "save"} /\ clear = Visits!Idle
    /\ roll.day \in Visits!Day /\ roll.last \in Visits!Day
    /\ roll.day <= roll.last /\ roll.last < today
    /\ roll.day > watermark \/ (roll.day = watermark /\ roll.day = roll.last)
    /\ roll.at = "persist" => roll.stats \in Figure
\* rollupMu again, from the side of ClearAccessData.
ClearTyped ==
    clear = Visits!Idle \/
    /\ clear \in [at : {"scan", "del", "rows"}, keep : Nat,
                  days : SUBSET Visits!Day, passes : {1, 2}]
    /\ roll = Visits!Idle

\* Every dropped event is with the collector, in a pipeline or in Redis.
DropsAdd == drops = unsynced + worker.taken + Visits!SumOver(lostEvents)

\* Nothing is in Redis, in MySQL, or on the way there that was not counted
\* since the last deletion.
CountedOnce ==
    /\ \A d \in Visits!Day : pv[d] <= written[d] /\ row[d].pv <= written[d]
    /\ roll.at = "persist" => roll.stats.pv <= written[roll.day]

\* Where the figures of a day that is over are: in MySQL up to the watermark,
\* and up to any day that is there; in Redis behind that.
InMySQL(d) == closed[d] <= row[d].pv
InRedis(d) == closed[d] <= pv[d]
Behind(d) == IF watermark # 0 THEN d > watermark
             ELSE \A e \in Visits!Archived : e < d
FiguresKept ==
    /\ \A e \in Visits!Archived : e < today
    /\ \A d \in Visits!Day : /\ d <= watermark => InMySQL(d)
                             /\ Behind(d) \/ d >= today - 1 => InRedis(d)
    /\ \A e \in Visits!Archived : \A d \in Visits!Day : d <= e => InMySQL(d)
Rolls ==
    roll # Visits!Idle =>
        /\ \A d \in Visits!Day : /\ d < roll.day => InMySQL(d)
                                 /\ d > roll.day => InRedis(d)
        /\ roll.at = "snapshot" => InRedis(roll.day)
        /\ roll.at = "persist" => closed[roll.day] <= roll.stats.pv
        /\ roll.at = "save" => InMySQL(roll.day)

\* The invariant.
AccessInv == /\ FiguresTyped /\ RollTyped /\ ClearTyped /\ DropsAdd /\ CountedOnce
             /\ FiguresKept /\ Rolls

-----------------------------------------------------------------------------
(* The figures: what counting and deleting do                              *)

\* A deletion in Redis (access/cleanup.go) takes from the history of drops what it
\* takes from the days.
LEMMA Deleted ==
    ASSUME AccessInv, NEW days \in SUBSET Visits!Day, Visits!DeletesDays(days)
    PROVE  /\ pv' \in [Visits!Day -> Nat] /\ lostEvents' \in [Visits!Day -> Nat]
           /\ \A d \in Visits!Day : pv'[d] = IF d \in days THEN 0 ELSE pv[d]
           /\ drops' = unsynced + worker.taken + Visits!SumOver(lostEvents')
<1> DEFINE gone == [d \in Visits!Day |-> IF d \in days THEN lostEvents[d] ELSE 0]
<1>1. lostEvents \in [Visits!Day -> Nat] /\ pv \in [Visits!Day -> Nat]
  BY DEF AccessInv, FiguresTyped
<1>2. /\ lostEvents' = [d \in Visits!Day |-> IF d \in days THEN 0 ELSE lostEvents[d]]
      /\ pv' = [d \in Visits!Day |-> IF d \in days THEN 0 ELSE pv[d]]
      /\ drops' = drops - Visits!SumOver(gone)
  BY DEF Visits!DeletesDays, Visits!DropsOf
<1>3. pv' \in [Visits!Day -> Nat] /\ lostEvents' \in [Visits!Day -> Nat]
      /\ gone \in [Visits!Day -> Nat]
  BY <1>1, <1>2
<1>4. \A d \in Visits!Day : lostEvents[d] = lostEvents'[d] + gone[d]
  BY <1>1, <1>2
<1> HIDE DEF gone
<1>5. /\ lostEvents \in [Visits!Day -> Int] /\ lostEvents' \in [Visits!Day -> Int]
      /\ gone \in [Visits!Day -> Int]
  BY <1>1, <1>3
<1>6. Visits!SumOver(lostEvents) = Visits!SumOver(lostEvents') + Visits!SumOver(gone)
  BY <1>4, <1>5, SumAdds
<1>7. Visits!SumOver(lostEvents') \in Nat /\ Visits!SumOver(gone) \in Nat
  BY <1>3, SumNat
<1>8. drops = unsynced + worker.taken + Visits!SumOver(lostEvents)
      /\ unsynced \in Nat /\ worker.taken \in Nat
  BY DEF AccessInv, DropsAdd, FiguresTyped, Visits!Nothing
<1>9. drops' = unsynced + worker.taken + Visits!SumOver(lostEvents')
  BY <1>2, <1>6, <1>7, <1>8
<1> QED
  BY <1>2, <1>3, <1>9

\* An executed pipeline adds what it carries to its event's day.
LEMMA CountedAdds ==
    ASSUME AccessInv, worker # Visits!Nothing, Visits!Counted
    PROVE  /\ pv' \in [Visits!Day -> Nat] /\ lostEvents' \in [Visits!Day -> Nat]
           /\ written' \in [Visits!Day -> Nat]
           /\ \A d \in Visits!Day : /\ pv'[d] >= pv[d] /\ written'[d] >= written[d]
                                    /\ pv'[d] <= written'[d]
           /\ Visits!SumOver(lostEvents') = Visits!SumOver(lostEvents) + worker.taken
           /\ Visits!SumOver(lostEvents) \in Nat
<1>1. PICK d \in Visits!Day, k \in Nat : worker.day = d /\ worker.taken = k
  BY DEF AccessInv, FiguresTyped
<1>2. /\ lostEvents \in [Visits!Day -> Nat] /\ pv \in [Visits!Day -> Nat]
      /\ written \in [Visits!Day -> Nat]
      /\ \A e \in Visits!Day : pv[e] <= written[e]
  BY DEF AccessInv, FiguresTyped, CountedOnce
<1>3. /\ lostEvents' = [lostEvents EXCEPT ![d] = @ + k]
      /\ pv' = [pv EXCEPT ![d] = @ + 1] /\ written' = [written EXCEPT ![d] = @ + 1]
  BY <1>1 DEF Visits!Counted
<1>4. /\ pv' \in [Visits!Day -> Nat] /\ lostEvents' \in [Visits!Day -> Nat]
      /\ written' \in [Visits!Day -> Nat]
      /\ \A e \in Visits!Day : /\ pv'[e] >= pv[e] /\ written'[e] >= written[e]
                               /\ pv'[e] <= written'[e]
  BY <1>2, <1>3
<1> DEFINE one == [e \in Visits!Day |-> IF e = d THEN k ELSE 0]
<1>5. /\ one \in [Visits!Day -> Int]
      /\ \A e \in Visits!Day : lostEvents'[e] = lostEvents[e] + one[e]
  BY <1>2, <1>3
<1>6. Visits!SumOver(one) = k
  BY SumOne
<1> HIDE DEF one
<1>7. lostEvents \in [Visits!Day -> Int] /\ lostEvents' \in [Visits!Day -> Int]
  BY <1>2, <1>4
<1>8. Visits!SumOver(lostEvents') = Visits!SumOver(lostEvents) + Visits!SumOver(one)
  BY <1>5, <1>7, SumAdds
<1> QED
  BY <1>1, <1>2, <1>4, <1>6, <1>8, SumNat

\* Redis only gains what is not given up, and the archive stays.
LEMMA ArchiveStays ==
    ASSUME AccessInv, FiguresTyped', row' = row, watermark' = watermark,
           today' = today, roll' = roll \/ roll' = Visits!Idle,
           \A d \in Visits!Day : /\ closed'[d] <= closed[d]
                                 /\ closed'[d] = 0 \/ pv'[d] >= pv[d]
    PROVE  FiguresKept' /\ Rolls'
<1>1. \A d \in Visits!Day : /\ InMySQL(d) => InMySQL(d)'
                            /\ InRedis(d) => InRedis(d)'
  <2> SUFFICES ASSUME NEW d \in Visits!Day
               PROVE  /\ InMySQL(d) => InMySQL(d)'
                      /\ InRedis(d) => InRedis(d)'
    OBVIOUS
  <2>1. /\ closed[d] \in Nat /\ closed'[d] \in Nat /\ pv[d] \in Nat /\ pv'[d] \in Nat
        /\ row[d].pv \in Nat /\ row'[d] = row[d]
    BY DEF AccessInv, FiguresTyped, Figure
  <2> QED
    BY <2>1 DEF InMySQL, InRedis
<1>2. Visits!Archived' = Visits!Archived
  BY DEF Visits!Archived
<1>3. \A d \in Visits!Day : Behind(d)' <=> Behind(d)
  BY <1>2 DEF Behind
<1>4. FiguresKept'
  BY <1>1, <1>2, <1>3 DEF AccessInv, FiguresKept
<1>5. Rolls'
  <2>1. CASE roll' = Visits!Idle
    BY <2>1 DEF Rolls
  <2>2. CASE roll' = roll /\ roll # Visits!Idle
    <3>1. roll.day \in Visits!Day
      BY <2>2 DEF AccessInv, RollTyped
    <3>2. PICK k \in Visits!Day : k = roll.day
      BY <3>1
    <3>3. /\ roll.at = "snapshot" => InRedis(k)'
          /\ roll.at = "persist" => closed'[k] <= roll.stats.pv
          /\ roll.at = "save" => InMySQL(k)'
      <4>1. /\ closed[k] \in Nat /\ closed'[k] \in Nat /\ closed'[k] <= closed[k]
            /\ roll.at = "persist" => /\ roll.stats.pv \in Nat
                                      /\ closed[k] <= roll.stats.pv
        BY <2>2, <3>2 DEF AccessInv, FiguresTyped, RollTyped, Figure, Rolls
      <4>2. /\ roll.at = "snapshot" => InRedis(k)
            /\ roll.at = "save" => InMySQL(k)
        BY <2>2, <3>2 DEF AccessInv, Rolls, InRedis, InMySQL
      <4> QED
        BY <1>1, <4>1, <4>2
    <3>4. \A d \in Visits!Day : /\ d < k => InMySQL(d)'
                                /\ d > k => InRedis(d)'
      BY <1>1, <2>2, <3>2 DEF AccessInv, Rolls
    <3> QED
      BY <2>2, <3>2, <3>3, <3>4 DEF Rolls, InRedis, InMySQL
  <2> QED
    BY <2>1, <2>2
<1> QED
  BY <1>4, <1>5

\* While nothing is written into MySQL, counting keeps CountedOnce.
LEMMA CountsStay ==
    ASSUME AccessInv, FiguresTyped', row' = row, roll' = roll \/ roll' = Visits!Idle,
           \A d \in Visits!Day : pv'[d] <= written'[d] /\ written[d] <= written'[d]
    PROVE  CountedOnce'
<1>1. \A d \in Visits!Day : pv'[d] <= written'[d] /\ row'[d].pv <= written'[d]
  <2> SUFFICES ASSUME NEW d \in Visits!Day PROVE row[d].pv <= written'[d]
    OBVIOUS
  <2>1. row[d].pv \in Nat /\ written[d] \in Nat /\ written'[d] \in Nat
    BY DEF AccessInv, FiguresTyped, Figure
  <2> QED
    BY <2>1 DEF AccessInv, CountedOnce
<1>2. roll'.at = "persist" => roll'.stats.pv <= written'[roll'.day]
  <2> SUFFICES ASSUME roll' = roll, roll.at = "persist"
               PROVE  roll.stats.pv <= written'[roll.day]
    BY DEF Visits!Idle
  <2>1. /\ roll.day \in Visits!Day /\ roll.stats.pv \in Nat
        /\ roll.stats.pv <= written[roll.day]
    BY DEF AccessInv, RollTyped, Figure, CountedOnce, Visits!Idle
  <2>2. written[roll.day] \in Nat /\ written'[roll.day] \in Nat
    BY <2>1 DEF AccessInv, FiguresTyped
  <2> QED
    BY <2>1, <2>2
<1> QED
  BY <1>1, <1>2 DEF CountedOnce

-----------------------------------------------------------------------------
(* The figures: the operations                                             *)

\* The counts of drops are numbers, and the history is their sum.
LEMMA CountsTyped ==
    ASSUME AccessInv
    PROVE  /\ unsynced \in Nat /\ worker.taken \in Nat
           /\ Visits!SumOver(lostEvents) \in Nat
           /\ drops = unsynced + worker.taken + Visits!SumOver(lostEvents)
<1>1. unsynced \in Nat /\ worker.taken \in Nat /\ lostEvents \in [Visits!Day -> Nat]
  BY DEF AccessInv, FiguresTyped, Visits!Nothing
<1> QED
  BY <1>1, SumNat DEF AccessInv, DropsAdd

\* A request counts its event into the channel, or as dropped.
LEMMA CollectKeepsFigures ==
    ASSUME AccessInv, Visits!Collect PROVE AccessInv'
<1>1. /\ UNCHANGED <<today, early, worker, pv, lostEvents, watermark, row, roll,
                     clear, written, closed>>
      /\ \/ /\ Len(eventCh) < Room /\ eventCh' = Append(eventCh, today)
            /\ UNCHANGED <<unsynced, drops>>
         \/ UNCHANGED eventCh /\ unsynced' = unsynced + 1 /\ drops' = drops + 1
  BY DEF Visits!Collect, Visits!clock, Visits!redis
<1>2. FiguresTyped'
  <2>1. eventCh' \in Seq(Visits!Day) /\ Len(eventCh') <= Room
    <3>1. /\ eventCh \in Seq(Visits!Day) /\ today \in Visits!Day
          /\ Len(eventCh) \in Nat /\ Len(eventCh) <= Room /\ Room \in Nat
      BY AccessAssumption DEF AccessInv, FiguresTyped
    <3>2. /\ Append(eventCh, today) \in Seq(Visits!Day)
          /\ Len(Append(eventCh, today)) = Len(eventCh) + 1
      BY <3>1
    <3> QED
      BY <1>1, <3>1, <3>2
  <2>2. unsynced' \in Nat
    BY <1>1 DEF AccessInv, FiguresTyped
  <2> QED
    BY <1>1, <2>1, <2>2 DEF AccessInv, FiguresTyped
<1>3. RollTyped' /\ ClearTyped'
  BY <1>1 DEF AccessInv, RollTyped, ClearTyped
<1>4. DropsAdd'
  BY <1>1, CountsTyped DEF DropsAdd
<1>5. CountedOnce'
  BY <1>1 DEF AccessInv, CountedOnce
<1>6. FiguresKept' /\ Rolls'
  <2>1. \A d \in Visits!Day : pv[d] \in Nat /\ closed[d] \in Nat
    BY DEF AccessInv, FiguresTyped
  <2> QED
    BY <1>1, <1>2, <2>1, ArchiveStays
<1> QED
  BY <1>2, <1>3, <1>4, <1>5, <1>6 DEF AccessInv

\* What changes neither the figures nor what is archived of them.
LEMMA FiguresStay ==
    ASSUME AccessInv,
           UNCHANGED <<pv, lostEvents, watermark, row, written, closed, today>>,
           roll' = roll \/ roll' = Visits!Idle, FiguresTyped'
    PROVE  CountedOnce' /\ FiguresKept' /\ Rolls'
<1>1. \A d \in Visits!Day : pv[d] \in Nat /\ closed[d] \in Nat /\ written[d] \in Nat
  BY DEF AccessInv, FiguresTyped
<1>2. FiguresKept' /\ Rolls'
  BY <1>1, ArchiveStays
<1>3. CountedOnce'
  BY <1>1, CountsStay DEF AccessInv, CountedOnce
<1> QED
  BY <1>2, <1>3

\* The worker hands on what it took, or gives it back.
LEMMA WorkerKeepsFigures ==
    ASSUME AccessInv, Visits!Worker PROVE AccessInv'
<1>1. CASE Visits!Fills
  <2>1. /\ UNCHANGED <<today, early, pv, lostEvents, watermark, row, roll, clear,
                       drops, written, closed>>
        /\ worker = Visits!Nothing /\ eventCh # <<>>
        /\ worker' = [day |-> Head(eventCh), taken |-> unsynced]
        /\ eventCh' = Tail(eventCh) /\ unsynced' = 0
    BY <1>1 DEF Visits!Fills, Visits!clock, Visits!redis, Visits!history
  <2>2. FiguresTyped'
    <3>1. /\ eventCh' \in Seq(Visits!Day) /\ Len(eventCh') <= Room
          /\ Head(eventCh) \in Visits!Day
      BY <2>1, AccessAssumption, SMTT(30) DEF AccessInv, FiguresTyped
    <3> QED
      BY <2>1, <3>1 DEF AccessInv, FiguresTyped
  <2>3. RollTyped' /\ ClearTyped'
    BY <2>1 DEF AccessInv, RollTyped, ClearTyped
  <2>4. DropsAdd'
    BY <2>1, CountsTyped DEF DropsAdd, Visits!Nothing
  <2> QED
    BY <2>1, <2>2, <2>3, <2>4, FiguresStay DEF AccessInv
<1>2. CASE worker # Visits!Nothing /\ worker' = Visits!Nothing
           /\ UNCHANGED <<today, early, eventCh, watermark, row, roll, clear, closed>>
           /\ Visits!Counted
           /\ \/ UNCHANGED <<unsynced, drops>>
              \/ unsynced' = unsynced + worker.taken /\ drops' = drops + worker.taken
  <2>1. /\ pv' \in [Visits!Day -> Nat] /\ lostEvents' \in [Visits!Day -> Nat]
        /\ written' \in [Visits!Day -> Nat]
        /\ \A d \in Visits!Day : /\ pv'[d] >= pv[d] /\ written'[d] >= written[d]
                                 /\ pv'[d] <= written'[d]
        /\ Visits!SumOver(lostEvents') = Visits!SumOver(lostEvents) + worker.taken
    BY <1>2, CountedAdds
  <2>2. FiguresTyped'
    <3>1. unsynced' \in Nat
      BY <1>2, CountsTyped
    <3> QED
      BY <1>2, <2>1, <3>1 DEF AccessInv, FiguresTyped
  <2>3. RollTyped' /\ ClearTyped'
    BY <1>2 DEF AccessInv, RollTyped, ClearTyped
  <2>4. DropsAdd'
    BY <1>2, <2>1, CountsTyped DEF DropsAdd, Visits!Nothing
  <2>5. \A d \in Visits!Day : closed'[d] \in Nat /\ closed'[d] <= closed[d]
                              /\ written[d] \in Nat /\ written'[d] \in Nat
    BY <1>2, <2>1 DEF AccessInv, FiguresTyped
  <2>6. CountedOnce'
    BY <1>2, <2>1, <2>2, <2>5, CountsStay
  <2>7. FiguresKept' /\ Rolls'
    BY <1>2, <2>1, <2>2, <2>5, ArchiveStays
  <2> QED
    BY <2>2, <2>3, <2>4, <2>6, <2>7 DEF AccessInv
<1>3. CASE Visits!ExecFails /\ UNCHANGED <<pv, written, lostEvents, drops>>
  <2>1. /\ UNCHANGED <<today, early, eventCh, watermark, row, roll, clear, closed>>
        /\ worker' = Visits!Nothing /\ unsynced' = unsynced + worker.taken
    BY <1>3 DEF Visits!ExecFails, Visits!clock
  <2>2. FiguresTyped'
    <3>1. unsynced' \in Nat
      BY <2>1, CountsTyped
    <3> QED
      BY <1>3, <2>1, <3>1 DEF AccessInv, FiguresTyped
  <2>3. RollTyped' /\ ClearTyped'
    BY <2>1 DEF AccessInv, RollTyped, ClearTyped
  <2>4. DropsAdd'
    BY <1>3, <2>1, CountsTyped DEF DropsAdd, Visits!Nothing
  <2> QED
    BY <1>3, <2>1, <2>2, <2>3, <2>4, FiguresStay DEF AccessInv
<1> QED
  BY <1>1, <1>2, <1>3 DEF Visits!Worker, Visits!Executes, Visits!ExecFails, Visits!clock

\* Of any days there is a last, the one Max chooses.
LEMMA LastArchived ==
    ASSUME NEW T, T \subseteq Visits!Day, T # {}
    PROVE  Visits!Max(T) \in T /\ \A e \in T : e <= Visits!Max(T)
<1> DEFINE Left == {LastDay - e : e \in T}
<1>1. Left \subseteq Nat /\ Left # {}
  <2>1. \A e \in T : LastDay - e \in Nat
    BY AccessAssumption DEF Visits!Day
  <2> QED
    BY <2>1
<1> HIDE DEF Left
<1>2. PICK n \in Left : \A m \in Left : n <= m
  BY <1>1, Least
<1> USE DEF Left
<1>3. PICK k \in T : n = LastDay - k
  BY <1>2
<1>4. \A e \in T : k >= e
  BY <1>2, <1>3, AccessAssumption, SMTT(30) DEF Visits!Day
<1>5. Visits!Max(T) \in T /\ \A e \in T : Visits!Max(T) >= e
  BY <1>3, <1>4 DEF Visits!Max
<1> QED
  BY <1>5, AccessAssumption DEF Visits!Day

\* The day that loadRolledDay comes to: up to it MySQL has what is closed,
\* behind it Redis.
LEMMA RolledDayIs ==
    ASSUME AccessInv
    PROVE  \E r \in Int :
             /\ Visits!RolledDay = r /\ watermark \in Nat /\ watermark < today
             /\ \A d \in Visits!Day : d > r => InRedis(d)
             /\ \/ /\ r >= 1 /\ r >= watermark /\ r < today
                   /\ \A d \in Visits!Day : d <= r => InMySQL(d)
                   /\ ~(watermark = 0 /\ Visits!Archived = {})
                \/ r = today - 2 /\ watermark = 0 /\ Visits!Archived = {}
<1>1. /\ watermark \in Nat /\ watermark < today /\ today \in Int
      /\ Visits!Archived \subseteq Visits!Day
  BY AccessAssumption DEF AccessInv, FiguresTyped, Visits!Archived, Visits!Day
<1>2. CASE watermark # 0
  <2>1. Visits!RolledDay = watermark
    BY <1>2 DEF Visits!RolledDay
  <2> QED
    BY <1>1, <1>2, <2>1 DEF AccessInv, FiguresKept, Behind
<1>3. CASE watermark = 0 /\ Visits!Archived # {}
  <2>1. Visits!RolledDay = Visits!Max(Visits!Archived)
    BY <1>3 DEF Visits!RolledDay
  <2>2. PICK k \in Visits!Archived : k = Visits!Max(Visits!Archived)
                                     /\ \A e \in Visits!Archived : e <= k
    <3> QED
      BY <1>1, <1>3, LastArchived
  <2>3. /\ k \in Int /\ k >= 1 /\ k < today
        /\ \A d \in Visits!Day : d <= k => InMySQL(d)
    BY <1>1 DEF AccessInv, FiguresKept, Visits!Day
  <2>4. \A d \in Visits!Day : d > k => Behind(d)
    BY <1>1, <1>3, <2>2 DEF Behind, Visits!Day
  <2>5. \A d \in Visits!Day : d > k => InRedis(d)
    BY <2>4 DEF AccessInv, FiguresKept
  <2>6. Visits!RolledDay = k /\ k >= watermark
    BY <1>3, <2>1, <2>2, <2>3
  <2> QED
    BY <1>1, <1>3, <2>3, <2>5, <2>6
<1>4. CASE watermark = 0 /\ Visits!Archived = {}
  <2>1. Visits!RolledDay = today - 2
    BY <1>4 DEF Visits!RolledDay
  <2>2. \A d \in Visits!Day : InRedis(d)
    BY <1>4 DEF AccessInv, FiguresKept, Behind
  <2> QED
    BY <1>1, <1>4, <2>1, <2>2
<1> QED
  BY <1>2, <1>3, <1>4

\* RunDailyRollup starts at the first day that MySQL may lack, or at yesterday
\* once more, of which Redis still has everything.
LEMMA RollBeginsKeepsFigures ==
    ASSUME AccessInv, Visits!RollBegins PROVE AccessInv'
<1> DEFINE first == Visits!FirstToRoll
           last == today - 1
<1>1. /\ UNCHANGED <<today, early, eventCh, unsynced, worker, pv, lostEvents,
                     watermark, row, clear, drops, written>>
      /\ roll = Visits!Idle /\ clear = Visits!Idle
      /\ roll' = IF 1 .. last \cap first .. last = {} THEN Visits!Idle
                 ELSE [at |-> "snapshot", day |-> Visits!Max({1, first}), last |-> last]
      /\ closed' = [d \in Visits!Day |->
                       IF Visits!Archived = {} /\ d < first THEN 0 ELSE closed[d]]
  BY DEF Visits!RollBegins, Visits!MutexFree, AccessInv, RollTyped, ClearTyped,
         Visits!redis, Visits!LastClosed, Visits!clock
<1>2. PICK r \in Int :
             /\ Visits!RolledDay = r /\ watermark \in Nat /\ watermark < today
             /\ \A d \in Visits!Day : d > r => InRedis(d)
             /\ \/ /\ r >= 1 /\ r >= watermark /\ r < today
                   /\ \A d \in Visits!Day : d <= r => InMySQL(d)
                   /\ ~(watermark = 0 /\ Visits!Archived = {})
                \/ r = today - 2 /\ watermark = 0 /\ Visits!Archived = {}
  BY RolledDayIs
<1>3. first = IF r = last /\ early THEN last ELSE r + 1
  BY <1>2 DEF Visits!FirstToRoll, Visits!LastClosed
<1>4. today \in Visits!Day /\ today \in Nat /\ last \in Nat /\ early \in BOOLEAN
  BY AccessAssumption DEF AccessInv, FiguresTyped, Visits!Day
<1> HIDE DEF first
<1>5. \A d \in Visits!Day : /\ d \in Nat /\ closed[d] \in Nat /\ pv[d] \in Nat
                            /\ closed'[d] \in Nat /\ closed'[d] <= closed[d]
                            /\ row[d].pv \in Nat
  BY <1>1, AccessAssumption, SMTT(30) DEF AccessInv, FiguresTyped, Figure, Visits!Day
<1>6. FiguresTyped'
  <2>1. closed' \in [Visits!Day -> Nat]
    BY <1>1, <1>5
  <2> QED
    BY <1>1, <2>1 DEF AccessInv, FiguresTyped
<1>7. DropsAdd' /\ ClearTyped' /\ CountedOnce' /\ (roll' = Visits!Idle => RollTyped')
  <2>1. roll'.at # "persist"
    BY <1>1 DEF Visits!Idle
  <2>2. DropsAdd'
    BY <1>1 DEF AccessInv, DropsAdd
  <2>3. CountedOnce'
    BY <1>1, <2>1 DEF AccessInv, CountedOnce
  <2> QED
    BY <1>1, <2>2, <2>3 DEF AccessInv, ClearTyped, RollTyped
<1>8. CASE roll' = Visits!Idle
  <2>1. FiguresKept' /\ Rolls'
    BY <1>1, <1>5, <1>6, <1>8, ArchiveStays
  <2> QED
    BY <1>6, <1>7, <1>8, <2>1 DEF AccessInv
<1>9. CASE roll' # Visits!Idle
  <2>1. roll' = [at |-> "snapshot", day |-> Visits!Max({1, first}), last |-> last]
        /\ 1 .. last \cap first .. last # {}
    BY <1>1, <1>9
  <2>2. first \in Int /\ first <= last /\ 1 <= last
    BY <1>2, <1>3, <1>4, <2>1
  <2>3. first >= 1 /\ (first > watermark \/ (first = watermark /\ first = last))
    <3>1. /\ watermark \in Nat /\ (first = last \/ first = r + 1)
          /\ \/ r >= 1 /\ r >= watermark
             \/ r = today - 2 /\ watermark = 0
          /\ (first = last => r = last \/ first = r + 1)
      BY <1>2, <1>3
    <3> QED
      BY <1>4, <2>2, <3>1
  <2>4. Visits!Max({1, first}) = first
    <3>1. /\ first \in {1, first} /\ \A y \in {1, first} : first >= y
          /\ \A x \in {1, first} : (\A y \in {1, first} : x >= y) => x = first
      BY <2>2, <2>3
    <3> QED
      BY <3>1 DEF Visits!Max
  <2>5. /\ roll'.at = "snapshot" /\ roll'.day = first /\ roll'.last = last
        /\ first \in Visits!Day /\ last \in Visits!Day
    BY <1>4, <2>1, <2>2, <2>3, <2>4, AccessAssumption DEF Visits!Day
  <2>6. RollTyped'
    BY <1>1, <1>4, <2>2, <2>3, <2>5 DEF RollTyped
  <2>7. \A d \in Visits!Day : /\ InMySQL(d) => closed'[d] <= row'[d].pv
                              /\ InRedis(d) => closed'[d] <= pv'[d]
    BY <1>1, <1>5 DEF InMySQL, InRedis
  <2>8. \A d \in Visits!Day : d > r => closed'[d] <= pv'[d]
    BY <1>2, <2>7
  <2>9. \A d \in Visits!Day : d >= last => closed'[d] <= pv'[d]
    BY <2>7 DEF AccessInv, FiguresKept
  <2>10. \A d \in Visits!Day : d < first => closed'[d] <= row'[d].pv
    <3> SUFFICES ASSUME NEW d \in Visits!Day, d < first PROVE closed'[d] <= row'[d].pv
      OBVIOUS
    <3>1. CASE Visits!Archived = {}
      BY <1>1, <1>5, <3>1
    <3>2. CASE Visits!Archived # {}
      <4>1. d <= r /\ InMySQL(d)
        BY <1>2, <1>3, <1>4, <1>5, <3>2
      <4> QED
        BY <2>7, <4>1
    <3> QED
      BY <3>1, <3>2
  <2>11. \A d \in Visits!Day : d >= first => closed'[d] <= pv'[d]
    BY <1>2, <1>3, <1>4, <1>5, <2>8, <2>9
  <2>12. Rolls'
    BY <2>2, <2>5, <2>10, <2>11, <1>5 DEF Rolls, InRedis, InMySQL
  <2>13. FiguresKept'
    <3>1. /\ Visits!Archived' = Visits!Archived
          /\ \A d \in Visits!Day : Behind(d)' <=> Behind(d)
      BY <1>1 DEF Visits!Archived, Behind
    <3> QED
      BY <1>1, <2>7, <3>1 DEF AccessInv, FiguresKept, InRedis, InMySQL
  <2> QED
    BY <1>6, <1>7, <2>6, <2>12, <2>13 DEF AccessInv
<1> QED
  BY <1>8, <1>9

\* A day's figures go from Redis through the snapshot into MySQL, and the
\* watermark follows.
LEMMA RollStepsKeepFigures ==
    ASSUME AccessInv, Visits!RollSnapshots \/ Visits!RollPersists \/ Visits!RollSaves
    PROVE  AccessInv'
<1>1. roll # Visits!Idle /\ clear = Visits!Idle
  BY DEF Visits!RollSnapshots, Visits!RollPersists, Visits!RollSaves, Visits!Idle,
         AccessInv, RollTyped
<1>2. PICK k \in Visits!Day, n \in Visits!Day :
         /\ k = roll.day /\ n = roll.last /\ k <= n /\ n < today
         /\ k > watermark \/ (k = watermark /\ k = n)
  BY <1>1 DEF AccessInv, RollTyped
<1>3. \A d \in Visits!Day : /\ d < k => InMySQL(d)
                            /\ d > k => InRedis(d)
  BY <1>1, <1>2 DEF AccessInv, Rolls
<1>4. \A d \in Visits!Day : /\ d \in Nat /\ closed[d] \in Nat /\ pv[d] \in Nat
                            /\ row[d] \in Figure /\ row[d].pv \in Nat
                            /\ pv[d] <= written[d] /\ row[d].pv <= written[d]
  BY AccessAssumption, SMTT(30)
    DEF AccessInv, FiguresTyped, Figure, Visits!Day, CountedOnce
<1>8. k \in Nat /\ n \in Nat /\ today \in Nat /\ LastDay \in Nat
  BY AccessAssumption DEF AccessInv, FiguresTyped, Visits!Day
<1>5. CASE Visits!RollSnapshots
  <2>1. /\ UNCHANGED <<today, early, eventCh, unsynced, worker, pv, lostEvents,
                       watermark, row, clear, drops, written, closed>>
        /\ roll.at = "snapshot"
        /\ roll'.at = "persist" /\ roll'.day = k /\ roll'.last = n
        /\ roll'.stats = [pv |-> pv[k], dropped |-> lostEvents[k]]
    BY <1>2, <1>5 DEF Visits!RollSnapshots, Visits!clock, Visits!redis, Visits!history
  <2>2. FiguresTyped'
    BY <2>1 DEF AccessInv, FiguresTyped
  <2>3. RollTyped' /\ ClearTyped'
    <3>1. roll'.stats \in Figure
      BY <2>1, <1>4 DEF AccessInv, FiguresTyped, Figure
    <3> QED
      BY <1>1, <1>2, <2>1, <3>1 DEF RollTyped, ClearTyped
  <2>4. DropsAdd' /\ CountedOnce'
    BY <1>4, <2>1 DEF AccessInv, DropsAdd, CountedOnce
  <2>5. InRedis(k)
    BY <1>1, <1>2, <2>1 DEF AccessInv, Rolls
  <2>6. Rolls'
    BY <1>2, <1>3, <2>1, <2>5 DEF Rolls, InRedis, InMySQL
  <2>7. FiguresKept'
    BY <2>1 DEF AccessInv, FiguresKept, InRedis, InMySQL, Behind, Visits!Archived
  <2> QED
    BY <2>2, <2>3, <2>4, <2>6, <2>7 DEF AccessInv
<1>6. CASE Visits!RollPersists
  <2>1. /\ UNCHANGED <<today, early, eventCh, unsynced, worker, pv, lostEvents,
                       watermark, clear, drops, written, closed>>
        /\ roll.at = "persist"
        /\ roll'.at = "save" /\ roll'.day = k /\ roll'.last = n
        /\ row' = IF roll.stats = Visits!NoRow THEN row
                  ELSE [row EXCEPT ![k] = roll.stats]
    BY <1>2, <1>6 DEF Visits!RollPersists, Visits!clock, Visits!redis, Visits!history
  <2>2. PICK s \in Figure : s = roll.stats /\ s.pv \in Nat /\ closed[k] <= s.pv
                            /\ s.pv <= written[k]
    BY <1>1, <1>2, <2>1 DEF AccessInv, RollTyped, Rolls, CountedOnce, Figure
  <2>3. /\ row' \in [Visits!Day -> Figure]
        /\ \A d \in Visits!Day : d # k => row'[d] = row[d]
        /\ row'[k] = IF s = Visits!NoRow THEN row[k] ELSE s
    BY <2>1, <2>2 DEF AccessInv, FiguresTyped
  <2>4. row'[k].pv >= closed[k] /\ row'[k].pv <= written[k]
    <3>1. CASE s = Visits!NoRow
      <4>1. closed[k] = 0
        BY <1>4, <2>2, <3>1 DEF Visits!NoRow
      <4> QED
        BY <1>4, <2>3, <3>1, <4>1
    <3>2. CASE s # Visits!NoRow
      BY <2>2, <2>3, <3>2
    <3> QED
      BY <3>1, <3>2
  <2>5. FiguresTyped'
    BY <2>1, <2>3 DEF AccessInv, FiguresTyped
  <2>6. RollTyped' /\ ClearTyped'
    BY <1>1, <1>2, <2>1 DEF RollTyped, ClearTyped
  <2>7. DropsAdd' /\ CountedOnce'
    BY <1>4, <2>1, <2>3, <2>4 DEF AccessInv, DropsAdd, CountedOnce
  <2>8. \A d \in Visits!Day : /\ InMySQL(d) => InMySQL(d)'
                              /\ InRedis(d)' <=> InRedis(d)
    <3>1. \A d \in Visits!Day : InMySQL(d) => InMySQL(d)'
      BY <2>1, <2>3, <2>4 DEF InMySQL
    <3> QED
      BY <2>1, <3>1 DEF InRedis
  <2>9. InMySQL(k)'
    BY <2>1, <2>4, <1>4 DEF InMySQL
  <2>10. Rolls'
    BY <1>2, <1>3, <2>1, <2>8, <2>9 DEF Rolls
  <2>11. /\ Visits!Archived \subseteq Visits!Archived'
         /\ Visits!Archived' \subseteq Visits!Archived \cup {k}
    BY <2>2, <2>3 DEF Visits!Archived
  <2>12. FiguresKept'
    <3>1. \A e \in Visits!Archived' : e < today'
      <4>1. \A e \in Visits!Archived : e < today
        BY DEF AccessInv, FiguresKept
      <4>2. k < today
        BY <1>2, <1>8
      <4> QED
        BY <2>1, <2>11, <4>1, <4>2
    <3>2. \A d \in Visits!Day : Behind(d)' => Behind(d)
      BY <2>1, <2>11 DEF Behind
    <3>3. \A e \in Visits!Archived' : \A d \in Visits!Day : d <= e => InMySQL(d)'
      <4> SUFFICES ASSUME NEW e \in Visits!Archived', NEW d \in Visits!Day, d <= e
                   PROVE  InMySQL(d)'
        OBVIOUS
      <4>1. CASE e \in Visits!Archived
        BY <2>8, <4>1 DEF AccessInv, FiguresKept
      <4>2. CASE e = k
        BY <1>3, <1>4, <2>8, <2>9, <4>2
      <4> QED
        BY <2>11, <4>1, <4>2
    <3>4. \A d \in Visits!Day : d <= watermark => InMySQL(d)'
      BY <2>8 DEF AccessInv, FiguresKept
    <3>5. \A d \in Visits!Day : Behind(d)' \/ d >= today - 1 => InRedis(d)'
      BY <2>8, <3>2 DEF AccessInv, FiguresKept
    <3> QED
      BY <2>1, <3>1, <3>3, <3>4, <3>5 DEF FiguresKept
  <2> QED
    BY <2>5, <2>6, <2>7, <2>10, <2>12 DEF AccessInv
<1>7. CASE Visits!RollSaves
  <2>1. /\ UNCHANGED <<today, early, eventCh, unsynced, worker, pv, lostEvents,
                       row, clear, drops, written, closed>>
        /\ roll.at = "save" /\ watermark' = k
        /\ roll' = IF k = n THEN Visits!Idle
                   ELSE [at |-> "snapshot", day |-> k + 1, last |-> n]
    BY <1>2, <1>7 DEF Visits!RollSaves, Visits!clock, Visits!redis, Visits!history
  <2>2. today \in Nat /\ today \in Visits!Day /\ k >= 1
    BY AccessAssumption DEF AccessInv, FiguresTyped, Visits!Day
  <2>3. FiguresTyped'
    <3>1. k \in 0 .. today - 1
      BY <1>2, <1>4, <2>2
    <3> QED
      BY <2>1, <3>1 DEF AccessInv, FiguresTyped
  <2>4. roll' # Visits!Idle => /\ k + 1 \in Visits!Day /\ k + 1 <= n
                               /\ roll' = [at |-> "snapshot", day |-> k + 1, last |-> n]
    <3>1. k # n => k + 1 \in Visits!Day /\ k + 1 <= n
      BY <1>2, <1>8 DEF Visits!Day
    <3> QED
      BY <2>1, <3>1
  <2>5. RollTyped' /\ ClearTyped'
    BY <1>1, <1>2, <1>4, <2>1, <2>4 DEF RollTyped, ClearTyped
  <2>6. DropsAdd'
    BY <2>1 DEF AccessInv, DropsAdd
  <2>7. CountedOnce'
    <3>1. roll'.at # "persist"
      BY <2>1 DEF Visits!Idle
    <3> QED
      BY <1>4, <2>1, <3>1 DEF CountedOnce
  <2>8. \A d \in Visits!Day : /\ InMySQL(d)' <=> InMySQL(d)
                              /\ InRedis(d)' <=> InRedis(d)
    BY <2>1 DEF InMySQL, InRedis
  <2>9. InMySQL(k)
    BY <1>1, <1>2, <2>1 DEF AccessInv, Rolls
  <2>10. \A d \in Visits!Day : /\ d <= k => InMySQL(d)'
                               /\ d > k => InRedis(d)'
    BY <1>3, <1>4, <2>8, <2>9
  <2>11. Rolls'
    <3>1. CASE roll' = Visits!Idle
      BY <3>1 DEF Rolls
    <3>2. CASE roll' # Visits!Idle
      BY <1>4, <2>4, <2>10, <3>2 DEF Rolls
    <3> QED
      BY <3>1, <3>2
  <2>12. FiguresKept'
    <3>1. Visits!Archived' = Visits!Archived
      BY <2>1 DEF Visits!Archived
    <3>2. \A d \in Visits!Day : Behind(d)' => d > k
      BY <2>1, <2>2 DEF Behind
    <3>3. /\ \A e \in Visits!Archived : e < today
          /\ \A e \in Visits!Archived : \A d \in Visits!Day : d <= e => InMySQL(d)'
          /\ \A d \in Visits!Day : d >= today - 1 => InRedis(d)'
      BY <2>8 DEF AccessInv, FiguresKept
    <3> QED
      BY <2>1, <2>10, <3>1, <3>2, <3>3 DEF FiguresKept
  <2> QED
    BY <2>3, <2>5, <2>6, <2>7, <2>11, <2>12 DEF AccessInv
<1> QED
  BY <1>5, <1>6, <1>7

\* What every deletion in Redis leaves.
LEMMA DaysDeleted ==
    ASSUME AccessInv, NEW days \in SUBSET Visits!Day, Visits!DeletesDays(days),
           UNCHANGED <<today, early, eventCh, unsynced, worker, row, written>>,
           watermark' = watermark \/ watermark' = 0,
           closed' \in [Visits!Day -> Nat],
           roll' = roll \/ roll' = Visits!Idle
    PROVE  /\ FiguresTyped' /\ DropsAdd' /\ CountedOnce'
           /\ \A d \in Visits!Day :
                 /\ pv'[d] = IF d \in days THEN 0 ELSE pv[d]
                 /\ d \in Nat /\ pv[d] \in Nat /\ closed[d] \in Nat /\ row[d].pv \in Nat
<1>1. /\ pv' \in [Visits!Day -> Nat] /\ lostEvents' \in [Visits!Day -> Nat]
      /\ \A d \in Visits!Day : pv'[d] = IF d \in days THEN 0 ELSE pv[d]
      /\ drops' = unsynced + worker.taken + Visits!SumOver(lostEvents')
  BY Deleted
<1>2. \A d \in Visits!Day :
         /\ d \in Nat /\ pv[d] \in Nat /\ closed[d] \in Nat /\ row[d].pv \in Nat
         /\ written[d] \in Nat /\ written'[d] = written[d] /\ pv[d] <= written[d]
  BY AccessAssumption, SMTT(30)
    DEF AccessInv, FiguresTyped, CountedOnce, Figure, Visits!Day
<1>3. FiguresTyped'
  <2>1. watermark' \in 0 .. today - 1
    BY AccessAssumption, SMTT(30) DEF AccessInv, FiguresTyped, Visits!Day
  <2> QED
    BY <1>1, <2>1 DEF AccessInv, FiguresTyped
<1>4. DropsAdd'
  BY <1>1 DEF DropsAdd
<1>5. \A d \in Visits!Day : pv'[d] <= written'[d] /\ written[d] <= written'[d]
  BY <1>1, <1>2
<1>6. CountedOnce'
  BY <1>3, <1>5, CountsStay
<1> QED
  BY <1>1, <1>2, <1>3, <1>4, <1>6

\* Up to the watermark nothing is left of a day that MySQL has nothing of.
LEMMA NothingBehind ==
    ASSUME AccessInv, NEW d \in Visits!Day, d <= watermark,
           \A e \in Visits!Archived : e < d
    PROVE  closed[d] = 0
<1>1. d \in Nat /\ closed[d] \in Nat /\ InMySQL(d)
  BY AccessAssumption DEF AccessInv, FiguresTyped, FiguresKept, Visits!Day
<1>2. row[d] = Visits!NoRow
  BY <1>1 DEF Visits!Archived
<1> QED
  BY <1>1, <1>2 DEF InMySQL, Visits!NoRow

\* ClearAccessData locks the archive out and looks for keys.
LEMMA ClearStartsKeepFigures ==
    ASSUME AccessInv,
           \/ \E keep \in Retention : Visits!ClearLocks(keep)
           \/ Visits!ClearScans
    PROVE  AccessInv'
<1>1. UNCHANGED <<today, early, eventCh, unsynced, worker, pv, lostEvents, watermark,
                  row, roll, drops, written, closed>>
  BY DEF Visits!ClearLocks, Visits!ClearScans, Visits!clock, Visits!redis,
         Visits!history
<1>2. FiguresTyped' /\ DropsAdd'
  BY <1>1 DEF AccessInv, FiguresTyped, DropsAdd
<1>3. ClearTyped' /\ roll = Visits!Idle
  <2>1. CASE \E keep \in Retention : Visits!ClearLocks(keep)
    <3>1. PICK keep \in Retention : Visits!ClearLocks(keep)
      BY <2>1
    <3>2. roll = Visits!Idle
      BY <3>1 DEF Visits!ClearLocks, Visits!MutexFree, AccessInv, RollTyped
    <3>3. keep \in Nat /\ Visits!Older(keep) \in SUBSET Visits!Day
      BY AccessAssumption DEF Visits!Older
    <3>4. clear' = [at |-> "scan", keep |-> keep, days |-> Visits!Older(keep),
                    passes |-> IF keep = 0 THEN 2 ELSE 1]
      BY <3>1 DEF Visits!ClearLocks
    <3>5. clear' \in [at : {"scan", "del", "rows"}, keep : Nat,
                      days : SUBSET Visits!Day, passes : {1, 2}]
      BY <3>3, <3>4
    <3> QED
      BY <1>1, <3>2, <3>5 DEF ClearTyped
  <2>2. CASE Visits!ClearScans
    <3>1. clear # Visits!Idle
      BY <2>2 DEF Visits!ClearScans, Visits!Idle
    <3>2. /\ roll = Visits!Idle
          /\ clear \in [at : {"scan", "del", "rows"}, keep : Nat,
                        days : SUBSET Visits!Day, passes : {1, 2}]
      BY <3>1 DEF AccessInv, ClearTyped
    <3>3. clear' \in [at : {"scan", "del", "rows"}, keep : Nat,
                      days : SUBSET Visits!Day, passes : {1, 2}]
      BY <2>2, <3>2 DEF Visits!ClearScans
    <3> QED
      BY <1>1, <3>2, <3>3 DEF ClearTyped
  <2> QED
    BY <2>1, <2>2
<1>4. RollTyped'
  BY <1>1, <1>3 DEF RollTyped
<1> QED
  BY <1>1, <1>2, <1>3, <1>4, FiguresStay DEF AccessInv

\* What it deletes nobody asks for any more; a full deletion takes the watermark
\* along, and the rows alone then say what is archived.
LEMMA ClearDelsKeepsFigures ==
    ASSUME AccessInv, Visits!ClearDels PROVE AccessInv'
<1>1. clear # Visits!Idle
  BY DEF Visits!ClearDels, Visits!Idle
<1>2. /\ roll = Visits!Idle
      /\ clear \in [at : {"scan", "del", "rows"}, keep : Nat,
                    days : SUBSET Visits!Day, passes : {1, 2}]
  BY <1>1 DEF AccessInv, ClearTyped
<1>3. PICK days \in SUBSET Visits!Day : days = clear.days
  BY <1>2
<1>4. /\ UNCHANGED <<today, early, eventCh, unsynced, worker, row, roll, written>>
      /\ Visits!DeletesDays(days)
      /\ closed' = [d \in Visits!Day |-> IF d \in days THEN 0 ELSE closed[d]]
      /\ watermark' = IF clear.keep = 0 THEN 0 ELSE watermark
      /\ clear' = IF clear.passes = 2
                  THEN [clear EXCEPT !.at = "scan", !.days = Visits!Day, !.passes = 1]
                  ELSE [clear EXCEPT !.at = "rows"]
  BY <1>3 DEF Visits!ClearDels, Visits!clock
<1>5. closed' \in [Visits!Day -> Nat]
  BY <1>4 DEF AccessInv, FiguresTyped
<1>6. /\ FiguresTyped' /\ DropsAdd' /\ CountedOnce'
      /\ \A d \in Visits!Day :
            /\ pv'[d] = IF d \in days THEN 0 ELSE pv[d]
            /\ d \in Nat /\ pv[d] \in Nat /\ closed[d] \in Nat /\ row[d].pv \in Nat
  BY <1>4, <1>5, DaysDeleted
<1>7. RollTyped' /\ ClearTyped'
  <2>1. clear' \in [at : {"scan", "del", "rows"}, keep : Nat,
                    days : SUBSET Visits!Day, passes : {1, 2}]
    BY <1>2, <1>4
  <2> QED
    BY <1>2, <1>4, <2>1 DEF RollTyped, ClearTyped
<1>8. \A d \in Visits!Day : /\ closed'[d] <= closed[d]
                            /\ closed'[d] = 0 \/ pv'[d] >= pv[d]
  BY <1>4, <1>6
<1>9. CASE watermark' = watermark
  <2>1. FiguresKept' /\ Rolls'
    BY <1>4, <1>6, <1>8, <1>9, ArchiveStays
  <2> QED
    BY <1>6, <1>7, <2>1 DEF AccessInv
<1>10. CASE watermark' = 0
  <2>1. /\ Visits!Archived' = Visits!Archived
        /\ \A d \in Visits!Day : Behind(d)' <=> \A e \in Visits!Archived : e < d
    BY <1>4, <1>10 DEF Visits!Archived, Behind
  <2>2. \A d \in Visits!Day : /\ InMySQL(d) => InMySQL(d)'
                              /\ InRedis(d) \/ closed[d] = 0 => InRedis(d)'
    <3>1. \A d \in Visits!Day : closed'[d] \in Nat /\ pv'[d] \in Nat /\ row'[d] = row[d]
      BY <1>4, <1>6 DEF FiguresTyped
    <3> QED
      BY <1>6, <1>8, <3>1 DEF InMySQL, InRedis
  <2>3. ASSUME NEW d \in Visits!Day, \A e \in Visits!Archived : e < d PROVE InRedis(d)'
    <3>1. CASE d <= watermark
      BY <2>2, <2>3, <3>1, NothingBehind
    <3>2. CASE ~(d <= watermark)
      <4>1. d > watermark
        <5>1. watermark \in Nat /\ d \in Nat
          BY <1>6 DEF AccessInv, FiguresTyped
        <5> QED
          BY <3>2, <5>1
      <4>2. Behind(d)
        BY <2>3, <4>1 DEF Behind
      <4> QED
        BY <2>2, <4>2 DEF AccessInv, FiguresKept
    <3> QED
      BY <3>1, <3>2
  <2>4. /\ \A e \in Visits!Archived : e < today
        /\ \A e \in Visits!Archived : \A d \in Visits!Day : d <= e => InMySQL(d)'
        /\ \A d \in Visits!Day : d >= today - 1 => InRedis(d)'
    BY <2>2 DEF AccessInv, FiguresKept
  <2>5. \A d \in Visits!Day : ~(d <= watermark')
    BY <1>6, <1>10 DEF Visits!Day
  <2>6. FiguresKept'
    BY <1>4, <2>1, <2>3, <2>4, <2>5 DEF FiguresKept
  <2>7. Rolls'
    BY <1>2, <1>4 DEF Rolls
  <2> QED
    BY <1>6, <1>7, <2>6, <2>7 DEF AccessInv
<1> QED
  BY <1>4, <1>9, <1>10

\* An error in between gives up no more than the days that are gone.
LEMMA ClearFailsKeepsFigures ==
    ASSUME AccessInv, Visits!ClearFails PROVE AccessInv'
<1>1. clear # Visits!Idle
  BY DEF Visits!ClearFails, Visits!Idle
<1>2. roll = Visits!Idle /\ clear.days \in SUBSET Visits!Day
  BY <1>1 DEF AccessInv, ClearTyped
<1>3. PICK days \in SUBSET Visits!Day :
         /\ Visits!DeletesDays(days)
         /\ closed' = [d \in Visits!Day |-> IF d \in days THEN 0 ELSE closed[d]]
  BY <1>2 DEF Visits!ClearFails
<1>4. /\ UNCHANGED <<today, early, eventCh, unsynced, worker, row, roll, written,
                     watermark>>
      /\ clear' = Visits!Idle
  BY DEF Visits!ClearFails, Visits!clock
<1>5. closed' \in [Visits!Day -> Nat]
  BY <1>3 DEF AccessInv, FiguresTyped
<1>6. /\ FiguresTyped' /\ DropsAdd' /\ CountedOnce'
      /\ \A d \in Visits!Day :
            /\ pv'[d] = IF d \in days THEN 0 ELSE pv[d]
            /\ d \in Nat /\ pv[d] \in Nat /\ closed[d] \in Nat /\ row[d].pv \in Nat
  BY <1>3, <1>4, <1>5, DaysDeleted
<1>7. RollTyped' /\ ClearTyped'
  BY <1>2, <1>4 DEF RollTyped, ClearTyped
<1>8. \A d \in Visits!Day : /\ closed'[d] <= closed[d]
                            /\ closed'[d] = 0 \/ pv'[d] >= pv[d]
  BY <1>3, <1>6
<1>9. FiguresKept' /\ Rolls'
  BY <1>4, <1>6, <1>8, ArchiveStays
<1> QED
  BY <1>6, <1>7, <1>9 DEF AccessInv

\* The rows go from the oldest day on: what was archived after a deleted day
\* and stays says nothing of it.
LEMMA ClearRowsKeepsFigures ==
    ASSUME AccessInv, Visits!ClearRows PROVE AccessInv'
<1>1. clear # Visits!Idle
  BY DEF Visits!ClearRows, Visits!Idle
<1>2. roll = Visits!Idle /\ clear.keep \in Nat
  BY <1>1 DEF AccessInv, ClearTyped
<1> DEFINE days == Visits!Older(clear.keep)
<1>3. /\ UNCHANGED <<today, early, eventCh, unsynced, worker, pv, lostEvents, watermark,
                     roll, drops>>
      /\ clear' = Visits!Idle
      /\ row' = [d \in Visits!Day |-> IF d \in days THEN Visits!NoRow ELSE row[d]]
      /\ written' = [d \in Visits!Day |-> IF d \in days THEN pv[d] ELSE written[d]]
      /\ closed' = [d \in Visits!Day |-> IF d \in days THEN 0 ELSE closed[d]]
  BY DEF Visits!ClearRows, Visits!clock, Visits!redis
<1>4. \A d, e \in Visits!Day : d <= e /\ e \in days => d \in days
  <2>1. /\ today \in Nat /\ clear.keep \in Nat
        /\ \A d \in Visits!Day : d \in Nat
    BY <1>2, AccessAssumption DEF AccessInv, FiguresTyped, Visits!Day
  <2> QED
    BY <2>1 DEF Visits!Older
<1> HIDE DEF days
<1>5. \A d \in Visits!Day : /\ d \in Nat /\ closed[d] \in Nat /\ pv[d] \in Nat
                            /\ written[d] \in Nat
                            /\ row[d] \in Figure /\ row[d].pv \in Nat
                            /\ pv[d] <= written[d] /\ row[d].pv <= written[d]
  BY AccessAssumption, SMTT(30)
    DEF AccessInv, FiguresTyped, Figure, Visits!Day, CountedOnce
<1>6. /\ row' \in [Visits!Day -> Figure] /\ written' \in [Visits!Day -> Nat]
      /\ closed' \in [Visits!Day -> Nat]
  <2>1. Visits!NoRow \in Figure
    BY DEF Visits!NoRow, Figure
  <2> QED
    BY <1>3, <1>5, <2>1
<1>7. FiguresTyped'
  BY <1>3, <1>6 DEF AccessInv, FiguresTyped
<1>8. RollTyped' /\ ClearTyped' /\ DropsAdd' /\ Rolls'
  BY <1>2, <1>3 DEF AccessInv, RollTyped, ClearTyped, DropsAdd, Rolls
<1>9. CountedOnce'
  <2>1. \A d \in Visits!Day : pv'[d] <= written'[d] /\ row'[d].pv <= written'[d]
    BY <1>3, <1>5 DEF Visits!NoRow
  <2> QED
    BY <1>2, <1>3, <2>1 DEF CountedOnce, Visits!Idle
<1>10. \A d \in Visits!Day : /\ InMySQL(d) \/ d \in days => InMySQL(d)'
                             /\ InRedis(d) \/ d \in days => InRedis(d)'
  BY <1>3, <1>5 DEF InMySQL, InRedis, Visits!NoRow
<1>11. Visits!Archived' = Visits!Archived \ days
  BY <1>3 DEF Visits!Archived
<1>12. FiguresKept'
  <2>1. \A d \in Visits!Day : Behind(d)' => Behind(d) \/ d \in days
    <3> SUFFICES ASSUME NEW d \in Visits!Day, Behind(d)', d \notin days
                 PROVE  Behind(d)
      OBVIOUS
    <3>1. CASE watermark # 0
      BY <1>3, <3>1 DEF Behind
    <3>2. CASE watermark = 0
      <4>1. \A e \in Visits!Archived : e \notin days => e < d
        BY <1>3, <1>11, <3>2 DEF Behind
      <4>2. \A e \in Visits!Archived : e \in Visits!Day
        BY DEF Visits!Archived
      <4>3. \A e \in Visits!Archived : e < d
        BY <1>4, <1>5, <4>1, <4>2
      <4> QED
        BY <3>2, <4>3 DEF Behind
    <3> QED
      BY <3>1, <3>2
  <2>2. /\ \A e \in Visits!Archived' : e < today
        /\ \A e \in Visits!Archived' : \A d \in Visits!Day : d <= e => InMySQL(d)'
        /\ \A d \in Visits!Day : d <= watermark => InMySQL(d)'
    BY <1>10, <1>11 DEF AccessInv, FiguresKept
  <2>3. \A d \in Visits!Day : Behind(d)' \/ d >= today - 1 => InRedis(d)'
    BY <1>10, <2>1 DEF AccessInv, FiguresKept
  <2> QED
    BY <1>3, <2>2, <2>3 DEF FiguresKept
<1> QED
  BY <1>7, <1>8, <1>9, <1>12 DEF AccessInv

\* A day closes with what Redis has of it, and its bucket outlives the archive
\* of the day.
LEMMA TimeKeepsFigures ==
    ASSUME AccessInv, Visits!Time PROVE AccessInv'
<1>1. /\ today \in Nat /\ LastDay \in Nat /\ watermark \in Nat /\ watermark < today
      /\ \A d \in Visits!Day : d \in Nat /\ closed[d] \in Nat /\ pv[d] \in Nat
  BY AccessAssumption DEF AccessInv, FiguresTyped, Visits!Day
<1>2. CASE Visits!ThreeOClock
  <2>1. /\ UNCHANGED <<today, eventCh, unsynced, worker, pv, lostEvents, watermark,
                       row, roll, clear, drops, written, closed>>
        /\ early' = FALSE
    BY <1>2 DEF Visits!ThreeOClock, Visits!redis, Visits!history
  <2>2. FiguresTyped' /\ DropsAdd' /\ RollTyped' /\ ClearTyped'
    BY <2>1 DEF AccessInv, FiguresTyped, DropsAdd, RollTyped, ClearTyped
  <2> QED
    BY <2>1, <2>2, FiguresStay DEF AccessInv
<1>3. CASE Visits!Midnight
  <2>1. /\ UNCHANGED <<eventCh, unsynced, worker, pv, lostEvents, watermark,
                       row, roll, clear, drops, written>>
        /\ today' = today + 1 /\ early' = TRUE /\ today < LastDay
        /\ closed' = [closed EXCEPT ![today] = pv[today]]
    BY <1>3 DEF Visits!Midnight, Visits!redis
  <2>2. /\ today \in Visits!Day /\ pv \in [Visits!Day -> Nat]
        /\ closed \in [Visits!Day -> Nat]
    BY DEF AccessInv, FiguresTyped
  <2>3. /\ closed' \in [Visits!Day -> Nat] /\ closed'[today] = pv[today]
        /\ \A d \in Visits!Day : d # today => closed'[d] = closed[d]
    BY <2>1, <2>2
  <2>4. FiguresTyped'
    <3>1. today' \in Visits!Day /\ watermark \in 0 .. today' - 1
      BY <1>1, <2>1 DEF Visits!Day
    <3> QED
      BY <2>1, <2>3, <3>1 DEF AccessInv, FiguresTyped
  <2>5. RollTyped'
    <3> SUFFICES ASSUME roll # Visits!Idle PROVE RollTyped'
      BY <2>1 DEF RollTyped
    <3>1. roll.last \in Nat /\ roll.last < today
      BY <1>1 DEF AccessInv, RollTyped
    <3>2. roll.last < today'
      BY <1>1, <2>1, <3>1
    <3> QED
      BY <2>1, <3>2 DEF AccessInv, RollTyped
  <2>6. ClearTyped' /\ DropsAdd' /\ CountedOnce'
    BY <2>1 DEF AccessInv, ClearTyped, DropsAdd, CountedOnce
  <2>7. \A d \in Visits!Day : /\ InMySQL(d) /\ d # today => InMySQL(d)'
                              /\ InRedis(d) \/ d = today => InRedis(d)'
    BY <1>1, <2>1, <2>2, <2>3 DEF InMySQL, InRedis
  <2>8. /\ Visits!Archived' = Visits!Archived
        /\ \A d \in Visits!Day : Behind(d)' <=> Behind(d)
    BY <2>1 DEF Visits!Archived, Behind
  <2>9. \A e \in Visits!Archived : e \in Visits!Day /\ e < today
    BY DEF AccessInv, FiguresKept, Visits!Archived
  <2>10. FiguresKept'
    <3>1. \A e \in Visits!Archived : e < today'
      BY <1>1, <2>1, <2>9
    <3>2. \A e \in Visits!Archived : \A d \in Visits!Day : d <= e => InMySQL(d)'
      <4>1. \A e \in Visits!Archived : \A d \in Visits!Day : d <= e => d # today
        BY <1>1, <2>9
      <4> QED
        BY <2>7, <4>1 DEF AccessInv, FiguresKept
    <3>3. \A d \in Visits!Day : d <= watermark => InMySQL(d)'
      <4>1. \A d \in Visits!Day : d <= watermark => d # today
        BY <1>1
      <4> QED
        BY <2>7, <4>1 DEF AccessInv, FiguresKept
    <3>4. \A d \in Visits!Day : Behind(d) \/ d >= today' - 1 => InRedis(d)'
      <4>1. \A d \in Visits!Day : d >= today' - 1 => d >= today - 1
        BY <1>1, <2>1
      <4> QED
        BY <2>7, <4>1 DEF AccessInv, FiguresKept
    <3> QED
      BY <2>1, <2>8, <3>1, <3>2, <3>3, <3>4 DEF FiguresKept
  <2>11. Rolls'
    <3> SUFFICES ASSUME roll # Visits!Idle PROVE Rolls'
      BY <2>1 DEF Rolls
    <3>1. PICK k \in Visits!Day : k = roll.day
      BY DEF AccessInv, RollTyped
    <3>2. k < today /\ k # today
      <4>1. roll.last \in Nat /\ roll.last < today /\ k <= roll.last
        BY <1>1, <3>1 DEF AccessInv, RollTyped
      <4> QED
        BY <1>1, <4>1
    <3>3. \A d \in Visits!Day : d < k => d # today
      BY <1>1, <3>2
    <3>4. \A d \in Visits!Day : /\ d < k => InMySQL(d)'
                                /\ d > k => InRedis(d)'
      BY <2>7, <3>1, <3>3 DEF AccessInv, Rolls
    <3>5. /\ roll.at = "snapshot" => InRedis(k)'
          /\ roll.at = "save" => InMySQL(k)'
          /\ roll.at = "persist" => closed'[k] <= roll.stats.pv
      BY <2>3, <2>7, <3>1, <3>2 DEF AccessInv, Rolls
    <3> QED
      BY <2>1, <3>1, <3>4, <3>5 DEF Rolls
  <2> QED
    BY <2>4, <2>5, <2>6, <2>10, <2>11 DEF AccessInv
<1>4. ASSUME NEW n \in Visits!Day, Visits!Expires(n) PROVE AccessInv'
  <2>1. /\ UNCHANGED <<today, early, eventCh, unsynced, worker, watermark, row, roll,
                       clear, written>>
        /\ Visits!DeletesDays({n}) /\ today - n >= Ttl
        /\ closed' = [closed EXCEPT ![n] = IF n > watermark THEN 0 ELSE @]
        /\ roll.at \in {"snapshot", "persist", "save"} => roll.last >= today - 1
    BY <1>4 DEF Visits!Expires, Visits!clock
  <2>2. n + 2 <= today
    BY <1>1, <2>1, AccessAssumption
  <2>3. /\ closed' \in [Visits!Day -> Nat]
        /\ closed'[n] = IF n > watermark THEN 0 ELSE closed[n]
        /\ \A d \in Visits!Day : d # n => closed'[d] = closed[d]
    BY <2>1 DEF AccessInv, FiguresTyped
  <2>4. /\ FiguresTyped' /\ DropsAdd' /\ CountedOnce'
        /\ \A d \in Visits!Day :
              /\ pv'[d] = IF d \in {n} THEN 0 ELSE pv[d]
              /\ d \in Nat /\ pv[d] \in Nat /\ closed[d] \in Nat /\ row[d].pv \in Nat
    <3>1. {n} \in SUBSET Visits!Day
      OBVIOUS
    <3> HIDE DEF Visits!DeletesDays
    <3> QED
      BY <2>1, <2>3, <3>1, DaysDeleted
  <2>5. RollTyped' /\ ClearTyped'
    BY <2>1 DEF AccessInv, RollTyped, ClearTyped
  <2>6. \A d \in Visits!Day : /\ InMySQL(d) => InMySQL(d)'
                              /\ InRedis(d) /\ (d # n \/ n > watermark) => InRedis(d)'
    BY <2>1, <2>3, <2>4 DEF InMySQL, InRedis
  <2>7. /\ Visits!Archived' = Visits!Archived
        /\ \A d \in Visits!Day : Behind(d)' <=> Behind(d)
    BY <2>1 DEF Visits!Archived, Behind
  <2>8. FiguresKept'
    <3>1. Behind(n) => n > watermark
      BY <1>1 DEF Behind, Visits!Day
    <3>2. ~(n >= today - 1)
      BY <1>1, <2>2
    <3>3. \A d \in Visits!Day : Behind(d) \/ d >= today - 1 => InRedis(d)'
      BY <2>6, <3>1, <3>2 DEF AccessInv, FiguresKept
    <3>4. /\ \A e \in Visits!Archived : e < today
          /\ \A e \in Visits!Archived : \A d \in Visits!Day : d <= e => InMySQL(d)'
          /\ \A d \in Visits!Day : d <= watermark => InMySQL(d)'
      BY <2>6 DEF AccessInv, FiguresKept
    <3> QED
      BY <2>1, <2>7, <3>3, <3>4 DEF FiguresKept
  <2>9. Rolls'
    <3> SUFFICES ASSUME roll # Visits!Idle PROVE Rolls'
      BY <2>1 DEF Rolls
    <3>1. PICK k \in Visits!Day, m \in Visits!Day :
             /\ k = roll.day /\ m = roll.last /\ k <= m
             /\ k > watermark \/ (k = watermark /\ k = m)
             /\ m >= today - 1
      BY <2>1 DEF AccessInv, RollTyped
    <3>2. n >= k => n > watermark
      BY <1>1, <2>2, <3>1
    <3>3. \A d \in Visits!Day : d >= k => d # n \/ n > watermark
      BY <3>2
    <3>4. \A d \in Visits!Day : /\ d < k => InMySQL(d)'
                                /\ d > k => InRedis(d)'
      <4>1. \A d \in Visits!Day : d > k => d >= k
        BY <1>1
      <4> QED
        BY <2>6, <3>1, <3>3, <4>1 DEF AccessInv, Rolls
    <3>5. roll.at = "snapshot" => InRedis(k)'
      <4>1. k >= k
        BY <1>1
      <4> QED
        BY <2>6, <3>1, <3>3, <4>1 DEF AccessInv, Rolls
    <3>6. /\ roll.at = "save" => InMySQL(k)'
          /\ roll.at = "persist" => closed'[k] <= roll.stats.pv
      <4>1. roll.at = "persist" => closed[k] <= roll.stats.pv /\ roll.stats.pv \in Nat
        BY <3>1 DEF AccessInv, Rolls, RollTyped, Figure
      <4>2. closed'[k] = 0 \/ closed'[k] = closed[k]
        BY <2>3
      <4>3. roll.at = "save" => InMySQL(k)'
        BY <2>6, <3>1 DEF AccessInv, Rolls
      <4> QED
        BY <4>1, <4>2, <4>3
    <3> QED
      BY <2>1, <3>1, <3>4, <3>5, <3>6 DEF Rolls
  <2> QED
    BY <2>4, <2>5, <2>8, <2>9 DEF AccessInv
<1> QED
  BY <1>2, <1>3, <1>4 DEF Visits!Time

\* Failures, an empty Redis and a restart give up figures or leave them where
\* they are.
LEMMA FaultsKeepFigures ==
    ASSUME AccessInv, Visits!RollFails \/ Visits!LosesRedis \/ Visits!Restarts
    PROVE  AccessInv'
<1>1. CASE Visits!RollFails
  <2>1. /\ UNCHANGED <<today, early, eventCh, unsynced, worker, pv, lostEvents,
                       watermark, row, clear, drops, written, closed>>
        /\ roll' = Visits!Idle
    BY <1>1 DEF Visits!RollFails, Visits!clock, Visits!redis, Visits!history
  <2>2. FiguresTyped' /\ DropsAdd' /\ RollTyped' /\ ClearTyped'
    BY <2>1 DEF AccessInv, FiguresTyped, DropsAdd, RollTyped, ClearTyped
  <2> QED
    BY <2>1, <2>2, FiguresStay DEF AccessInv
<1>2. CASE Visits!Restarts
  <2>1. /\ UNCHANGED <<today, early, pv, lostEvents, watermark, row, written, closed>>
        /\ eventCh' = <<>> /\ unsynced' = 0 /\ worker' = Visits!Nothing
        /\ roll' = Visits!Idle /\ clear' = Visits!Idle
        /\ drops' = drops - unsynced - worker.taken
    BY <1>2 DEF Visits!Restarts, Visits!clock, Visits!redis
  <2>2. FiguresTyped'
    BY <2>1, AccessAssumption DEF AccessInv, FiguresTyped
  <2>3. DropsAdd'
    BY <2>1, CountsTyped DEF DropsAdd, Visits!Nothing
  <2>4. RollTyped' /\ ClearTyped'
    BY <2>1 DEF RollTyped, ClearTyped
  <2> QED
    BY <2>1, <2>2, <2>3, <2>4, FiguresStay DEF AccessInv
<1>3. CASE Visits!LosesRedis
  <2>1. /\ UNCHANGED <<today, early, eventCh, unsynced, worker, row, roll, clear,
                       written>>
        /\ Visits!DeletesDays(Visits!Day) /\ watermark' = 0
        /\ closed' = [d \in Visits!Day |->
               IF d > watermark \/ d >= today - 1 \/ roll.at # "idle" THEN 0
               ELSE closed[d]]
    BY <1>3 DEF Visits!LosesRedis, Visits!clock
  <2>2. closed' \in [Visits!Day -> Nat]
    BY <2>1 DEF AccessInv, FiguresTyped
  <2>3. /\ FiguresTyped' /\ DropsAdd' /\ CountedOnce'
        /\ \A d \in Visits!Day :
              /\ pv'[d] = IF d \in Visits!Day THEN 0 ELSE pv[d]
              /\ d \in Nat /\ pv[d] \in Nat /\ closed[d] \in Nat /\ row[d].pv \in Nat
    <3>1. Visits!Day \in SUBSET Visits!Day
      OBVIOUS
    <3> QED
      BY <2>1, <2>2, <3>1, DaysDeleted
  <2>4. RollTyped' /\ ClearTyped'
    <3>1. roll # Visits!Idle => roll.day \in Visits!Day /\ roll.day > 0
      BY <2>3 DEF AccessInv, RollTyped, Visits!Day
    <3> QED
      BY <2>1, <3>1 DEF AccessInv, RollTyped, ClearTyped
  <2>5. \A d \in Visits!Day : /\ closed'[d] = 0 \/ closed'[d] = closed[d]
                              /\ d > watermark \/ d >= today - 1 \/ roll.at # "idle"
                                 \/ closed[d] = 0 => closed'[d] = 0
    BY <2>1
  <2>6. \A d \in Visits!Day : /\ InMySQL(d) \/ closed'[d] = 0 => InMySQL(d)'
                              /\ closed'[d] = 0 => InRedis(d)'
    BY <2>1, <2>3, <2>5 DEF InMySQL, InRedis
  <2>7. Visits!Archived' = Visits!Archived
        /\ \A d \in Visits!Day : Behind(d)' <=> \A e \in Visits!Archived : e < d
    BY <2>1 DEF Visits!Archived, Behind
  <2>8. FiguresKept'
    <3>1. ASSUME NEW d \in Visits!Day, \A e \in Visits!Archived : e < d
          PROVE  InRedis(d)'
      <4>1. watermark \in Nat /\ d \in Nat
        BY <2>3 DEF AccessInv, FiguresTyped
      <4>2. d > watermark \/ d <= watermark
        BY <4>1
      <4> QED
        BY <2>5, <2>6, <3>1, <4>2, NothingBehind
    <3>2. \A d \in Visits!Day : d >= today - 1 => InRedis(d)'
      BY <2>5, <2>6
    <3>3. /\ \A e \in Visits!Archived : e < today
          /\ \A e \in Visits!Archived : \A d \in Visits!Day : d <= e => InMySQL(d)'
      BY <2>6 DEF AccessInv, FiguresKept
    <3>4. \A d \in Visits!Day : ~(d <= watermark')
      BY <2>1, <2>3 DEF Visits!Day
    <3> QED
      BY <2>1, <2>7, <3>1, <3>2, <3>3, <3>4 DEF FiguresKept
  <2>9. Rolls'
    <3> SUFFICES ASSUME roll # Visits!Idle PROVE Rolls'
      BY <2>1 DEF Rolls
    <3>1. /\ roll.at # "idle" /\ roll.day \in Visits!Day
          /\ roll.at = "persist" => roll.stats.pv \in Nat
      BY DEF AccessInv, RollTyped, Figure
    <3>2. \A d \in Visits!Day : closed'[d] = 0 /\ InMySQL(d)' /\ InRedis(d)'
      BY <2>5, <2>6, <3>1
    <3>3. roll.at = "persist" => closed'[roll.day] <= roll.stats.pv
      BY <3>1, <3>2
    <3>4. PICK k \in Visits!Day : k = roll.day
      BY <3>1
    <3> QED
      BY <2>1, <3>2, <3>3, <3>4 DEF Rolls, InRedis, InMySQL
  <2> QED
    BY <2>3, <2>4, <2>8, <2>9 DEF AccessInv
<1> QED
  BY <1>1, <1>2, <1>3

\* At the start nothing is counted.
LEMMA FirstFigures == Visits!Init => AccessInv
<1> SUFFICES ASSUME Visits!Init PROVE AccessInv
  OBVIOUS
<1>1. Visits!NothingCounted \in [Visits!Day -> Nat]
      /\ \A d \in Visits!Day : Visits!NothingCounted[d] = 0
  BY DEF Visits!NothingCounted
<1>2. /\ today = 1 /\ early = TRUE
      /\ eventCh = <<>> /\ unsynced = 0 /\ worker = Visits!Nothing
      /\ pv = Visits!NothingCounted /\ lostEvents = Visits!NothingCounted
      /\ watermark = 0
      /\ row = [d \in Visits!Day |-> Visits!NoRow]
      /\ roll = Visits!Idle /\ clear = Visits!Idle
      /\ drops = 0 /\ written = Visits!NothingCounted /\ closed = Visits!NothingCounted
  BY DEF Visits!Init
<1>3. FiguresTyped
  <2>1. Visits!NoRow \in Figure /\ 1 \in Visits!Day
    BY AccessAssumption DEF Visits!NoRow, Figure, Visits!Day
  <2> QED
    BY <1>1, <1>2, <2>1, AccessAssumption DEF FiguresTyped
<1>4. DropsAdd
  <2>1. Visits!NothingCounted = [e \in Visits!Day |-> IF e = 1 THEN 0 ELSE 0]
    BY DEF Visits!NothingCounted
  <2>2. 1 \in Visits!Day /\ 0 \in Int
    BY AccessAssumption DEF Visits!Day
  <2>3. Visits!SumOver([e \in Visits!Day |-> IF e = 1 THEN 0 ELSE 0]) = 0
    BY <2>2, SumOne
  <2>4. Visits!SumOver(lostEvents) = 0
    BY <1>2, <2>1, <2>3
  <2> QED
    BY <1>2, <2>4 DEF DropsAdd, Visits!Nothing
<1>5. Visits!Archived = {} /\ \A d \in Visits!Day : row[d].pv = 0 /\ d > 0
  BY <1>2, AccessAssumption DEF Visits!Archived, Visits!NoRow, Visits!Day
<1>6. RollTyped /\ ClearTyped /\ Rolls
  BY <1>2 DEF RollTyped, ClearTyped, Rolls
<1>7. CountedOnce
  BY <1>1, <1>2, <1>5 DEF CountedOnce, Visits!Idle
<1>8. FiguresKept
  BY <1>1, <1>2, <1>5 DEF FiguresKept, InMySQL, InRedis, Behind
<1> QED
  BY <1>3, <1>4, <1>6, <1>7, <1>8 DEF AccessInv

-----------------------------------------------------------------------------
(* The figures: the theorem                                                *)

\* The figures are where the invariant says in every behaviour.
LEMMA AccessInvHolds == Visits!Spec => []AccessInv
<1>1. ASSUME AccessInv, [Visits!Next]_(Visits!vars) PROVE AccessInv'
  <2>1. CASE UNCHANGED Visits!vars
    <3>1. UNCHANGED <<today, early, eventCh, unsynced, worker, pv, lostEvents,
                      watermark, row, roll, clear, drops, written, closed>>
      BY <2>1 DEF Visits!vars, Visits!clock, Visits!redis, Visits!history
    <3> QED
      BY <1>1, <3>1 
         DEF AccessInv, FiguresTyped, RollTyped, ClearTyped, DropsAdd, CountedOnce,
             FiguresKept, Rolls, InMySQL, InRedis, Behind, Visits!Archived
  <2>2. CASE Visits!Next
    BY <1>1, <2>2, CollectKeepsFigures, WorkerKeepsFigures, RollBeginsKeepsFigures,
       RollStepsKeepFigures, ClearStartsKeepFigures, ClearDelsKeepsFigures,
       ClearFailsKeepsFigures, ClearRowsKeepsFigures, TimeKeepsFigures,
       FaultsKeepFigures
       DEF Visits!Next, Visits!Rollup, Visits!Clearing
  <2> QED
    BY <1>1, <2>1, <2>2
<1> QED
  BY <1>1, FirstFigures, PTL DEF Visits!Spec

\* The property is a part of the invariant.
LEMMA FiguresFollow == AccessInv => Visits!FiguresAddUp
<1> SUFFICES ASSUME AccessInv PROVE Visits!FiguresAddUp
  OBVIOUS
<1>1. \A d \in Visits!Day : /\ row[d] \in Figure /\ row[d].pv \in Nat /\ pv[d] \in Nat
                            /\ written[d] \in Nat /\ closed[d] \in Nat
                            /\ pv[d] <= written[d] /\ row[d].pv <= written[d]
  BY DEF AccessInv, FiguresTyped, CountedOnce, Figure
<1>2. Visits!TypeOK
  <2>1. drops \in Nat
    BY CountsTyped
  <2>2. worker.day \in 0 .. LastDay /\ worker.taken \in Nat
    BY AccessAssumption DEF AccessInv, FiguresTyped, Visits!Nothing, Visits!Day
  <2>3. \A d \in Visits!Day : DOMAIN row[d] = {"pv", "dropped"}
    BY <1>1 DEF Figure
  <2>4. \A f \in {pv, lostEvents, written, closed} : f \in [Visits!Day -> Nat]
    BY DEF AccessInv, FiguresTyped
  <2>5. roll.at \in {"idle", "snapshot", "persist", "save"}
        /\ clear.at \in {"idle", "scan", "del", "rows"}
    BY DEF AccessInv, RollTyped, ClearTyped, Visits!Idle
  <2> QED
    BY <2>1, <2>2, <2>3, <2>4, <2>5 DEF AccessInv, FiguresTyped, Visits!TypeOK
<1>3. Visits!DropsAccounted
  <2>1. lostEvents
          = [d \in Visits!Day |-> IF d \in Visits!Day THEN lostEvents[d] ELSE 0]
    BY DEF AccessInv, FiguresTyped
  <2>2. Visits!DropsOf(Visits!Day) = Visits!SumOver(lostEvents)
    BY <2>1 DEF Visits!DropsOf
  <2> QED
    BY <2>2, CountsTyped DEF Visits!DropsAccounted
<1>4. Visits!NoDaySkipped
  BY <1>1 DEF AccessInv, FiguresKept, InMySQL, Visits!NoDaySkipped
<1>5. Visits!NothingComesBack
  <2> SUFFICES ASSUME NEW d \in Visits!Day
               PROVE  Visits!Max({row[d].pv, Visits!Overview(d)}) <= written[d]
    BY DEF Visits!NothingComesBack
  <2>1. PICK a \in Nat, b \in Nat : /\ a = row[d].pv /\ b = Visits!Overview(d)
                                    /\ a <= written[d] /\ b <= written[d]
    BY <1>1 DEF Visits!Overview
  <2>2. Visits!Max({a, b}) \in {a, b}
    <3>1. \E x \in {a, b} : \A y \in {a, b} : x >= y
      BY <2>1
    <3> QED
      BY <3>1 DEF Visits!Max
  <2> QED
    BY <2>1, <2>2
<1> QED
  BY <1>2, <1>3, <1>4, <1>5 DEF Visits!FiguresAddUp

\* The count of drops is exact; behind the watermark MySQL has of each day what
\* Redis had when it closed; and neither MySQL nor the dashboard ever shows an
\* event twice or one from before a deletion (internal/access): through late
\* events, failures, restarts, deletions, expiry and the loss of Redis.
THEOREM FiguresAddUpHolds == Visits!Spec => []FiguresAddUp
<1>1. AccessInv => FiguresAddUp
  BY FiguresFollow DEF FiguresAddUp
<1> QED
  BY <1>1, AccessInvHolds, PTL

-----------------------------------------------------------------------------
(* The categories: types and their order                                   *)

\* The cardinality is the one of FiniteSets, that the facts are about.
LEMMA TypesCounted == \A S : Trees!Cardinality(S) = Cardinality(S)
BY DEF Trees!Cardinality, Cardinality
\* A smaller bound gives fewer ids.
LEMMA UpTo ==
    ASSUME NEW m \in Nat, NEW n \in Nat, m <= n
    PROVE  1 .. m - 1 \subseteq 1 .. n - 1
OBVIOUS

\* Least of Categories chooses one of the types.
LEMMA FirstType ==
    ASSUME NEW types, types \subseteq Trees!AnyType, types # {}
    PROVE  Trees!Least(types) \in types
<1>1. CASE types \cap Type = {}
  BY <1>1 DEF Trees!Least, Trees!AnyType
<1>2. CASE types \cap Type # {}
  <2>1. PICK n \in types \cap Type : \A m \in types \cap Type : n <= m
    <3>1. types \cap Type \subseteq Nat
      BY TreeAssumption
    <3> QED
      BY <1>2, <3>1, Least
  <2>2. Trees!Min(types \cap Type) \in types \cap Type
    BY <2>1 DEF Trees!Min
  <2> QED
    BY <1>2, <2>2 DEF Trees!Least
<1> QED
  BY <1>1, <1>2

\* The types in the order of Least.
Before(t, u) == t = u \/ (t \in Type /\ (u = OtherType \/ t <= u))

\* Least orders the types by number, and OtherType comes last.
LEMMA InOrder ==
    ASSUME NEW t \in Trees!AnyType, NEW u \in Trees!AnyType
    PROVE  (u = t \/ Trees!Least({u, t}) = u) <=> Before(u, t)
<1>1. CASE u \in Type /\ t \in Type
  <2>1. {u, t} \cap Type = {u, t} /\ u \in Nat /\ t \in Nat
    BY <1>1, TreeAssumption
  <2>2. Trees!Least({u, t}) = Trees!Min({u, t})
    BY <2>1 DEF Trees!Least
  <2>3. u <= t => Trees!Min({u, t}) = u
    <3> SUFFICES ASSUME u <= t PROVE Trees!Min({u, t}) = u
      OBVIOUS
    <3>1. /\ \A y \in {u, t} : u <= y
          /\ \A x \in {u, t} : (\A y \in {u, t} : x <= y) => x = u
      BY <2>1
    <3> QED
      BY <3>1 DEF Trees!Min
  <2>4. ~(u <= t) => Trees!Min({u, t}) = t
    <3> SUFFICES ASSUME ~(u <= t) PROVE Trees!Min({u, t}) = t
      OBVIOUS
    <3>1. /\ \A y \in {u, t} : t <= y
          /\ \A x \in {u, t} : (\A y \in {u, t} : x <= y) => x = t
      BY <2>1
    <3> QED
      BY <3>1 DEF Trees!Min
  <2>5. ~(u <= t) => t # u
    BY <2>1
  <2>6. u # OtherType /\ t # OtherType
    BY <1>1, TreeAssumption
  <2> QED
    BY <1>1, <2>2, <2>3, <2>4, <2>5, <2>6 DEF Before
<1>2. CASE u \in Type /\ t = OtherType
  <2>1. {u, t} \cap Type = {u} /\ u \in Nat
    BY <1>2, TreeAssumption
  <2>2. Trees!Min({u}) = u
    BY <2>1 DEF Trees!Min
  <2>3. Trees!Least({u, t}) = u
    BY <2>1, <2>2 DEF Trees!Least
  <2> QED
    BY <1>2, <2>3 DEF Before
<1>3. CASE u = OtherType /\ t \in Type
  <2>1. {u, t} \cap Type = {t} /\ t \in Nat /\ u \notin Type
    BY <1>3, TreeAssumption
  <2>2. Trees!Min({t}) = t
    BY <2>1 DEF Trees!Min
  <2>3. Trees!Least({u, t}) = t
    BY <2>1, <2>2 DEF Trees!Least
  <2> QED
    BY <1>3, <2>1, <2>3 DEF Before
<1>4. CASE u = OtherType /\ t = OtherType
  BY <1>4 DEF Before
<1> QED
  BY <1>1, <1>2, <1>3, <1>4 DEF Trees!AnyType

\* New categories get consecutive ids in the order of their types.
LEMMA TypeRanks ==
    ASSUME NEW new \in SUBSET Trees!AnyType, NEW rank,
           \A t \in new : rank[t] =
               Trees!Cardinality({u \in new : u = t \/ Trees!Least({u, t}) = u}) - 1
    PROVE  /\ Trees!Cardinality(new) \in Nat
           /\ \A t \in new : rank[t] \in Nat /\ rank[t] < Trees!Cardinality(new)
           /\ \A t, u \in new : rank[t] = rank[u] => t = u
<1> DEFINE To(t) == {u \in new : Before(u, t)}
<1>1. IsFiniteSet(new) /\ Cardinality(new) \in Nat
  <2>1. IsFiniteSet(Trees!AnyType)
    BY TreeAssumption, FS_AddElement DEF Trees!AnyType
  <2> QED
    BY <2>1, FS_Subset, FS_CardinalityType
<1>2. \A t \in new : rank[t] = Cardinality(To(t)) - 1
  <2> SUFFICES ASSUME NEW t \in new PROVE rank[t] = Cardinality(To(t)) - 1
    OBVIOUS
  <2>1. {u \in new : u = t \/ Trees!Least({u, t}) = u} = To(t)
    BY InOrder
  <2> QED
    BY <2>1, TypesCounted
<1>3. ASSUME NEW t \in new
      PROVE  /\ IsFiniteSet(To(t)) /\ Cardinality(To(t)) \in Nat
             /\ Cardinality(To(t)) >= 1 /\ Cardinality(To(t)) <= Cardinality(new)
  <2>1. To(t) \in SUBSET new /\ t \in To(t)
    BY DEF Before
  <2> HIDE DEF To
  <2>2. IsFiniteSet(To(t)) /\ Cardinality(To(t)) \in Nat
        /\ Cardinality(To(t)) <= Cardinality(new)
    BY <1>1, <2>1, FS_Subset, FS_CardinalityType
  <2>3. Cardinality(To(t)) # 0
    BY <2>1, <2>2, FS_EmptySet
  <2> QED
    BY <2>2, <2>3
<1>4. ASSUME NEW t \in new, NEW u \in new, t # u, Before(t, u)
      PROVE  Cardinality(To(t)) # Cardinality(To(u))
  <2>1. To(t) \in SUBSET To(u) /\ u \in To(u) /\ u \notin To(t)
    <3>1. \A x \in new : Before(x, t) => Before(x, u)
      BY <1>4, TreeAssumption DEF Before, Trees!AnyType
    <3>2. Before(u, u) /\ ~Before(u, t)
      BY <1>4, TreeAssumption DEF Before, Trees!AnyType
    <3> HIDE DEF Before
    <3> QED
      BY <3>1, <3>2
  <2>2. IsFiniteSet(To(u))
    BY <1>3
  <2> HIDE DEF To
  <2> QED
    BY <2>1, <2>2, FS_Subset
<1>5. \A t, u \in new : Before(t, u) \/ Before(u, t)
  BY TreeAssumption DEF Before, Trees!AnyType
<1> HIDE DEF To
<1>6. \A t \in new : rank[t] \in Nat /\ rank[t] < Trees!Cardinality(new)
  BY <1>1, <1>2, <1>3, TypesCounted
<1>7. ASSUME NEW t \in new, NEW u \in new, rank[t] = rank[u] PROVE t = u
  <2>1. Cardinality(To(t)) = Cardinality(To(u))
    BY <1>2, <1>3, <1>7
  <2> QED
    BY <1>4, <1>5, <2>1
<1> QED
  BY <1>1, <1>6, <1>7, TypesCounted

-----------------------------------------------------------------------------
(* The categories: the inductive invariant                                 *)

\* A tree of known types, with every parent in it.
Closed(nodes) ==
    /\ DOMAIN nodes \subseteq Trees!AnyType
    /\ \A t \in DOMAIN nodes : nodes[t] \in [parent : DOMAIN nodes \cup {0},
                                             name : {"own", "other"}]

\* What a transaction reads, and what it would read now.
WithSnapshot == {p \in Actor : caller[p].at \in {"tx", "create"}}
Now == Trees!Snapshot
Views == {Now} \cup {caller[p].read : p \in WithSnapshot}

\* Source s is mapped to category c; c has the key of type t of s.
Has(view, s, c) ==
    \E t \in DOMAIN view.mapping[s] : view.mapping[s][t] = c
Keyed(view, s, t, c) ==
    c \in DOMAIN view.category /\ view.category[c].key = <<s, t>>

\* A category is a source's own: it alone is mapped to it, or it is the key's.
Sole(view, s, c) ==
    \/ Has(view, s, c) /\ \A u \in Source \ {s} : ~Has(view, u, c)
    \/ \E t \in Trees!AnyType : Keyed(view, s, t, c)

\* A view: trees, mappings and categories created before.
ViewTyped(view) ==
    /\ DOMAIN view.tree = Source /\ DOMAIN view.mapping = Source
    /\ \A s \in Source :
          /\ Closed(view.tree[s]) /\ DOMAIN view.mapping[s] \subseteq Trees!AnyType
          /\ \A t \in DOMAIN view.mapping[s] : view.mapping[s][t] \in 1 .. nextCat - 1
    /\ DOMAIN view.category \subseteq 1 .. nextCat - 1

\* The values of the variables.
CategoriesTyped ==
    /\ \A c \in DOMAIN category :
          category[c] \in [pid : Trees!Cat \cup {0}, show : BOOLEAN,
                           key : {Trees!Legacy} \cup (Source \X Trees!AnyType)]
    /\ nextCat \in 1 .. MaxCat + 1
    /\ treeMutex \in Actor \cup {Trees!Unheld}
    /\ requests \in 0 .. MaxOrders /\ raced \subseteq Source
    /\ \A view \in Views : ViewTyped(view)

\* What the goroutines are at.
JobTyped(job) ==
    /\ job.at \in {"idle", "exclusive", "tx", "refresh", "orphans", "mutex", "create",
                   "load", "store", "order"}
    /\ job.at \in {"exclusive", "tx", "mutex", "create"} => job.site \in Source
    /\ job.at \in {"exclusive", "tx"} => Closed(job.plan)
    /\ job.at = "tx" => job.refresh \in BOOLEAN
    /\ job.at = "refresh" \/ (job.at = "tx" /\ job.refresh)
       => /\ job.todo \subseteq Source /\ job.todo \subseteq DOMAIN job.plans
          /\ \A s \in Source : s \in DOMAIN job.plans => Closed(job.plans[s])
    /\ job.at = "orphans" => job.orphans \subseteq 1 .. nextCat - 1
    /\ job.at = "order" => \A c \in DOMAIN job.shown : job.shown[c] \in BOOLEAN
\* Every goroutine.
JobsTyped == DOMAIN caller = Actor /\ \A p \in Actor : JobTyped(caller[p])

\* What has been a source's own is mapped by no other source any more.
Apart ==
    \A view \in Views : \A s \in Source : \A c : Sole(view, s, c) =>
        \A u \in Source \ {s} : ~Has(Now, u, c)

\* A category has one owner at most, whenever it was read.
OneOwner ==
    \A view, other \in Views : \A s, u \in Source : \A c :
        Sole(view, s, c) /\ Sole(other, u, c) => s = u

\* A source's tree, mapping and keys in step, unless its transactions raced.
Sound(view, s) ==
    /\ DOMAIN view.mapping[s] = DOMAIN view.tree[s]
    /\ \A t \in DOMAIN view.mapping[s] :
          /\ view.mapping[s][t] \in DOMAIN view.category
          /\ \A k \in Trees!AnyType : Keyed(view, s, k, view.mapping[s][t]) => k = t
    /\ OtherType \in DOMAIN view.mapping[s]
       => Keyed(view, s, OtherType, view.mapping[s][OtherType])
    /\ \A c \in DOMAIN view.category : Keyed(view, s, OtherType, c)
       => OtherType \in DOMAIN view.mapping[s] /\ view.mapping[s][OtherType] = c
\* So is every view of them.
AllSound == \A s \in Source \ raced : \A view \in Views : Sound(view, s)

\* The root named "other" that was made for a source was never another's.
NeverShared ==
    \A s \in Source \ raced : \A c \in DOMAIN category : Keyed(Now, s, OtherType, c)
        => \A view \in Views : \A u \in Source \ {s} : ~Has(view, u, c)

\* What deleteOrphanDisplayRootCategories is about to drop is nobody's.
OrphansGone ==
    \A p \in Actor : caller[p].at = "orphans" =>
        \A s \in Source \ raced : \A c \in caller[p].orphans : ~Has(Now, s, c)

\* The invariant.
TreeInv == /\ CategoriesTyped /\ JobsTyped /\ Apart /\ OneOwner /\ AllSound
           /\ NeverShared /\ OrphansGone

-----------------------------------------------------------------------------
(* The categories: views, and what a step has to leave                     *)

\* MappedByOthers and Range of Categories say which sources are mapped to a
\* category.
LEMMA Others ==
    ASSUME NEW view, NEW s \in Source, NEW c
    PROVE  /\ c \in Trees!MappedByOthers(view, s)
              <=> \E u \in Source \ {s} : Has(view, u, c)
           /\ c \in Trees!Range(view.mapping[s]) <=> Has(view, s, c)
BY DEF Trees!MappedByOthers, Trees!Range, Has

\* appendOtherCategoryPlan (repository/category_other.go) adds a root: parents
\* are still in the plan.
LEMMA PlannedClosed ==
    ASSUME NEW site, NEW old, Closed(site), Closed(old)
    PROVE  Closed(Trees!Planned(site, old))
<1> DEFINE kept == Trees!OtherRoots(old) \ DOMAIN site
<1>1. CASE Trees!OtherRoots(site) # {}
  BY <1>1 DEF Trees!Planned
<1>2. CASE Trees!OtherRoots(site) = {} /\ kept # {}
  <2>1. kept \subseteq Trees!AnyType /\ kept \subseteq DOMAIN old
    BY DEF Closed, Trees!OtherRoots
  <2>2. Trees!Least(kept) \in kept
    BY <1>2, <2>1, FirstType
  <2>3. PICK t \in DOMAIN old :
           /\ t = Trees!Least(kept) /\ old[t] = Trees!Node(0, "other")
           /\ t \in Trees!AnyType
    BY <2>1, <2>2 DEF Trees!OtherRoots
  <2>4. Trees!Planned(site, old) = Trees!With(site, t, old[t])
    BY <1>2, <2>3 DEF Trees!Planned
  <2> QED
    BY <2>3, <2>4 DEF Closed, Trees!With, Trees!Node
<1>3. CASE Trees!OtherRoots(site) = {} /\ kept = {}
  <2>1. Trees!Planned(site, old) = Trees!With(site, OtherType, Trees!Node(0, "other"))
    BY <1>3 DEF Trees!Planned
  <2> QED
    BY <2>1 DEF Closed, Trees!With, Trees!Node, Trees!AnyType
<1> QED
  BY <1>1, <1>2, <1>3

\* Views change with what the goroutine reads.
LEMMA ViewsAfter ==
    ASSUME NEW p \in Actor, NEW job, DOMAIN caller = Actor,
           caller' = [caller EXCEPT ![p] = job],
           job.at \in {"tx", "create"} => job.read = Now'
    PROVE  Views' \subseteq Views \cup {Now'}
<1> SUFFICES ASSUME NEW q \in WithSnapshot' PROVE caller'[q].read \in Views \cup {Now'}
  BY DEF Views
<1>1. CASE q = p
  BY <1>1 DEF WithSnapshot
<1>2. CASE q # p
  BY <1>2 DEF WithSnapshot, Views
<1> QED
  BY <1>1, <1>2

\* What holds of the tables and of what was read of them stays when a goroutine
\* goes on without writing.
LEMMA TablesStay ==
    ASSUME TreeInv, NEW p \in Actor, NEW job,
           UNCHANGED <<tree, mapping, category, nextCat, raced>>,
           caller' = [caller EXCEPT ![p] = job], JobTyped(job),
           job.at \in {"tx", "create"} => job.read = Now,
           job.at = "orphans" =>
               \A s \in Source \ raced : \A c \in job.orphans : ~Has(Now, s, c),
           treeMutex' \in Actor \cup {Trees!Unheld}, requests' \in 0 .. MaxOrders
    PROVE  TreeInv'
<1>1. Now' = Now /\ Now \in Views
  BY DEF Now, Views, Trees!Snapshot
<1>2. Views' \subseteq Views
  <2>1. Views' \subseteq Views \cup {Now'}
    BY <1>1, ViewsAfter DEF TreeInv, JobsTyped
  <2> QED
    BY <1>1, <2>1
<1>3. CategoriesTyped'
  BY <1>2 DEF TreeInv, CategoriesTyped, ViewTyped
<1>4. JobsTyped'
  <2>1. \A q \in Actor : caller'[q] = IF q = p THEN job ELSE caller[q]
    BY DEF TreeInv, JobsTyped
  <2>2. \A q \in Actor : JobTyped(caller'[q])
    BY <2>1 DEF TreeInv, JobsTyped
  <2>3. \A q \in Actor : JobTyped(caller[q])'
    BY <2>2 DEF JobTyped
  <2> QED
    BY <2>3 DEF TreeInv, JobsTyped
<1>5. Apart' /\ OneOwner' /\ AllSound' /\ NeverShared'
  <2>1. Apart'
    BY <1>1, <1>2 DEF TreeInv, Apart
  <2>2. OneOwner'
    BY <1>2 DEF TreeInv, OneOwner
  <2>3. AllSound'
    BY <1>2 DEF TreeInv, AllSound
  <2>4. NeverShared'
    BY <1>1, <1>2 DEF TreeInv, NeverShared
  <2> QED
    BY <2>1, <2>2, <2>3, <2>4
<1>6. OrphansGone'
  <2>1. \A q \in Actor : caller'[q] = IF q = p THEN job ELSE caller[q]
    BY DEF TreeInv, JobsTyped
  <2> QED
    BY <1>1, <2>1 DEF TreeInv, OrphansGone
<1> QED
  BY <1>3, <1>4, <1>5, <1>6 DEF TreeInv

\* What a goroutine that writes has to leave: a source gains a category only
\* as a new one or as one that was its own, and so does a key.
Gains ==
    /\ \A s \in Source : \A c : Has(Now', s, c) =>
          \/ Has(Now, s, c) \/ c >= nextCat
          \/ \E view \in Views : Sole(view, s, c)
    /\ \A s \in Source : \A t \in Trees!AnyType : \A c : Keyed(Now', s, t, c) =>
          \/ Keyed(Now, s, t, c) \/ c >= nextCat
          \/ \E view \in Views : Sole(view, s, c)
    /\ \A s, u \in Source : \A t \in Trees!AnyType : \A c :
          c >= nextCat /\ Has(Now', s, c) /\ (Has(Now', u, c) \/ Keyed(Now', u, t, c))
          => s = u
\* What it has to leave of a source whose transactions do not race.
GainsSoundly ==
    \A s \in Source \ raced' :
        /\ Sound(Now', s)
        /\ \A c : Has(Now', s, c) => Has(Now, s, c) \/ c >= nextCat
        /\ \A c : Keyed(Now', s, OtherType, c)
                  => Keyed(Now, s, OtherType, c) \/ c >= nextCat

\* Every category that a view knows has been created.
LEMMA ViewBounds ==
    ASSUME TreeInv, NEW view \in Views, NEW s \in Source, NEW c
    PROVE  /\ Has(view, s, c) => c \in 1 .. nextCat - 1
           /\ \A t : Keyed(view, s, t, c) => c \in 1 .. nextCat - 1
           /\ Sole(view, s, c) => c \in 1 .. nextCat - 1
           /\ nextCat \in Nat
BY TreeAssumption DEF TreeInv, CategoriesTyped, ViewTyped, Has, Keyed, Sole

\* What becomes a source's own is mapped by no other source, now and in any view.
LEMMA ApartStays ==
    ASSUME TreeInv, Gains, Views' \subseteq Views \cup {Now'}
    PROVE  Apart' /\ OneOwner'
<1>1. nextCat \in Nat
  BY TreeAssumption DEF TreeInv, CategoriesTyped
<1>2. Now \in Views
  BY DEF Views
\* an own category of an earlier view
<1>3. ASSUME NEW view \in Views, NEW s \in Source, NEW c, Sole(view, s, c),
             NEW u \in Source, u # s, Has(Now', u, c)
      PROVE  FALSE
  <2>1. c < nextCat /\ c \in Nat
    BY <1>1, <1>3, ViewBounds
  <2>2. CASE Has(Now, u, c)
    BY <1>3, <2>2 DEF TreeInv, Apart
  <2>3. CASE \E other \in Views : Sole(other, u, c)
    BY <1>3, <2>3 DEF TreeInv, OneOwner
  <2>4. ~(c >= nextCat)
    BY <1>1, <2>1
  <2> QED
    BY <1>3, <2>2, <2>3, <2>4 DEF Gains
\* a key of the new view
<1>4. ASSUME NEW s \in Source, NEW t \in Trees!AnyType, NEW c, Keyed(Now', s, t, c)
      PROVE  c >= nextCat \/ \E view \in Views : Sole(view, s, c)
  <2>1. Keyed(Now, s, t, c) => Sole(Now, s, c)
    BY DEF Sole
  <2> QED
    BY <1>2, <1>4, <2>1 DEF Gains
<1>5. ASSUME NEW s \in Source, NEW c, Sole(Now', s, c), NEW u \in Source, u # s
      PROVE  ~Has(Now', u, c)
  <2>1. CASE \A w \in Source \ {s} : ~Has(Now', w, c)
    BY <1>5, <2>1
  <2>2. CASE \E t \in Trees!AnyType : Keyed(Now', s, t, c)
    <3>1. PICK t \in Trees!AnyType : Keyed(Now', s, t, c)
      BY <2>2
    <3>2. CASE c >= nextCat
      BY <1>5, <3>1, <3>2 DEF Gains
    <3>3. CASE \E view \in Views : Sole(view, s, c)
      BY <1>3, <1>5, <3>3
    <3> QED
      BY <1>4, <3>1, <3>2, <3>3
  <2> QED
    BY <1>5, <2>1, <2>2 DEF Sole
<1>6. Apart'
  <2> SUFFICES ASSUME NEW view \in Views', NEW s \in Source, NEW c, Sole(view, s, c),
                      NEW u \in Source \ {s}
               PROVE  ~Has(Now', u, c)
    BY DEF Apart
  <2>1. view \in Views \/ view = Now'
    OBVIOUS
  <2> QED
    BY <1>3, <1>5, <2>1
\* an own category now and before
<1>7. ASSUME NEW view \in Views, NEW s \in Source, NEW u \in Source, NEW c,
             Sole(view, s, c), Sole(Now', u, c)
      PROVE  s = u
  <2>1. CASE Has(Now', u, c)
    BY <1>3, <1>7, <2>1
  <2>2. CASE \E t \in Trees!AnyType : Keyed(Now', u, t, c)
    <3>1. c >= nextCat \/ \E other \in Views : Sole(other, u, c)
      BY <1>4, <2>2
    <3>2. ~(c >= nextCat)
      BY <1>1, <1>7, ViewBounds
    <3> QED
      BY <1>7, <3>1, <3>2 DEF TreeInv, OneOwner
  <2> QED
    BY <1>7, <2>1, <2>2 DEF Sole
<1>8. ASSUME NEW s \in Source, NEW u \in Source, NEW c,
             Sole(Now', s, c), Sole(Now', u, c)
      PROVE  s = u
  <2>1. CASE Has(Now', s, c) \/ Has(Now', u, c)
    BY <1>5, <1>8, <2>1
  <2>2. CASE ~Has(Now', s, c) /\ ~Has(Now', u, c)
    <3>1. PICK t \in Trees!AnyType, k \in Trees!AnyType :
             Keyed(Now', s, t, c) /\ Keyed(Now', u, k, c)
      BY <1>8, <2>2 DEF Sole
    <3>2. <<s, t>> = <<u, k>>
      BY <3>1 DEF Keyed
    <3> QED
      BY <3>2
  <2> QED
    BY <2>1, <2>2
<1>9. OneOwner'
  <2> SUFFICES ASSUME NEW view \in Views', NEW other \in Views', NEW s \in Source,
                      NEW u \in Source, NEW c, Sole(view, s, c), Sole(other, u, c)
               PROVE  s = u
    BY DEF OneOwner
  <2>1. (view \in Views \/ view = Now') /\ (other \in Views \/ other = Now')
    OBVIOUS
  <2>2. CASE view \in Views /\ other \in Views
    BY <2>2 DEF TreeInv, OneOwner
  <2> QED
    BY <1>7, <1>8, <2>1, <2>2
<1> QED
  BY <1>6, <1>9

\* A goroutine that writes and leaves what it has to leave keeps the invariant.
LEMMA TablesChange ==
    ASSUME TreeInv, NEW p \in Actor, NEW job, Gains, GainsSoundly,
           caller' = [caller EXCEPT ![p] = job],
           job.at \in {"refresh", "load"}, JobTyped(job),
           treeMutex' \in Actor \cup {Trees!Unheld}, requests' \in 0 .. MaxOrders,
           raced \subseteq raced', raced' \subseteq Source,
           nextCat' \in 1 .. MaxCat + 1, nextCat <= nextCat',
           ViewTyped(Now)',
           \A c \in DOMAIN category' :
               category'[c] \in [pid : Trees!Cat \cup {0}, show : BOOLEAN,
                                 key : {Trees!Legacy} \cup (Source \X Trees!AnyType)]
    PROVE  TreeInv'
<1>1. Views' \subseteq Views \cup {Now'}
  BY ViewsAfter DEF TreeInv, JobsTyped
<1>2. nextCat \in Nat /\ nextCat' \in Nat
  BY TreeAssumption DEF TreeInv, CategoriesTyped
<1>3. CategoriesTyped'
  <2>1. ASSUME NEW view \in Views PROVE ViewTyped(view)'
    <3>1. ViewTyped(view)
      BY DEF TreeInv, CategoriesTyped
    <3>2. 1 .. nextCat - 1 \subseteq 1 .. nextCat' - 1
      BY <1>2, UpTo
    <3> QED
      BY <3>1, <3>2 DEF ViewTyped
  <2>2. \A view \in Views' : ViewTyped(view)'
    <3> SUFFICES ASSUME NEW view \in Views' PROVE ViewTyped(view)'
      OBVIOUS
    <3>1. CASE view = Now'
      BY <3>1 DEF ViewTyped
    <3> QED
      BY <1>1, <2>1, <3>1
  <2> QED
    BY <2>2 DEF CategoriesTyped
<1>4. JobsTyped' /\ \A q \in Actor : caller'[q] = IF q = p THEN job ELSE caller[q]
  <2>1. \A q \in Actor : caller'[q] = IF q = p THEN job ELSE caller[q]
    BY DEF TreeInv, JobsTyped
  <2>2. \A q \in Actor : JobTyped(caller'[q])
    BY <2>1 DEF TreeInv, JobsTyped
  <2>3. 1 .. nextCat - 1 \subseteq 1 .. nextCat' - 1
    BY <1>2, UpTo
  <2>4. ASSUME NEW q \in Actor PROVE JobTyped(caller[q])'
    BY <2>2, <2>3 DEF JobTyped
  <2> QED
    BY <2>1, <2>4 DEF TreeInv, JobsTyped
<1>5. Apart' /\ OneOwner'
  BY <1>1, ApartStays
<1>6. AllSound'
  BY <1>1 DEF TreeInv, AllSound, GainsSoundly
<1>7. NeverShared'
  <2> SUFFICES ASSUME NEW s \in Source \ raced', NEW c, Keyed(Now', s, OtherType, c),
                      NEW view \in Views', NEW u \in Source \ {s}, Has(view, u, c)
               PROVE  FALSE
    BY DEF NeverShared
  <2>1. CASE view = Now'
    <3>1. Sole(Now', s, c)
      BY DEF Sole, Trees!AnyType
    <3>2. Now' \in Views'
      BY DEF Views
    <3> QED
      BY <1>5, <2>1, <3>1, <3>2 DEF Apart
  <2>2. CASE view \in Views
    <3>1. ~(c >= nextCat)
      BY <1>2, <2>2, ViewBounds
    <3>2. Keyed(Now, s, OtherType, c) /\ c \in DOMAIN category
      BY <3>1 DEF GainsSoundly, Keyed, Now, Trees!Snapshot
    <3> QED
      BY <2>2, <3>2 DEF TreeInv, NeverShared
  <2> QED
    BY <1>1, <2>1, <2>2
<1>8. OrphansGone'
  <2> SUFFICES ASSUME NEW q \in Actor, caller'[q].at = "orphans",
                      NEW s \in Source \ raced',
                      NEW c \in caller'[q].orphans, Has(Now', s, c)
               PROVE  FALSE
    BY DEF OrphansGone
  <2>1. q # p /\ caller'[q] = caller[q]
    BY <1>4
  <2>2. ~(c >= nextCat)
    BY <1>2, <2>1 DEF TreeInv, JobsTyped, JobTyped
  <2>3. Has(Now, s, c)
    BY <2>2 DEF GainsSoundly
  <2> QED
    BY <2>1, <2>3 DEF TreeInv, OrphansGone
<1> QED
  BY <1>3, <1>4, <1>5, <1>6, <1>7, <1>8 DEF TreeInv

\* What the tables hold is one of the views.
LEMMA NowTyped ==
    ASSUME TreeInv
    PROVE  /\ Now \in Views /\ ViewTyped(Now)
           /\ Now.tree = tree /\ Now.mapping = mapping /\ Now.category = category
           /\ DOMAIN tree = Source /\ DOMAIN mapping = Source
           /\ \A s \in Source : Closed(tree[s])
           /\ DOMAIN category \subseteq 1 .. nextCat - 1
<1>1. Now \in Views /\ ViewTyped(Now)
  BY DEF TreeInv, CategoriesTyped, Views
<1>2. Now.tree = tree /\ Now.mapping = mapping /\ Now.category = category
  BY DEF Now, Trees!Snapshot
<1> HIDE DEF Now
<1> QED
  BY <1>1, <1>2 DEF ViewTyped

-----------------------------------------------------------------------------
(* The categories: the operations                                          *)

\* Who asks for an operation has read no more than it keeps.
LEMMA AsksKeepTrees ==
    ASSUME TreeInv, NEW p \in Actor,
           \/ \E s \in Source : Trees!Ensures(p, s)
           \/ \E s \in Source, c \in Trees!Cat : Trees!Orders(p, s, c)
           \/ \E s \in Source, site \in Site, confirmed \in BOOLEAN :
                 Trees!Syncs(p, s, site, confirmed)
           \/ \E enabled \in SUBSET Source : Trees!Refreshes(p, enabled)
    PROVE  TreeInv'
<1>1. /\ UNCHANGED <<tree, mapping, category, nextCat, raced, treeMutex>>
      /\ requests < MaxOrders /\ requests' = requests + 1
  BY DEF Trees!Ensures, Trees!Orders, Trees!Syncs, Trees!Refreshes, Trees!Asks,
         Trees!tables
<1>2. requests' \in 0 .. MaxOrders /\ treeMutex' \in Actor \cup {Trees!Unheld}
  BY <1>1, TreeAssumption DEF TreeInv, CategoriesTyped
<1>3. CASE \E s \in Source : Trees!Ensures(p, s)
  <2>1. PICK s \in Source :
           caller' = [caller EXCEPT ![p] = [at |-> "mutex", site |-> s]]
    BY <1>3 DEF Trees!Ensures, Trees!Becomes
  <2>2. JobTyped([at |-> "mutex", site |-> s])
    BY DEF JobTyped
  <2> QED
    BY <1>1, <1>2, <2>1, <2>2, TablesStay
<1>4. CASE \E s \in Source, c \in Trees!Cat : Trees!Orders(p, s, c)
  <2>1. PICK s \in Source, c \in Trees!Cat : Trees!Orders(p, s, c)
    BY <1>4
  <2> DEFINE shown == [d \in Trees!Range(mapping[s]) |->
                          IF d = c THEN ~category[d].show ELSE category[d].show]
  <2>2. /\ caller' = [caller EXCEPT ![p] = [at |-> "order", shown |-> shown]]
        /\ Trees!Range(mapping[s]) \subseteq DOMAIN category
    BY <2>1 DEF Trees!Orders, Trees!Becomes
  <2>3. \A d \in DOMAIN shown : shown[d] \in BOOLEAN
    BY <2>2 DEF TreeInv, CategoriesTyped
  <2> HIDE DEF shown
  <2>4. JobTyped([at |-> "order", shown |-> shown])
    BY <2>3 DEF JobTyped
  <2> QED
    BY <1>1, <1>2, <2>2, <2>4, TablesStay
<1>5. CASE \E s \in Source, site \in Site, confirmed \in BOOLEAN :
              Trees!Syncs(p, s, site, confirmed)
  <2>1. PICK s \in Source, site \in Site :
           caller' = [caller EXCEPT ![p] =
                         [at |-> "exclusive", site |-> s, plan |-> site]]
    BY <1>5 DEF Trees!Syncs, Trees!Becomes
  <2>2. Closed(site)
    BY TreeAssumption DEF Closed, Trees!AnyType
  <2>3. JobTyped([at |-> "exclusive", site |-> s, plan |-> site])
    BY <2>2 DEF JobTyped
  <2> QED
    BY <1>1, <1>2, <2>1, <2>3, TablesStay
<1>6. CASE \E enabled \in SUBSET Source : Trees!Refreshes(p, enabled)
  <2>1. PICK todo \in SUBSET Source :
           caller' = [caller EXCEPT ![p] = [at |-> "refresh", todo |-> todo,
                                            plans |-> [s \in todo |-> tree[s]]]]
    BY <1>6 DEF Trees!Refreshes, Trees!Becomes
  <2>2. \A s \in Source : Closed(tree[s])
    BY NowTyped
  <2> DEFINE plans == [s \in todo |-> tree[s]]
             job == [at |-> "refresh", todo |-> todo, plans |-> plans]
  <2>3. DOMAIN plans = todo /\ \A s \in Source : s \in DOMAIN plans => Closed(plans[s])
    BY <2>2
  <2>4. caller' = [caller EXCEPT ![p] = job]
    BY <2>1
  <2> HIDE DEF plans
  <2>5. job.at = "refresh" /\ job.todo = todo /\ job.plans = plans
    OBVIOUS
  <2> HIDE DEF job
  <2>6. JobTyped(job)
    BY <2>3, <2>5 DEF JobTyped
  <2> QED
    BY <1>1, <1>2, <2>4, <2>5, <2>6, TablesStay
<1> QED
  BY <1>3, <1>4, <1>5, <1>6

\* A transaction that opens or fails, a reload and the wait for otherCategoryMu
\* write none of the tables.
LEMMA ReadsKeepTrees ==
    ASSUME TreeInv, NEW p \in Actor,
           \/ Trees!OpensSync(p) \/ Trees!FailsPlan(p) \/ Trees!OpensRefresh(p)
           \/ Trees!SeesOrphans(p) \/ Trees!EntersMutex(p) \/ Trees!FailsOther(p)
           \/ Trees!Loads(p) \/ Trees!Stores(p)
    PROVE  TreeInv'
<1>1. /\ UNCHANGED <<tree, mapping, category, nextCat, raced, requests>>
      /\ treeMutex' \in Actor \cup {Trees!Unheld} /\ requests' \in 0 .. MaxOrders
  <2>1. treeMutex \in Actor \cup {Trees!Unheld} /\ requests \in 0 .. MaxOrders
    BY DEF TreeInv, CategoriesTyped
  <2> QED
    BY <2>1 DEF Trees!OpensSync, Trees!FailsPlan, Trees!OpensRefresh, Trees!SeesOrphans,
       Trees!EntersMutex, Trees!FailsOther, Trees!Loads, Trees!Stores, Trees!tables
<1>2. JobTyped(caller[p])
  BY DEF TreeInv, JobsTyped
<1>3. ASSUME caller' = [caller EXCEPT ![p] = Trees!Idle] PROVE TreeInv'
  <2>1. JobTyped(Trees!Idle) /\ Trees!Idle.at = "idle"
    BY DEF JobTyped, Trees!Idle
  <2> QED
    BY <1>1, <1>3, <2>1, TablesStay
<1>4. CASE Trees!FailsPlan(p) \/ Trees!FailsOther(p) \/ Trees!Stores(p)
  BY <1>3, <1>4 DEF Trees!FailsPlan, Trees!FailsOther, Trees!Stores, Trees!Becomes
<1>5. CASE Trees!OpensSync(p)
  <2> DEFINE job == [at |-> "tx", site |-> caller[p].site, refresh |-> FALSE,
                     plan |-> caller[p].plan, read |-> Now]
  <2>1. caller' = [caller EXCEPT ![p] = job] /\ caller[p].at = "exclusive"
    BY <1>5 DEF Trees!OpensSync, Trees!Becomes, Trees!At, Now
  <2>2. JobTyped(job)
    BY <1>2, <2>1 DEF JobTyped
  <2>3. job.at = "tx" /\ job.read = Now
    OBVIOUS
  <2> HIDE DEF job
  <2> QED
    BY <1>1, <2>1, <2>2, <2>3, TablesStay
<1>6. CASE Trees!OpensRefresh(p)
  <2>1. PICK s \in caller[p].todo :
           caller' = [caller EXCEPT ![p] =
                         [at |-> "tx", site |-> s, refresh |-> TRUE,
                          todo |-> caller[p].todo \ {s}, plans |-> caller[p].plans,
                          plan |-> caller[p].plans[s], read |-> Now]]
    BY <1>6 DEF Trees!OpensRefresh, Trees!Becomes, Now
  <2> DEFINE job == [at |-> "tx", site |-> s, refresh |-> TRUE,
                     todo |-> caller[p].todo \ {s}, plans |-> caller[p].plans,
                     plan |-> caller[p].plans[s], read |-> Now]
  <2>2. caller[p].at = "refresh"
    BY <1>6 DEF Trees!OpensRefresh, Trees!At
  <2>3. /\ caller[p].todo \subseteq Source
        /\ caller[p].todo \subseteq DOMAIN caller[p].plans
        /\ \A u \in Source : u \in DOMAIN caller[p].plans => Closed(caller[p].plans[u])
    BY <1>2, <2>2 DEF JobTyped
  <2>4. /\ job.at = "tx" /\ job.read = Now /\ caller' = [caller EXCEPT ![p] = job]
        /\ job.site = s /\ job.refresh = TRUE /\ job.todo = caller[p].todo \ {s}
        /\ job.plans = caller[p].plans /\ job.plan = caller[p].plans[s]
    BY <2>1
  <2> HIDE DEF job
  <2>5. s \in Source /\ Closed(caller[p].plans[s])
    BY <2>1, <2>3
  <2>6. JobTyped(job)
    BY <2>3, <2>4, <2>5 DEF JobTyped
  <2> QED
    BY <1>1, <2>4, <2>6, TablesStay
<1>7. CASE Trees!SeesOrphans(p)
  <2>1. PICK orphans :
           /\ caller' = [caller EXCEPT ![p] = [at |-> "orphans", orphans |-> orphans]]
           /\ \A c \in orphans : c \in DOMAIN category /\ c \notin Trees!Mapped
    BY <1>7 DEF Trees!SeesOrphans, Trees!Becomes
  <2>2. DOMAIN category \subseteq 1 .. nextCat - 1
    BY NowTyped
  <2>3. JobTyped([at |-> "orphans", orphans |-> orphans])
    BY <2>1, <2>2 DEF JobTyped
  <2>4. \A s \in Source : \A c \in orphans : ~Has(Now, s, c)
    BY <2>1 DEF Trees!Mapped, Trees!Range, Has, Now, Trees!Snapshot
  <2> QED
    BY <1>1, <2>1, <2>3, <2>4, TablesStay
<1>8. CASE Trees!EntersMutex(p)
  <2>1. CASE caller' = [caller EXCEPT ![p] = [at |-> "create", site |-> caller[p].site,
                                              read |-> Now]]
    <3>1. caller[p].at = "mutex"
      BY <1>8 DEF Trees!EntersMutex, Trees!At
    <3>2. JobTyped([at |-> "create", site |-> caller[p].site, read |-> Now])
      BY <1>2, <3>1 DEF JobTyped
    <3> QED
      BY <1>1, <2>1, <3>2, TablesStay
  <2> QED
    BY <1>3, <1>8, <2>1 DEF Trees!EntersMutex, Trees!Becomes, Now
<1>9. CASE Trees!Loads(p)
  <2>1. caller' = [caller EXCEPT ![p] = [at |-> "store", frees |-> caller[p].frees,
                                         mapping |-> mapping]]
    BY <1>9 DEF Trees!Loads, Trees!Becomes
  <2>2. JobTyped([at |-> "store", frees |-> caller[p].frees, mapping |-> mapping])
    BY DEF JobTyped
  <2> QED
    BY <1>1, <2>1, <2>2, TablesStay
<1> QED
  BY <1>4, <1>5, <1>6, <1>7, <1>8, <1>9

\* What a transaction leaves for source s: id is the category of each type of the
\* plan, kept the types whose category stays.
Written(s, plan, read, id, kept) ==
    LET old == read.mapping[s]
        ids == {id[t] : t \in DOMAIN plan}
    IN  /\ DOMAIN id = DOMAIN plan /\ kept \subseteq DOMAIN plan \cap DOMAIN old
        /\ \A t \in kept : id[t] = old[t] /\ Sole(read, s, id[t])
        /\ \A t \in DOMAIN plan \ kept : id[t] \in nextCat .. nextCat' - 1
        /\ \A t, u \in DOMAIN plan : id[t] = id[u] => t = u
        /\ \A t \in (DOMAIN plan \cap DOMAIN old) \ kept :
              \/ \E u \in Source \ {s} : Has(read, u, old[t])
              \/ \E u \in kept : id[u] = old[t]
        /\ nextCat' \in nextCat .. MaxCat + 1
        /\ \A c : c \in DOMAIN category' <=>
              \/ \E t \in DOMAIN plan \ kept : id[t] = c
              \/ c \in DOMAIN category /\ ~(/\ Has(read, s, c) /\ c \notin ids
                                            /\ \A u \in Source \ {s} : ~Has(read, u, c))
        /\ \A t \in DOMAIN plan : id[t] \in DOMAIN category' =>
              /\ category'[id[t]].key = <<s, t>>
              /\ category'[id[t]].show = Trees!Visible(id[t])
              /\ category'[id[t]] \in
                    [pid : Trees!Cat \cup {0}, show : BOOLEAN,
                     key : {Trees!Legacy} \cup (Source \X Trees!AnyType)]
        /\ \A c \in DOMAIN category' \ ids : category'[c] = category[c]
        /\ \A t \in DOMAIN plan : ~Trees!KeyTaken(s, t, id[t])
        /\ mapping' = [mapping EXCEPT ![s] = id] /\ tree' = [tree EXCEPT ![s] = plan]
        /\ raced' = IF read.tree[s] = tree[s] /\ read.mapping[s] = mapping[s]
                    THEN raced ELSE raced \cup {s}

\* applyCategoryPlans leaves a category for each type of the plan: the kept
\* types theirs, the others consecutive new ones.
LEMMA PlanWritten ==
    ASSUME TreeInv, NEW s \in Source, NEW plan, Closed(plan), NEW read \in Views,
           NEW kept \in Trees!Claims(read, s, plan), Trees!Applies(s, plan, read, kept)
    PROVE  \E id : Written(s, plan, read, id, kept)
<1> DEFINE old == read.mapping[s]
           new == DOMAIN plan \ kept
           id == Trees!Ids(read, s, plan, kept)
           typeOf(c) == CHOOSE t \in DOMAIN plan : id[t] = c
           pid(t) == IF plan[t].parent = 0 THEN 0 ELSE id[plan[t].parent]
           ids == {id[t] : t \in DOMAIN plan}
           left == DOMAIN category \ Trees!Stale(read, s, ids)
           made == {id[t] : t \in new}
<1>1. /\ nextCat + Trees!Cardinality(new) <= MaxCat + 1
      /\ \A t \in DOMAIN plan : ~Trees!KeyTaken(s, t, id[t])
      /\ category' = [c \in left \cup made |->
             IF c \in ids
             THEN Trees!Row(pid(typeOf(c)), <<s, typeOf(c)>>, Trees!Visible(c))
             ELSE category[c]]
      /\ nextCat' = nextCat + Trees!Cardinality(new)
      /\ mapping' = [mapping EXCEPT ![s] = id]
      /\ tree' = [tree EXCEPT ![s] = plan]
      /\ raced' = IF <<read.tree[s], read.mapping[s]>> = <<tree[s], mapping[s]>>
                  THEN raced ELSE raced \cup {s}
  BY DEF Trees!Applies
<1>2. /\ nextCat \in 1 .. MaxCat + 1 /\ nextCat \in Nat
      /\ \A t \in DOMAIN old : old[t] \in 1 .. nextCat - 1 /\ old[t] \in Nat
  BY TreeAssumption DEF TreeInv, CategoriesTyped, ViewTyped
<1>3. /\ kept \subseteq DOMAIN plan \cap DOMAIN old
      /\ \A t \in kept : Sole(read, s, old[t])
      /\ \A t, u \in kept : old[t] = old[u] => t = u
      /\ \A t \in DOMAIN plan \cap DOMAIN old :
            \/ \E u \in Source \ {s} : Has(read, u, old[t])
            \/ \E u \in kept : old[u] = old[t]
  <2>1. /\ kept \subseteq Trees!Reusable(read, s, plan)
        /\ \A t \in kept : {u \in kept : old[u] = old[t]} = {t}
        /\ {old[t] : t \in kept} = {old[t] : t \in Trees!Reusable(read, s, plan)}
    BY DEF Trees!Claims
  <2>2. Trees!Reusable(read, s, plan)
           = {t \in DOMAIN plan \cap DOMAIN old :
                 old[t] \notin Trees!MappedByOthers(read, s)}
    BY DEF Trees!Reusable
  <2>3. ASSUME NEW t \in kept PROVE Sole(read, s, old[t])
    <3>1. t \in DOMAIN old /\ old[t] \notin Trees!MappedByOthers(read, s)
      BY <2>1, <2>2
    <3> QED
      BY <3>1, Others DEF Sole, Has
  <2>4. ASSUME NEW t \in kept, NEW u \in kept, old[t] = old[u] PROVE t = u
    <3>1. u \in {w \in kept : old[w] = old[t]}
      BY <2>4
    <3> QED
      BY <2>1, <3>1
  <2>5. ASSUME NEW t \in DOMAIN plan \cap DOMAIN old,
               ~\E u \in Source \ {s} : Has(read, u, old[t])
        PROVE  \E u \in kept : old[u] = old[t]
    <3>1. t \in Trees!Reusable(read, s, plan)
      BY <2>2, <2>5, Others
    <3>2. old[t] \in {old[u] : u \in kept}
      BY <2>1, <3>1
    <3> QED
      BY <3>2
  <2> QED
    BY <2>1, <2>2, <2>3, <2>4, <2>5
<1>4. /\ DOMAIN id = DOMAIN plan
      /\ \A t \in kept : id[t] = old[t]
      /\ \A t \in new : id[t] \in nextCat .. nextCat' - 1
      /\ \A t, u \in new : id[t] = id[u] => t = u
      /\ nextCat' \in nextCat .. MaxCat + 1
  <2> DEFINE rank == [t \in new |->
                 Trees!Cardinality({u \in new : u = t \/ Trees!Least({u, t}) = u}) - 1]
  <2>1. id = [t \in DOMAIN plan |-> IF t \in kept THEN old[t] ELSE nextCat + rank[t]]
    BY DEF Trees!Ids
  <2>2. new \in SUBSET Trees!AnyType
    BY DEF Closed
  <2>3. \A t \in new : rank[t] =
           Trees!Cardinality({u \in new : u = t \/ Trees!Least({u, t}) = u}) - 1
    OBVIOUS
  <2> HIDE DEF rank, new
  <2>4. /\ Trees!Cardinality(new) \in Nat
        /\ \A t \in new : rank[t] \in Nat /\ rank[t] < Trees!Cardinality(new)
        /\ \A t, u \in new : rank[t] = rank[u] => t = u
    BY <2>2, <2>3, TypeRanks
  <2>5. kept \subseteq DOMAIN plan /\ new = DOMAIN plan \ kept
    BY <1>3 DEF new
  <2> HIDE DEF id
  <2>6. \A t \in new : id[t] = nextCat + rank[t]
    BY <2>1, <2>5
  <2>7. nextCat' = nextCat + Trees!Cardinality(new)
        /\ nextCat + Trees!Cardinality(new) <= MaxCat + 1
    BY <1>1 DEF new
  <2>8. \A t \in new : id[t] \in nextCat .. nextCat' - 1
    <3> SUFFICES ASSUME NEW t \in new PROVE id[t] \in nextCat .. nextCat' - 1
      OBVIOUS
    <3>1. /\ rank[t] \in Nat /\ rank[t] < Trees!Cardinality(new)
          /\ id[t] = nextCat + rank[t]
      BY <2>4, <2>6
    <3> QED
      BY <1>2, <2>4, <2>7, <3>1
  <2>9. \A t, u \in new : id[t] = id[u] => t = u
    <3> SUFFICES ASSUME NEW t \in new, NEW u \in new, id[t] = id[u] PROVE t = u
      OBVIOUS
    <3>1. rank[t] \in Nat /\ rank[u] \in Nat /\ nextCat + rank[t] = nextCat + rank[u]
      BY <2>4, <2>6
    <3>2. rank[t] = rank[u]
      BY <1>2, <3>1
    <3> QED
      BY <2>4, <3>2
  <2>10. nextCat' \in nextCat .. MaxCat + 1
    BY <1>2, <2>4, <2>7, TreeAssumption
  <2>11. DOMAIN id = DOMAIN plan /\ \A t \in kept : id[t] = old[t]
    BY <2>1, <2>5
  <2> QED
    BY <2>8, <2>9, <2>10, <2>11
<1> HIDE DEF id
<1>5. \A t, u \in DOMAIN plan : id[t] = id[u] => t = u
  <2> SUFFICES ASSUME NEW t \in DOMAIN plan, NEW u \in DOMAIN plan, id[t] = id[u]
               PROVE  t = u
    OBVIOUS
  <2>1. \A w \in kept : id[w] \in 1 .. nextCat - 1
    BY <1>2, <1>3, <1>4
  <2>2. \A w \in new : id[w] >= nextCat
    BY <1>2, <1>4
  <2>3. CASE t \in kept /\ u \in kept
    BY <1>3, <1>4, <2>3
  <2>4. CASE t \in new /\ u \in new
    BY <1>4, <2>4
  <2>5. ~(t \in kept /\ u \in new) /\ ~(u \in kept /\ t \in new)
    BY <1>2, <2>1, <2>2
  <2> QED
    BY <2>3, <2>4, <2>5
<1>6. \A t \in DOMAIN plan : typeOf(id[t]) = t
  BY <1>5
<1>7. \A t \in DOMAIN plan : id[t] \in Trees!Cat
  <2> SUFFICES ASSUME NEW t \in DOMAIN plan PROVE id[t] \in 1 .. MaxCat
    BY DEF Trees!Cat
  <2>1. CASE t \in kept
    BY <1>2, <1>3, <1>4, <2>1, TreeAssumption
  <2>2. CASE t \in new
    BY <1>2, <1>4, <2>2, TreeAssumption
  <2> QED
    BY <2>1, <2>2
<1>8. \A t \in DOMAIN plan : pid(t) \in Trees!Cat \cup {0}
  BY <1>7 DEF Closed
<1>9. \A c : c \in Trees!Stale(read, s, ids) <=>
         /\ Has(read, s, c) /\ c \notin ids
         /\ \A u \in Source \ {s} : ~Has(read, u, c)
  BY Others DEF Trees!Stale
<1>10. \A c : c \in DOMAIN category' <=>
          \/ \E t \in new : id[t] = c
          \/ c \in DOMAIN category /\ ~(/\ Has(read, s, c) /\ c \notin ids
                                        /\ \A u \in Source \ {s} : ~Has(read, u, c))
  BY <1>1, <1>9
<1>11. ASSUME NEW t \in DOMAIN plan, id[t] \in DOMAIN category'
       PROVE  category'[id[t]] = Trees!Row(pid(t), <<s, t>>, Trees!Visible(id[t]))
  <2>1. id[t] \in ids
    OBVIOUS
  <2> HIDE DEF pid, typeOf, ids, left, made
  <2>2. category'[id[t]] = Trees!Row(pid(typeOf(id[t])), <<s, typeOf(id[t])>>,
                                     Trees!Visible(id[t]))
    BY <1>1, <1>11, <2>1
  <2> QED
    BY <1>6, <2>2
<1>12. ASSUME NEW t \in DOMAIN plan, id[t] \in DOMAIN category'
       PROVE  /\ category'[id[t]].key = <<s, t>>
              /\ category'[id[t]].show = Trees!Visible(id[t])
              /\ category'[id[t]] \in
                    [pid : Trees!Cat \cup {0}, show : BOOLEAN,
                     key : {Trees!Legacy} \cup (Source \X Trees!AnyType)]
  <2>1. Trees!Visible(id[t]) \in BOOLEAN
    BY DEF Trees!Visible
  <2>2. <<s, t>> \in Source \X Trees!AnyType
    BY DEF Closed
  <2>3. category'[id[t]] =
           [pid |-> pid(t), key |-> <<s, t>>, show |-> Trees!Visible(id[t])]
    BY <1>11, <1>12 DEF Trees!Row
  <2>4. pid(t) \in Trees!Cat \cup {0}
    BY <1>8
  <2> HIDE DEF pid
  <2> QED
    BY <2>1, <2>2, <2>3, <2>4
<1>13. \A c \in DOMAIN category' \ ids : category'[c] = category[c]
  BY <1>1
<1>14. raced' = IF read.tree[s] = tree[s] /\ read.mapping[s] = mapping[s]
                THEN raced ELSE raced \cup {s}
  BY <1>1
<1>15. \A t \in (DOMAIN plan \cap DOMAIN old) \ kept :
          \/ \E u \in Source \ {s} : Has(read, u, old[t])
          \/ \E u \in kept : id[u] = old[t]
  BY <1>3, <1>4
<1> HIDE DEF pid, typeOf, left
<1>16. Written(s, plan, read, id, kept)
  BY <1>1, <1>3, <1>4, <1>5, <1>10, <1>12, <1>13, <1>14, <1>15 DEF Written
<1> QED
  BY <1>16

\* Around it, what other sources are mapped to and their keys stay; only what was
\* the source's own goes.
LEMMA WrittenAround ==
    ASSUME TreeInv, NEW s \in Source, NEW plan, Closed(plan), NEW read \in Views,
           NEW kept, NEW id, Written(s, plan, read, id, kept)
    PROVE  /\ \A u \in Source \ {s} : \A c : Has(Now', u, c) <=> Has(Now, u, c)
           /\ \A c : Has(Now', s, c) <=> \E t \in DOMAIN plan : id[t] = c
           /\ \A t \in DOMAIN plan : Sole(read, s, id[t]) \/ id[t] >= nextCat
           /\ \A u \in Source : \A t \in Trees!AnyType : \A c : Keyed(Now', u, t, c) =>
                 \/ u = s /\ t \in DOMAIN plan /\ id[t] = c
                 \/ Keyed(Now, u, t, c) /\ \A k \in DOMAIN plan : id[k] # c
           /\ \A c \in DOMAIN category :
                 c \in DOMAIN category' \/ (Has(read, s, c) /\ Sole(read, s, c))
<1>1. /\ mapping' = [mapping EXCEPT ![s] = id] /\ DOMAIN id = DOMAIN plan
      /\ DOMAIN mapping = Source
  BY NowTyped DEF Written
<1>2. Now'.mapping = mapping' /\ Now'.category = category'
      /\ Now.mapping = mapping /\ Now.category = category
  BY DEF Now, Trees!Snapshot
<1>3. \A u \in Source \ {s} : \A c : Has(Now', u, c) <=> Has(Now, u, c)
  BY <1>1, <1>2 DEF Has
<1>4. \A c : Has(Now', s, c) <=> \E t \in DOMAIN plan : id[t] = c
  BY <1>1, <1>2 DEF Has
<1>5. \A t \in DOMAIN plan : Sole(read, s, id[t]) \/ id[t] >= nextCat
  <2>1. nextCat \in Nat
    BY TreeAssumption DEF TreeInv, CategoriesTyped
  <2>2. \A t \in DOMAIN plan \ kept : id[t] \in nextCat .. nextCat' - 1
    BY DEF Written
  <2>3. nextCat' \in nextCat .. MaxCat + 1
    BY DEF Written
  <2>4. \A t \in DOMAIN plan \ kept : id[t] >= nextCat
    BY <2>1, <2>2, <2>3, TreeAssumption
  <2> QED
    BY <2>4 DEF Written
<1>6. ASSUME NEW u \in Source, NEW t \in Trees!AnyType, NEW c, Keyed(Now', u, t, c)
      PROVE  \/ u = s /\ t \in DOMAIN plan /\ id[t] = c
             \/ Keyed(Now, u, t, c) /\ \A k \in DOMAIN plan : id[k] # c
  <2>1. c \in DOMAIN category' /\ category'[c].key = <<u, t>>
    BY <1>2, <1>6 DEF Keyed
  <2>2. CASE \E k \in DOMAIN plan : id[k] = c
    <3>1. PICK k \in DOMAIN plan : id[k] = c
      BY <2>2
    <3>2. category'[c].key = <<s, k>>
      BY <2>1, <3>1 DEF Written
    <3>3. <<u, t>> = <<s, k>>
      BY <2>1, <3>2
    <3> QED
      BY <3>1, <3>3
  <2>3. CASE \A k \in DOMAIN plan : id[k] # c
    <3>1. category'[c] = category[c] /\ c \in DOMAIN category
      BY <2>1, <2>3 DEF Written
    <3> QED
      BY <1>2, <2>1, <2>3, <3>1 DEF Keyed
  <2> QED
    BY <2>2, <2>3
<1>7. ASSUME NEW c \in DOMAIN category, c \notin DOMAIN category'
      PROVE  Has(read, s, c) /\ Sole(read, s, c)
  BY <1>7 DEF Written, Sole
<1> QED
  BY <1>3, <1>4, <1>5, <1>6, <1>7

\* So no other source's category is gained.
LEMMA WrittenGains ==
    ASSUME TreeInv, NEW s \in Source, NEW plan, Closed(plan), NEW read \in Views,
           NEW kept, NEW id, Written(s, plan, read, id, kept)
    PROVE  Gains
<1> DEFINE Put(u, c) == u = s /\ \E t \in DOMAIN plan : id[t] = c
<1>1. nextCat \in Nat /\ Now \in Views
  BY TreeAssumption DEF TreeInv, CategoriesTyped, Views
<1>2. \A u \in Source : \A c : Has(Now', u, c) => Has(Now, u, c) \/ Put(u, c)
  BY WrittenAround
<1>3. \A u \in Source : \A t \in Trees!AnyType : \A c :
         Keyed(Now', u, t, c) => Keyed(Now, u, t, c) \/ Put(u, c)
  BY WrittenAround
<1>4. \A u \in Source : \A c :
         Put(u, c) => c >= nextCat \/ \E view \in Views : Sole(view, u, c)
  BY WrittenAround
<1>5. \A u \in Source : \A t \in Trees!AnyType : \A c :
         Has(Now, u, c) \/ Keyed(Now, u, t, c) => ~(c >= nextCat)
  <2> SUFFICES ASSUME NEW u \in Source, NEW t \in Trees!AnyType, NEW c,
                      Has(Now, u, c) \/ Keyed(Now, u, t, c)
               PROVE  ~(c >= nextCat)
    OBVIOUS
  <2>1. c \in 1 .. nextCat - 1
    BY <1>1, ViewBounds
  <2> QED
    BY <1>1, <2>1
<1>6. \A u \in Source : \A c : Has(Now, u, c) => ~(c >= nextCat)
  <2>1. OtherType \in Trees!AnyType
    BY DEF Trees!AnyType
  <2> QED
    BY <1>5, <2>1
<1>7. \A u, w \in Source : \A c : Put(u, c) /\ Put(w, c) => u = w
  OBVIOUS
<1> HIDE DEF Put
<1> QED
  BY <1>2, <1>3, <1>4, <1>5, <1>6, <1>7 DEF Gains

\* And the sources whose transactions do not race stay in step.
LEMMA WrittenSoundly ==
    ASSUME TreeInv, NEW s \in Source, NEW plan, Closed(plan), NEW read \in Views,
           NEW kept, NEW id, Written(s, plan, read, id, kept)
    PROVE  GainsSoundly
<1>1. Now \in Views /\ nextCat \in Nat
  BY TreeAssumption DEF TreeInv, CategoriesTyped, Views
<1>2. /\ Now.mapping = mapping /\ Now.category = category /\ Now.tree = tree
      /\ Now'.mapping = mapping' /\ Now'.category = category' /\ Now'.tree = tree'
      /\ mapping' = [mapping EXCEPT ![s] = id] /\ tree' = [tree EXCEPT ![s] = plan]
      /\ DOMAIN mapping = Source /\ DOMAIN tree = Source /\ DOMAIN id = DOMAIN plan
  BY NowTyped DEF Now, Trees!Snapshot, Written
<1>3. OtherType \in Trees!AnyType
  BY DEF Trees!AnyType
<1>4. raced \subseteq raced'
  BY DEF Written
\* another source's categories are not dropped or written
<1>5. ASSUME NEW u \in Source \ raced', u # s
      PROVE  /\ Sound(Now', u)
             /\ \A c : Has(Now', u, c) => Has(Now, u, c) \/ c >= nextCat
             /\ \A c : Keyed(Now', u, OtherType, c)
                       => Keyed(Now, u, OtherType, c) \/ c >= nextCat
  <2>1. Sound(Now, u)
    BY <1>1, <1>4 DEF TreeInv, AllSound
  <2>2. \A c : Has(Now, u, c) => ~Sole(read, s, c) /\ ~(c >= nextCat)
    <3> SUFFICES ASSUME NEW c, Has(Now, u, c) PROVE ~Sole(read, s, c) /\ ~(c >= nextCat)
      OBVIOUS
    <3>1. ~Sole(read, s, c)
      BY <1>5 DEF TreeInv, Apart
    <3>2. c \in 1 .. nextCat - 1
      BY <1>1, ViewBounds
    <3> QED
      BY <1>1, <3>1, <3>2
  <2>3. /\ Now'.mapping[u] = Now.mapping[u] /\ Now'.tree[u] = Now.tree[u]
    BY <1>2, <1>5
  <2>4. \A t \in DOMAIN Now.mapping[u] : Has(Now, u, Now.mapping[u][t])
    BY DEF Has
  <2>5. \A t \in DOMAIN Now.mapping[u] :
           \A k \in DOMAIN plan : id[k] # Now.mapping[u][t]
    BY <2>2, <2>4, WrittenAround
  <2>6. \A t \in DOMAIN Now.mapping[u] : Now.mapping[u][t] \in DOMAIN category'
    BY <1>2, <2>1, <2>2, <2>4, WrittenAround DEF Sound
  <2>7. \A t \in DOMAIN Now.mapping[u] :
           category'[Now.mapping[u][t]] = category[Now.mapping[u][t]]
    BY <2>5, <2>6 DEF Written
  <2>8. \A k \in Trees!AnyType : \A c : Keyed(Now', u, k, c) => Keyed(Now, u, k, c)
    BY <1>5, WrittenAround
  <2>9. /\ DOMAIN Now'.mapping[u] = DOMAIN Now'.tree[u]
        /\ \A t \in DOMAIN Now'.mapping[u] :
              /\ Now'.mapping[u][t] \in DOMAIN Now'.category
              /\ \A k \in Trees!AnyType : Keyed(Now', u, k, Now'.mapping[u][t]) => k = t
    BY <1>2, <2>1, <2>3, <2>6, <2>8 DEF Sound
  <2>10. OtherType \in DOMAIN Now'.mapping[u]
         => Keyed(Now', u, OtherType, Now'.mapping[u][OtherType])
    BY <1>2, <2>1, <2>3, <2>6, <2>7 DEF Sound, Keyed
  <2>11. \A c \in DOMAIN Now'.category : Keyed(Now', u, OtherType, c)
         => OtherType \in DOMAIN Now'.mapping[u] /\ Now'.mapping[u][OtherType] = c
    <3> SUFFICES ASSUME NEW c, Keyed(Now', u, OtherType, c)
                 PROVE  /\ OtherType \in DOMAIN Now.mapping[u]
                        /\ Now.mapping[u][OtherType] = c
      BY <2>3
    <3>1. Keyed(Now, u, OtherType, c) /\ c \in DOMAIN Now.category
      BY <1>3, <2>8 DEF Keyed
    <3> QED
      BY <2>1, <3>1 DEF Sound
  <2>12. Sound(Now', u)
    BY <2>9, <2>10, <2>11 DEF Sound
  <2>13. \A c : Has(Now', u, c) => Has(Now, u, c)
    BY <2>3 DEF Has
  <2> QED
    BY <1>3, <2>8, <2>12, <2>13
\* the source's own are those it had, and the new ones
<1>6. ASSUME s \notin raced'
      PROVE  /\ Sound(Now', s)
             /\ \A c : Has(Now', s, c) => Has(Now, s, c) \/ c >= nextCat
             /\ \A c : Keyed(Now', s, OtherType, c)
                       => Keyed(Now, s, OtherType, c) \/ c >= nextCat
  <2>1. read.mapping[s] = mapping[s] /\ s \notin raced
    BY <1>6 DEF Written
  <2>2. Sound(Now, s)
    BY <1>1, <2>1 DEF TreeInv, AllSound
  <2>3. \A t \in kept : /\ t \in DOMAIN plan /\ t \in DOMAIN mapping[s]
                        /\ id[t] = mapping[s][t]
    BY <2>1 DEF Written
  <2>4. \A t \in DOMAIN plan \ kept : id[t] >= nextCat /\ id[t] \in DOMAIN category'
    <3>1. \A t \in DOMAIN plan \ kept : id[t] \in nextCat .. nextCat' - 1
      BY DEF Written
    <3>2. nextCat' \in nextCat .. MaxCat + 1
      BY DEF Written
    <3>3. \A t \in DOMAIN plan \ kept : id[t] >= nextCat
      BY <1>1, <3>1, <3>2, TreeAssumption
    <3>4. \A t \in DOMAIN plan \ kept : id[t] \in DOMAIN category'
      BY DEF Written
    <3> QED
      BY <3>3, <3>4
  <2>5. \A t \in DOMAIN plan : id[t] \in DOMAIN category'
    <3>1. \A t \in kept : id[t] \in DOMAIN category
      BY <1>2, <2>2, <2>3 DEF Sound
    <3>2. ASSUME NEW t \in kept PROVE id[t] \in DOMAIN category'
      <4>1. id[t] \in DOMAIN category /\ id[t] \in {id[k] : k \in DOMAIN plan}
        BY <2>3, <3>1
      <4> QED
        BY <4>1 DEF Written
    <3> QED
      BY <2>4, <3>2
  <2>6. \A t \in DOMAIN plan : Keyed(Now', s, t, id[t])
    BY <1>2, <2>5 DEF Written, Keyed
  <2>7. \A t \in DOMAIN plan : \A k \in Trees!AnyType :
           Keyed(Now', s, k, id[t]) => k = t
    <3> SUFFICES ASSUME NEW t \in DOMAIN plan, NEW k \in Trees!AnyType,
                        Keyed(Now', s, k, id[t])
                 PROVE  k = t
      OBVIOUS
    <3>1. <<s, k>> = <<s, t>>
      BY <2>6 DEF Keyed
    <3> QED
      BY <3>1
  <2>8. ASSUME NEW c, Keyed(Now', s, OtherType, c)
        PROVE  OtherType \in DOMAIN plan /\ id[OtherType] = c
    <3>1. CASE Keyed(Now, s, OtherType, c) /\ \A k \in DOMAIN plan : id[k] # c
      <4>1. c \in DOMAIN category /\ c \in DOMAIN category'
        BY <1>2, <2>8, <3>1 DEF Keyed
      <4>2. Has(read, s, c)
        BY <1>2, <2>1, <2>2, <3>1, <4>1 DEF Sound, Has
      <4>3. c \notin {id[k] : k \in DOMAIN plan}
            /\ ~\E t \in DOMAIN plan \ kept : id[t] = c
        BY <3>1
      <4>4. PICK u \in Source \ {s} : Has(read, u, c)
        BY <4>1, <4>2, <4>3 DEF Written
      <4> QED
        BY <2>1, <3>1, <4>1, <4>4 DEF TreeInv, NeverShared
    <3> QED
      BY <1>3, <2>8, <3>1, WrittenAround
  <2>9. Now'.mapping[s] = id /\ Now'.tree[s] = plan
    BY <1>2
  <2>10. Sound(Now', s)
    BY <1>2, <2>5, <2>6, <2>7, <2>8, <2>9 DEF Sound
  <2>11. ASSUME NEW c, Has(Now', s, c) PROVE Has(Now, s, c) \/ c >= nextCat
    <3>1. PICK t \in DOMAIN plan : id[t] = c
      BY <2>11, WrittenAround
    <3> QED
      BY <1>2, <2>3, <2>4, <3>1 DEF Has
  <2>12. ASSUME NEW c, Keyed(Now', s, OtherType, c)
         PROVE  Keyed(Now, s, OtherType, c) \/ c >= nextCat
    <3>1. OtherType \in DOMAIN plan /\ id[OtherType] = c
      BY <2>8, <2>12
    <3>2. CASE OtherType \in kept
      BY <1>2, <2>2, <2>3, <3>1, <3>2 DEF Sound
    <3> QED
      BY <2>4, <3>1, <3>2
  <2> QED
    BY <2>10, <2>11, <2>12
<1> QED
  BY <1>5, <1>6 DEF GainsSoundly

\* The commit of a sync or of a refresh.
LEMMA CommitsKeepTrees ==
    ASSUME TreeInv, NEW p \in Actor, Trees!CommitsPlan(p)
    PROVE  TreeInv'
<1> DEFINE s == caller[p].site
           read == caller[p].read
           plan == Trees!Planned(caller[p].plan, read.tree[s])
<1>1. /\ caller[p].at = "tx" /\ JobTyped(caller[p]) /\ s \in Source /\ read \in Views
      /\ Closed(caller[p].plan) /\ caller[p].refresh \in BOOLEAN
  BY DEF Trees!CommitsPlan, Trees!At, TreeInv, JobsTyped, JobTyped, Views, WithSnapshot
<1>2. Closed(plan)
  <2>1. Closed(read.tree[s])
    BY <1>1 DEF TreeInv, CategoriesTyped, ViewTyped
  <2> QED
    BY <1>1, <2>1, PlannedClosed
<1>3. PICK kept \in Trees!Claims(read, s, plan) : Trees!Applies(s, plan, read, kept)
  BY DEF Trees!CommitsPlan
<1> HIDE DEF s, read, plan
<1>4. PICK id : Written(s, plan, read, id, kept)
  BY <1>1, <1>2, <1>3, PlanWritten
<1>5. Gains /\ GainsSoundly
  BY <1>1, <1>2, <1>4, WrittenGains, WrittenSoundly
<1>6. caller' = [caller EXCEPT ![p] = Trees!Continues(p)]
      /\ UNCHANGED <<treeMutex, requests>>
  BY DEF Trees!CommitsPlan, Trees!Becomes
<1>7. Trees!Continues(p).at \in {"refresh", "load"} /\ JobTyped(Trees!Continues(p))
  <2>1. CASE caller[p].refresh
    <3>1. /\ caller[p].todo \subseteq Source
          /\ caller[p].todo \subseteq DOMAIN caller[p].plans
          /\ \A u \in Source :
                u \in DOMAIN caller[p].plans => Closed(caller[p].plans[u])
      BY <1>1, <2>1 DEF JobTyped
    <3>2. Trees!Continues(p) = [at |-> "refresh", todo |-> caller[p].todo,
                                plans |-> caller[p].plans]
      BY <2>1 DEF Trees!Continues
    <3> QED
      BY <3>1, <3>2 DEF JobTyped
  <2>2. CASE ~caller[p].refresh
    BY <2>2 DEF Trees!Continues, JobTyped
  <2> QED
    BY <1>1, <2>1, <2>2
<1>8. /\ raced \subseteq raced' /\ raced' \subseteq Source
      /\ nextCat' \in 1 .. MaxCat + 1 /\ nextCat <= nextCat' /\ nextCat \in Nat
      /\ nextCat' \in Nat
  <2>1. raced \subseteq Source /\ nextCat \in 1 .. MaxCat + 1
    BY DEF TreeInv, CategoriesTyped
  <2>2. nextCat' \in nextCat .. MaxCat + 1
    BY <1>4 DEF Written
  <2>3. raced' = raced \/ raced' = raced \cup {s}
    BY <1>4 DEF Written
  <2> QED
    BY <1>1, <2>1, <2>2, <2>3, TreeAssumption
<1>9. /\ mapping' = [mapping EXCEPT ![s] = id] /\ tree' = [tree EXCEPT ![s] = plan]
      /\ DOMAIN id = DOMAIN plan
      /\ DOMAIN mapping = Source /\ DOMAIN tree = Source
  BY <1>4, NowTyped DEF Written
<1>10. \A t \in DOMAIN plan : id[t] \in 1 .. nextCat' - 1
  <2> SUFFICES ASSUME NEW t \in DOMAIN plan PROVE id[t] \in 1 .. nextCat' - 1
    OBVIOUS
  <2>1. CASE t \in kept
    <3>1. id[t] \in 1 .. nextCat - 1
      BY <1>1, <1>4, <2>1, ViewBounds DEF Written
    <3> QED
      BY <1>8, <3>1
  <2>2. CASE t \notin kept
    <3>1. id[t] \in nextCat .. nextCat' - 1
      BY <1>4, <2>2 DEF Written
    <3>2. nextCat \in 1 .. MaxCat + 1
      BY DEF TreeInv, CategoriesTyped
    <3> QED
      BY <1>8, <3>1, <3>2, TreeAssumption
  <2> QED
    BY <2>1, <2>2
<1>11. ViewTyped(Now)'
  <2>1. /\ Now'.tree = tree' /\ Now'.mapping = mapping' /\ Now'.category = category'
    BY DEF Now, Trees!Snapshot
  <2>2. ASSUME NEW u \in Source
        PROVE  /\ Closed(tree'[u]) /\ DOMAIN mapping'[u] \subseteq Trees!AnyType
               /\ \A t \in DOMAIN mapping'[u] : mapping'[u][t] \in 1 .. nextCat' - 1
    <3>1. CASE u = s
      <4>1. tree'[u] = plan /\ mapping'[u] = id
        BY <1>1, <1>9, <3>1
      <4>2. DOMAIN plan \subseteq Trees!AnyType
        BY <1>2 DEF Closed
      <4> QED
        BY <1>2, <1>9, <1>10, <4>1, <4>2
    <3>2. CASE u # s
      <4>1. tree'[u] = tree[u] /\ mapping'[u] = mapping[u]
        BY <1>9, <3>2
      <4>2. /\ Closed(tree[u]) /\ DOMAIN mapping[u] \subseteq Trees!AnyType
            /\ \A t \in DOMAIN mapping[u] : mapping[u][t] \in 1 .. nextCat - 1
        BY NowTyped DEF ViewTyped
      <4>3. ASSUME NEW t \in DOMAIN mapping[u] PROVE mapping[u][t] \in 1 .. nextCat' - 1
        <5>1. mapping[u][t] \in 1 .. nextCat - 1
          BY <4>2
        <5> QED
          BY <1>8, <5>1
      <4> QED
        BY <4>1, <4>2, <4>3
    <3> QED
      BY <3>1, <3>2
  <2>3. ASSUME NEW c \in DOMAIN category' PROVE c \in 1 .. nextCat' - 1
    <3>1. CASE \E t \in DOMAIN plan : id[t] = c
      BY <1>10, <3>1
    <3>2. CASE c \in DOMAIN category
      <4>1. c \in 1 .. nextCat - 1
        BY <3>2, NowTyped
      <4> QED
        BY <1>8, <4>1
    <3> QED
      BY <1>4, <2>3, <3>1, <3>2 DEF Written
  <2>4. DOMAIN tree' = Source /\ DOMAIN mapping' = Source
    BY <1>9
  <2> QED
    BY <2>1, <2>2, <2>3, <2>4 DEF ViewTyped
<1>12. \A c \in DOMAIN category' :
          category'[c] \in [pid : Trees!Cat \cup {0}, show : BOOLEAN,
                            key : {Trees!Legacy} \cup (Source \X Trees!AnyType)]
  <2> SUFFICES ASSUME NEW c \in DOMAIN category'
               PROVE  category'[c] \in [pid : Trees!Cat \cup {0}, show : BOOLEAN,
                                   key : {Trees!Legacy} \cup (Source \X Trees!AnyType)]
    OBVIOUS
  <2>1. CASE \E t \in DOMAIN plan : id[t] = c
    BY <1>4, <2>1 DEF Written
  <2>2. CASE \A t \in DOMAIN plan : id[t] # c
    <3>1. c \in DOMAIN category /\ category'[c] = category[c]
      BY <1>4, <2>2 DEF Written
    <3> QED
      BY <3>1 DEF TreeInv, CategoriesTyped
  <2> QED
    BY <2>1, <2>2
<1>13. treeMutex' \in Actor \cup {Trees!Unheld} /\ requests' \in 0 .. MaxOrders
  BY <1>6 DEF TreeInv, CategoriesTyped
<1> QED
  BY <1>5, <1>6, <1>7, <1>8, <1>11, <1>12, <1>13, TablesChange

\* What is left of a root that is made or found for source s: type t of s is mapped
\* to c, that has its key or is new.
Rooted(s, t, read, c) ==
    /\ t \in Trees!AnyType
    /\ mapping' = [mapping EXCEPT ![s] = Trees!With(@, t, c)]
    /\ \/ tree' = tree
       \/ tree' = [tree EXCEPT ![s] = Trees!With(@, t, Trees!Node(0, "other"))]
    /\ \/ category' = category /\ nextCat' = nextCat /\ Keyed(read, s, t, c)
       \/ /\ category' = Trees!With(category, c, Trees!Row(0, <<s, t>>, TRUE))
          /\ c = nextCat /\ nextCat <= MaxCat /\ nextCat' = nextCat + 1
    /\ raced' = raced \/ raced' = raced \cup {s}
    /\ s \notin raced' =>
          /\ raced' = raced /\ t = OtherType
          /\ t \notin DOMAIN mapping[s] /\ c = nextCat
          /\ tree' = [tree EXCEPT ![s] = Trees!With(@, t, Trees!Node(0, "other"))]
          /\ category' = Trees!With(category, c, Trees!Row(0, <<s, t>>, TRUE))

\* createOtherCategory finds the root of its source, or makes it.
LEMMA RootsRooted ==
    ASSUME TreeInv, NEW p \in Actor, Trees!CreatesOther(p)
    PROVE  \/ UNCHANGED <<tree, mapping, category, nextCat, raced>>
           \/ \E t, c : Rooted(caller[p].site, t, caller[p].read, c)
<1> DEFINE s == caller[p].site
           read == caller[p].read
           roots == Trees!OtherRoots(read.tree[s])
           t == IF roots = {} THEN OtherType ELSE Trees!Least(roots)
           stands == /\ roots # {} /\ t \in DOMAIN read.mapping[s]
                     /\ read.mapping[s][t] \in DOMAIN read.category
           named == {d \in DOMAIN read.category : read.category[d].key = <<s, t>>}
           c == IF named = {} THEN nextCat ELSE CHOOSE d \in named : TRUE
<1>1. s \in Source /\ read \in Views
  BY DEF Trees!CreatesOther, Trees!At, TreeInv, JobsTyped, JobTyped, Views, WithSnapshot
<1>2. CASE stands
  <2>1. UNCHANGED Trees!tables
    BY <1>2 DEF Trees!CreatesOther
  <2> QED
    BY <2>1 DEF Trees!tables
<1>3. CASE ~stands
  <2>1. /\ named = {} => ~Trees!KeyTaken(s, t, c) /\ nextCat <= MaxCat
        /\ roots = {} => t \notin DOMAIN tree[s]
        /\ t \notin DOMAIN read.mapping[s] => t \notin DOMAIN mapping[s]
        /\ category' = IF named # {} THEN category
                       ELSE Trees!With(category, c, Trees!Row(0, <<s, t>>, TRUE))
        /\ nextCat' = IF named = {} THEN nextCat + 1 ELSE nextCat
        /\ tree' = IF roots = {}
                   THEN [tree EXCEPT ![s] = Trees!With(@, t, Trees!Node(0, "other"))]
                   ELSE tree
        /\ mapping' = [mapping EXCEPT ![s] = Trees!With(@, t, c)]
        /\ raced' = IF <<read.tree[s], read.mapping[s]>> = <<tree[s], mapping[s]>>
                    THEN raced ELSE raced \cup {s}
    BY <1>3 DEF Trees!CreatesOther
  <2>2. /\ roots \subseteq DOMAIN read.tree[s]
        /\ DOMAIN read.tree[s] \subseteq Trees!AnyType
    BY <1>1 DEF TreeInv, CategoriesTyped, ViewTyped, Closed, Trees!OtherRoots
  <2> HIDE DEF roots
  <2>3. /\ roots # {} => t \in DOMAIN read.tree[s]
        /\ t \in Trees!AnyType
    BY <2>2, FirstType DEF Trees!AnyType
  <2>4. roots = {} => t = OtherType
    OBVIOUS
  <2> HIDE DEF s, read, t
  <2>5. named # {} => Keyed(read, s, t, c)
    BY DEF Keyed
  <2>6. named = {} => c = nextCat
    OBVIOUS
  <2>7. ASSUME s \notin raced'
        PROVE  raced' = raced /\ roots = {} /\ t \notin DOMAIN mapping[s] /\ named = {}
    <3>1. read.tree[s] = tree[s] /\ read.mapping[s] = mapping[s] /\ raced' = raced
      BY <2>1, <2>7
    <3>2. Sound(read, s)
      BY <1>1, <2>7, <3>1 DEF TreeInv, AllSound
    <3>3. roots = {}
      BY <1>3, <2>3, <3>2 DEF Sound
    <3>4. t \notin DOMAIN mapping[s]
      BY <2>1, <3>1, <3>2, <3>3 DEF Sound
    <3>5. named = {}
      BY <2>4, <2>5, <3>1, <3>2, <3>3, <3>4 DEF Sound, Keyed
    <3> QED
      BY <3>1, <3>3, <3>4, <3>5
  <2> HIDE DEF named, c
  <2>8. Rooted(s, t, read, c)
    BY <2>1, <2>3, <2>4, <2>5, <2>6, <2>7 DEF Rooted
  <2> QED
    BY <2>8 DEF s, read
<1> QED
  BY <1>2, <1>3

\* Around it nothing else changes.
LEMMA RootedAround ==
    ASSUME TreeInv, NEW s \in Source, NEW read \in Views, NEW t, NEW c,
           Rooted(s, t, read, c)
    PROVE  /\ \A u \in Source : mapping'[u] = IF u = s THEN Trees!With(mapping[s], t, c)
                                              ELSE mapping[u]
           /\ \A u \in Source \ {s} : tree'[u] = tree[u]
           /\ \A u \in Source : \A d : Has(Now', u, d) =>
                 Has(Now, u, d) \/ (u = s /\ d = c)
           /\ \A u \in Source : \A k \in Trees!AnyType : \A d : Keyed(Now', u, k, d) =>
                 Keyed(Now, u, k, d) \/ (u = s /\ k = t /\ d = c /\ c = nextCat)
           /\ c >= nextCat \/ Sole(read, s, c)
           /\ \A d \in DOMAIN category :
                 d \in DOMAIN category' /\ category'[d] = category[d]
<1>1. /\ Now'.mapping = mapping' /\ Now'.category = category'
      /\ Now.mapping = mapping /\ Now.category = category
      /\ DOMAIN mapping = Source /\ DOMAIN tree = Source
      /\ nextCat \in Nat /\ DOMAIN category \subseteq 1 .. nextCat - 1
  BY NowTyped, ViewBounds, TreeAssumption
     DEF TreeInv, CategoriesTyped, Now, Trees!Snapshot
<1>2. \A u \in Source : mapping'[u] = IF u = s THEN Trees!With(mapping[s], t, c)
                                      ELSE mapping[u]
  BY <1>1 DEF Rooted
<1>3. \A u \in Source \ {s} : tree'[u] = tree[u]
  BY <1>1 DEF Rooted
<1>4. ASSUME NEW u \in Source, NEW d, Has(Now', u, d)
      PROVE  Has(Now, u, d) \/ (u = s /\ d = c)
  <2>1. PICK x \in DOMAIN mapping'[u] : mapping'[u][x] = d
    BY <1>1, <1>4 DEF Has
  <2>2. CASE u # s
    BY <1>1, <1>2, <2>1, <2>2 DEF Has
  <2>3. CASE u = s
    <3>1. mapping'[u] = Trees!With(mapping[u], t, c)
      BY <1>2, <2>3
    <3>2. d = c \/ (x \in DOMAIN mapping[u] /\ mapping[u][x] = d)
      BY <2>1, <3>1 DEF Trees!With
    <3> QED
      BY <1>1, <2>3, <3>2 DEF Has
  <2> QED
    BY <2>2, <2>3
<1>5. nextCat \notin DOMAIN category
  BY <1>1
<1>6. \A d \in DOMAIN category : d \in DOMAIN category' /\ category'[d] = category[d]
  BY <1>5 DEF Rooted, Trees!With
<1>7. ASSUME NEW u \in Source, NEW k \in Trees!AnyType, NEW d, Keyed(Now', u, k, d)
      PROVE  Keyed(Now, u, k, d) \/ (u = s /\ k = t /\ d = c /\ c = nextCat)
  <2>1. d \in DOMAIN category' /\ category'[d].key = <<u, k>>
    BY <1>1, <1>7 DEF Keyed
  <2>2. CASE d \in DOMAIN category
    BY <1>1, <1>6, <2>1, <2>2 DEF Keyed
  <2>3. CASE d \notin DOMAIN category
    <3>1. d = c /\ c = nextCat /\ category'[d].key = <<s, t>>
      BY <2>1, <2>3 DEF Rooted, Trees!With, Trees!Row
    <3>2. <<u, k>> = <<s, t>>
      BY <2>1, <3>1
    <3> QED
      BY <3>1, <3>2
  <2> QED
    BY <2>2, <2>3
<1>8. c >= nextCat \/ Sole(read, s, c)
  <2>1. c = nextCat \/ (Keyed(read, s, t, c) /\ t \in Trees!AnyType)
    BY DEF Rooted
  <2>2. nextCat >= nextCat
    BY <1>1
  <2> QED
    BY <2>1, <2>2 DEF Sole
<1> QED
  BY <1>2, <1>3, <1>4, <1>6, <1>7, <1>8

\* The category that is found or made was no other source's.
LEMMA RootedGains ==
    ASSUME TreeInv, NEW s \in Source, NEW read \in Views, NEW t, NEW c,
           Rooted(s, t, read, c)
    PROVE  Gains
<1>1. nextCat \in Nat /\ Now \in Views
  BY TreeAssumption DEF TreeInv, CategoriesTyped, Views
<1>2. \A u \in Source : \A k \in Trees!AnyType : \A d :
         (Has(Now, u, d) => ~(d >= nextCat)) /\ (Keyed(Now, u, k, d) => ~(d >= nextCat))
  <2> SUFFICES ASSUME NEW u \in Source, NEW k \in Trees!AnyType, NEW d,
                      Has(Now, u, d) \/ Keyed(Now, u, k, d)
               PROVE  ~(d >= nextCat)
    OBVIOUS
  <2>1. d \in 1 .. nextCat - 1
    BY <1>1, ViewBounds
  <2> QED
    BY <1>1, <2>1
<1>3. t \in Trees!AnyType
  BY DEF Rooted
<1>4. c = nextCat => c >= nextCat
  BY <1>1
<1> QED
  BY <1>2, <1>3, <1>4, RootedAround DEF Gains

\* The source is in step with its new root.
LEMMA RootedSoundly ==
    ASSUME TreeInv, NEW s \in Source, NEW read \in Views, NEW t, NEW c,
           Rooted(s, t, read, c)
    PROVE  GainsSoundly
<1>1. /\ Now \in Views /\ nextCat \in Nat /\ OtherType \in Trees!AnyType
      /\ Now'.mapping = mapping' /\ Now'.category = category' /\ Now'.tree = tree'
      /\ Now.mapping = mapping /\ Now.category = category /\ Now.tree = tree
      /\ DOMAIN tree = Source
  BY NowTyped, TreeAssumption
     DEF TreeInv, CategoriesTyped, Now, Trees!Snapshot, Trees!AnyType
<1>2. \A u \in Source \ raced' : Sound(Now, u)
  <2>1. raced \subseteq raced'
    BY DEF Rooted
  <2> QED
    BY <1>1, <2>1 DEF TreeInv, AllSound
<1>3. \A u \in Source : \A x \in DOMAIN mapping[u] : mapping[u][x] # nextCat
  <2> SUFFICES ASSUME NEW u \in Source, NEW x \in DOMAIN mapping[u]
               PROVE  mapping[u][x] # nextCat
    OBVIOUS
  <2>1. mapping[u][x] \in 1 .. nextCat - 1
    BY NowTyped DEF ViewTyped
  <2> QED
    BY <1>1, <2>1
<1>4. ASSUME NEW u \in Source \ raced', u # s
      PROVE  /\ Sound(Now', u)
             /\ \A d : Has(Now', u, d) => Has(Now, u, d)
             /\ \A d : Keyed(Now', u, OtherType, d) => Keyed(Now, u, OtherType, d)
  <2>1. mapping'[u] = mapping[u] /\ tree'[u] = tree[u]
    BY <1>4, RootedAround
  <2>2. \A k \in Trees!AnyType : \A d : Keyed(Now', u, k, d) => Keyed(Now, u, k, d)
    BY <1>4, RootedAround
  <2>3. \A d : Has(Now', u, d) => Has(Now, u, d)
    BY <1>4, RootedAround
  <2>4. \A d \in DOMAIN category : d \in DOMAIN category' /\ category'[d] = category[d]
    BY RootedAround
  <2>5. \A k \in Trees!AnyType : \A d : Keyed(Now, u, k, d) => Keyed(Now', u, k, d)
    BY <1>1, <2>4 DEF Keyed
  <2>6. Sound(Now, u)
    BY <1>2
  <2>7. /\ DOMAIN mapping'[u] = DOMAIN tree'[u]
        /\ \A x \in DOMAIN mapping'[u] :
              /\ mapping'[u][x] \in DOMAIN category'
              /\ \A k \in Trees!AnyType : Keyed(Now', u, k, mapping'[u][x]) => k = x
    BY <1>1, <2>1, <2>2, <2>4, <2>6 DEF Sound
  <2>8. OtherType \in DOMAIN mapping'[u]
        => Keyed(Now', u, OtherType, mapping'[u][OtherType])
    BY <1>1, <2>1, <2>5, <2>6 DEF Sound
  <2>9. \A d \in DOMAIN category' : Keyed(Now', u, OtherType, d)
        => OtherType \in DOMAIN mapping'[u] /\ mapping'[u][OtherType] = d
    <3> SUFFICES ASSUME NEW d, Keyed(Now', u, OtherType, d)
                 PROVE  OtherType \in DOMAIN mapping[u] /\ mapping[u][OtherType] = d
      BY <2>1
    <3>1. Keyed(Now, u, OtherType, d) /\ d \in DOMAIN Now.category
      BY <1>1, <2>2 DEF Keyed
    <3> QED
      BY <1>1, <2>6, <3>1 DEF Sound
  <2>10. Sound(Now', u)
    BY <1>1, <2>7, <2>8, <2>9 DEF Sound
  <2> QED
    BY <1>1, <2>2, <2>3, <2>10
<1>5. ASSUME s \notin raced'
      PROVE  /\ Sound(Now', s)
             /\ \A d : Has(Now', s, d) => Has(Now, s, d) \/ d >= nextCat
             /\ \A d : Keyed(Now', s, OtherType, d)
                       => Keyed(Now, s, OtherType, d) \/ d >= nextCat
  <2>1. /\ t = OtherType /\ t \notin DOMAIN mapping[s] /\ c = nextCat
        /\ tree' = [tree EXCEPT ![s] = Trees!With(@, t, Trees!Node(0, "other"))]
        /\ category' = Trees!With(category, c, Trees!Row(0, <<s, t>>, TRUE))
    BY <1>5 DEF Rooted
  <2>2. Sound(Now, s)
    BY <1>2, <1>5
  <2>3. /\ mapping'[s] = Trees!With(mapping[s], t, c)
        /\ tree'[s] = Trees!With(tree[s], t, Trees!Node(0, "other"))
    <3>1. mapping'[s] = Trees!With(mapping[s], t, c)
      BY RootedAround
    <3>2. tree'[s] = Trees!With(tree[s], t, Trees!Node(0, "other"))
      BY <1>1, <2>1
    <3> QED
      BY <3>1, <3>2
  <2>4. /\ DOMAIN mapping'[s] = DOMAIN mapping[s] \cup {t}
        /\ DOMAIN tree'[s] = DOMAIN tree[s] \cup {t}
        /\ mapping'[s][t] = c
        /\ \A x \in DOMAIN mapping[s] : mapping'[s][x] = mapping[s][x]
    BY <2>1, <2>3 DEF Trees!With
  <2>5. c \in DOMAIN category' /\ category'[c].key = <<s, t>>
    BY <2>1 DEF Trees!With, Trees!Row
  <2>6. \A d \in DOMAIN category : d \in DOMAIN category' /\ category'[d] = category[d]
    BY RootedAround
  <2>7. \A k \in Trees!AnyType : \A d : Keyed(Now', s, k, d) =>
           Keyed(Now, s, k, d) \/ (k = t /\ d = c)
    BY RootedAround
  <2>8. \A k \in Trees!AnyType : Keyed(Now', s, k, c) => k = t
    <3> SUFFICES ASSUME NEW k \in Trees!AnyType, Keyed(Now', s, k, c) PROVE k = t
      OBVIOUS
    <3>1. <<s, k>> = <<s, t>>
      BY <1>1, <2>5 DEF Keyed
    <3> QED
      BY <3>1
  <2>9. DOMAIN mapping[s] = DOMAIN tree[s]
        /\ \A x \in DOMAIN mapping[s] :
              /\ mapping[s][x] \in DOMAIN category
              /\ \A k \in Trees!AnyType : Keyed(Now, s, k, mapping[s][x]) => k = x
    BY <1>1, <2>2 DEF Sound
  <2>10. ASSUME NEW x \in DOMAIN mapping'[s]
         PROVE  /\ mapping'[s][x] \in DOMAIN category'
                /\ \A k \in Trees!AnyType : Keyed(Now', s, k, mapping'[s][x]) => k = x
    <3>1. CASE x = t
      BY <2>4, <2>5, <2>8, <3>1
    <3>2. CASE x \in DOMAIN mapping[s]
      <4>1. mapping'[s][x] = mapping[s][x] /\ mapping[s][x] # c
        BY <1>3, <2>1, <2>4, <3>2
      <4>2. \A k \in Trees!AnyType : Keyed(Now', s, k, mapping[s][x])
                                     => Keyed(Now, s, k, mapping[s][x])
        BY <2>7, <4>1
      <4> QED
        BY <2>6, <2>9, <3>2, <4>1, <4>2
    <3> QED
      BY <2>4, <3>1, <3>2
  <2>11. Keyed(Now', s, OtherType, mapping'[s][OtherType])
    BY <1>1, <2>1, <2>4, <2>5 DEF Keyed
  <2>12. ASSUME NEW d, Keyed(Now', s, OtherType, d) PROVE d = c
    <3>1. ~Keyed(Now, s, OtherType, d)
      BY <1>1, <2>1, <2>2 DEF Sound, Keyed
    <3> QED
      BY <1>1, <2>7, <2>12, <3>1
  <2>13. Sound(Now', s)
    BY <1>1, <2>1, <2>4, <2>9, <2>10, <2>11, <2>12 DEF Sound
  <2>14. c >= nextCat
    BY <1>1, <2>1
  <2>15. \A d : Has(Now', s, d) => Has(Now, s, d) \/ d >= nextCat
    BY <2>14, RootedAround
  <2> QED
    BY <2>12, <2>13, <2>14, <2>15
<1> QED
  BY <1>4, <1>5 DEF GainsSoundly

\* The commit of createOtherCategory.
LEMMA RootsKeepTrees ==
    ASSUME TreeInv, NEW p \in Actor, Trees!CreatesOther(p)
    PROVE  TreeInv'
<1> DEFINE s == caller[p].site
           read == caller[p].read
           job == [at |-> "load", frees |-> TRUE]
<1>1. s \in Source /\ read \in Views
  BY DEF Trees!CreatesOther, Trees!At, TreeInv, JobsTyped, JobTyped, Views, WithSnapshot
<1>2. /\ caller' = [caller EXCEPT ![p] = job] /\ JobTyped(job) /\ job.at = "load"
      /\ treeMutex' \in Actor \cup {Trees!Unheld} /\ requests' \in 0 .. MaxOrders
  <2>1. treeMutex \in Actor \cup {Trees!Unheld} /\ requests \in 0 .. MaxOrders
    BY DEF TreeInv, CategoriesTyped
  <2> QED
    BY <2>1 DEF Trees!CreatesOther, Trees!Becomes, JobTyped
<1>3. CASE UNCHANGED <<tree, mapping, category, nextCat, raced>>
  <2> HIDE DEF job
  <2> QED
    BY <1>2, <1>3, TablesStay
<1>4. ASSUME NEW t, NEW c, Rooted(s, t, read, c) PROVE TreeInv'
  <2> HIDE DEF s, read, job
  <2>1. Gains /\ GainsSoundly
    BY <1>1, <1>4, RootedGains, RootedSoundly
  <2>2. nextCat \in 1 .. MaxCat + 1 /\ raced \subseteq Source
    BY DEF TreeInv, CategoriesTyped
  <2>3. /\ nextCat' \in 1 .. MaxCat + 1 /\ nextCat <= nextCat'
        /\ nextCat \in Nat /\ nextCat' \in Nat
    <3>1. nextCat' = nextCat \/ (nextCat <= MaxCat /\ nextCat' = nextCat + 1)
      BY <1>4 DEF Rooted
    <3>2. MaxCat \in Nat
      BY TreeAssumption
    <3> QED
      BY <2>2, <3>1, <3>2
  <2>4. raced \subseteq raced' /\ raced' \subseteq Source
    BY <1>1, <1>4, <2>2 DEF Rooted
  <2>5. c \in 1 .. nextCat' - 1
    <3>1. CASE Keyed(read, s, t, c)
      <4>1. c \in 1 .. nextCat - 1
        BY <1>1, <3>1, ViewBounds
      <4> QED
        BY <2>3, <4>1, UpTo
    <3>2. CASE c = nextCat /\ nextCat' = nextCat + 1
      BY <2>2, <2>3, <3>2, TreeAssumption
    <3> QED
      BY <1>4, <3>1, <3>2 DEF Rooted
  <2>6. ASSUME NEW d \in 1 .. nextCat - 1 PROVE d \in 1 .. nextCat' - 1
    BY <2>3, UpTo
  <2>7. ASSUME NEW u \in Source
        PROVE  /\ Closed(tree'[u]) /\ DOMAIN mapping'[u] \subseteq Trees!AnyType
               /\ \A x \in DOMAIN mapping'[u] : mapping'[u][x] \in 1 .. nextCat' - 1
    <3>1. /\ Closed(tree[u]) /\ DOMAIN mapping[u] \subseteq Trees!AnyType
          /\ \A x \in DOMAIN mapping[u] : mapping[u][x] \in 1 .. nextCat - 1
      BY NowTyped DEF ViewTyped
    <3>2. t \in Trees!AnyType
      BY <1>4 DEF Rooted
    <3>3. Closed(tree'[u])
      <4>1. \/ tree'[u] = tree[u]
            \/ tree'[u] = Trees!With(tree[u], t, Trees!Node(0, "other"))
        BY <1>4, NowTyped DEF Rooted
      <4>2. Closed(Trees!With(tree[u], t, Trees!Node(0, "other")))
        BY <3>1, <3>2 DEF Closed, Trees!With, Trees!Node
      <4> QED
        BY <3>1, <4>1, <4>2
    <3>4. mapping'[u] = mapping[u] \/ mapping'[u] = Trees!With(mapping[u], t, c)
      BY <1>1, <1>4, RootedAround
    <3>5. /\ DOMAIN mapping'[u] \subseteq DOMAIN mapping[u] \cup {t}
          /\ \A x \in DOMAIN mapping'[u] :
                mapping'[u][x] = c \/ (x \in DOMAIN mapping[u]
                                       /\ mapping'[u][x] = mapping[u][x])
      BY <3>4 DEF Trees!With
    <3> QED
      BY <2>5, <2>6, <3>1, <3>2, <3>3, <3>5
  <2>8. DOMAIN tree' = Source /\ DOMAIN mapping' = Source
    BY <1>4, NowTyped DEF Rooted
  <2>9. ASSUME NEW d \in DOMAIN category'
        PROVE  /\ d \in 1 .. nextCat' - 1
               /\ category'[d] \in [pid : Trees!Cat \cup {0}, show : BOOLEAN,
                                    key : {Trees!Legacy} \cup (Source \X Trees!AnyType)]
    <3>1. CASE d \in DOMAIN category
      <4>1. d \in 1 .. nextCat - 1
        BY <3>1, NowTyped
      <4>2. category'[d] = category[d]
        BY <1>1, <1>4, <3>1, RootedAround
      <4> QED
        BY <2>6, <3>1, <4>1, <4>2 DEF TreeInv, CategoriesTyped
    <3>2. CASE d \notin DOMAIN category
      <4>1. category' = Trees!With(category, c, Trees!Row(0, <<s, t>>, TRUE))
            /\ t \in Trees!AnyType
        BY <1>4, <3>2 DEF Rooted
      <4> DEFINE made == Trees!Row(0, <<s, t>>, TRUE)
      <4> HIDE DEF made
      <4>2. /\ DOMAIN Trees!With(category, c, made) = DOMAIN category \cup {c}
            /\ Trees!With(category, c, made)[c] = made
        BY DEF Trees!With
      <4>3. category' = Trees!With(category, c, made)
        BY <4>1 DEF made
      <4>4. d = c /\ category'[d] = made
        BY <3>2, <4>2, <4>3
      <4>5. s \in Source /\ t \in Trees!AnyType
        BY <1>1, <4>1
      <4>6. made \in [pid : Trees!Cat \cup {0}, show : BOOLEAN,
                     key : {Trees!Legacy} \cup (Source \X Trees!AnyType)]
        BY <4>5 DEF made, Trees!Row
      <4> QED
        BY <2>5, <4>4, <4>6
    <3> QED
      BY <3>1, <3>2
  <2>10. ViewTyped(Now)'
    <3>1. Now'.tree = tree' /\ Now'.mapping = mapping' /\ Now'.category = category'
      BY DEF Now, Trees!Snapshot
    <3> QED
      BY <2>7, <2>8, <2>9, <3>1 DEF ViewTyped
  <2> QED
    BY <1>2, <2>1, <2>3, <2>4, <2>9, <2>10, TablesChange
<1> HIDE DEF s, read, job
<1>5. UNCHANGED <<tree, mapping, category, nextCat, raced>>
      \/ \E t, c : Rooted(s, t, read, c)
  BY RootsRooted DEF s, read
<1> QED
  BY <1>3, <1>4, <1>5

\* No source gains anything.
LEMMA LessGains ==
    ASSUME TreeInv,
           \A u \in Source : \A d : Has(Now', u, d) => Has(Now, u, d),
           \A u \in Source : \A k \in Trees!AnyType : \A d :
              Keyed(Now', u, k, d) => Keyed(Now, u, k, d),
           \A u \in Source \ raced' : Sound(Now', u)
    PROVE  Gains /\ GainsSoundly
<1>1. Now \in Views /\ nextCat \in Nat /\ OtherType \in Trees!AnyType
  BY NowTyped, TreeAssumption DEF TreeInv, CategoriesTyped, Trees!AnyType
<1>2. \A u \in Source : \A d : Has(Now, u, d) => ~(d >= nextCat)
  <2> SUFFICES ASSUME NEW u \in Source, NEW d, Has(Now, u, d) PROVE ~(d >= nextCat)
    OBVIOUS
  <2>1. d \in 1 .. nextCat - 1
    BY <1>1, ViewBounds
  <2> QED
    BY <1>1, <2>1
<1> QED
  BY <1>1, <1>2 DEF Gains, GainsSoundly

\* The tables of a source whose mapping and keys stay are as sound as before.
LEMMA SoundStays ==
    ASSUME NEW u \in Source, Sound(Now, u),
           mapping'[u] = mapping[u], tree'[u] = tree[u],
           \A k \in Trees!AnyType : \A d : Keyed(Now', u, k, d) => Keyed(Now, u, k, d),
           \A x \in DOMAIN mapping[u] : \A d : d = mapping[u][x] =>
              d \in DOMAIN category' /\ category'[d].key = category[d].key
    PROVE  Sound(Now', u)
<1>1. /\ Now.mapping = mapping /\ Now.category = category /\ Now.tree = tree
      /\ Now'.mapping = mapping' /\ Now'.category = category' /\ Now'.tree = tree'
  BY DEF Now, Trees!Snapshot
<1>2. OtherType \in Trees!AnyType
  BY DEF Trees!AnyType
<1>3. \A x \in DOMAIN mapping'[u] :
         /\ mapping'[u][x] \in DOMAIN category'
         /\ \A k \in Trees!AnyType : Keyed(Now', u, k, mapping'[u][x]) => k = x
  BY <1>1 DEF Sound
<1>4. OtherType \in DOMAIN mapping'[u]
      => Keyed(Now', u, OtherType, mapping'[u][OtherType])
  BY <1>1 DEF Sound, Keyed
<1>5. ASSUME NEW d, Keyed(Now', u, OtherType, d)
      PROVE  OtherType \in DOMAIN mapping'[u] /\ mapping'[u][OtherType] = d
  <2>1. Keyed(Now, u, OtherType, d) /\ d \in DOMAIN category
    BY <1>1, <1>2, <1>5 DEF Keyed
  <2> QED
    BY <1>1, <2>1 DEF Sound
<1>6. DOMAIN mapping'[u] = DOMAIN tree'[u]
  BY <1>1 DEF Sound
<1> QED
  BY <1>1, <1>3, <1>4, <1>5, <1>6 DEF Sound

\* What is left where categories are only taken away or shown and hidden.
Fewer(gone) ==
    /\ DOMAIN category' = DOMAIN category \ gone
    /\ \A c \in DOMAIN category' :
          /\ category'[c].key = category[c].key
          /\ category'[c] \in [pid : Trees!Cat \cup {0}, show : BOOLEAN,
                               key : {Trees!Legacy} \cup (Source \X Trees!AnyType)]
    /\ nextCat' = nextCat /\ raced' = raced

\* Taking categories away that no source but the emptied ones maps keeps the
\* invariant.
LEMMA FewerKeepTrees ==
    ASSUME TreeInv, NEW p \in Actor, NEW gone, Fewer(gone),
           NEW emptied \in SUBSET Source,
           caller' = [caller EXCEPT ![p] = [at |-> "load", frees |-> FALSE]],
           treeMutex' = treeMutex, requests' \in 0 .. MaxOrders,
           DOMAIN tree' = Source, DOMAIN mapping' = Source,
           \A u \in Source : tree'[u] = IF u \in emptied THEN <<>> ELSE tree[u],
           \A u \in Source : mapping'[u] = IF u \in emptied THEN <<>> ELSE mapping[u],
           \A u \in Source \ (emptied \cup raced) : \A c \in gone : ~Has(Now, u, c),
           \A u \in emptied \ raced : \A c :
              Keyed(Now, u, OtherType, c) => c \in gone
    PROVE  TreeInv'
<1> DEFINE job == [at |-> "load", frees |-> FALSE]
<1>1. /\ Now.mapping = mapping /\ Now.category = category /\ Now.tree = tree
      /\ Now'.mapping = mapping' /\ Now'.category = category' /\ Now'.tree = tree'
      /\ DOMAIN tree = Source /\ DOMAIN mapping = Source
      /\ \A u \in Source : Closed(tree[u])
  BY NowTyped DEF Now, Trees!Snapshot
<1>2. DOMAIN <<>> = {}
  OBVIOUS
<1>3. ASSUME NEW u \in Source, NEW d, Has(Now', u, d) PROVE Has(Now, u, d)
  BY <1>1, <1>2, <1>3 DEF Has
<1>4. ASSUME NEW u \in Source, NEW k \in Trees!AnyType, NEW d, Keyed(Now', u, k, d)
      PROVE  Keyed(Now, u, k, d)
  BY <1>1, <1>4 DEF Keyed, Fewer
<1>5. ASSUME NEW u \in Source \ raced' PROVE Sound(Now', u)
  <2>1. Sound(Now, u)
    BY NowTyped DEF Fewer, TreeInv, AllSound
  <2>2. CASE u \in emptied
    <3>1. mapping'[u] = <<>> /\ tree'[u] = <<>>
      BY <2>2
    <3>2. ASSUME NEW d, Keyed(Now', u, OtherType, d) PROVE FALSE
      <4>1. d \in DOMAIN category' /\ Keyed(Now, u, OtherType, d)
        BY <1>1, <1>4, <3>2 DEF Keyed, Trees!AnyType
      <4> QED
        BY <2>2, <4>1 DEF Fewer
    <3> QED
      BY <1>1, <1>2, <3>1, <3>2 DEF Sound
  <2>3. CASE u \notin emptied
    <3>1. mapping'[u] = mapping[u] /\ tree'[u] = tree[u]
      BY <2>3
    <3>2. \A x \in DOMAIN mapping[u] : \A d : d = mapping[u][x] =>
             d \in DOMAIN category' /\ category'[d].key = category[d].key
      BY <1>1, <2>1, <2>3 DEF Sound, Has, Fewer
    <3> QED
      BY <1>4, <2>1, <3>1, <3>2, SoundStays
  <2> QED
    BY <2>2, <2>3
<1>6. Gains /\ GainsSoundly
  BY <1>3, <1>4, <1>5, LessGains
<1>7. ViewTyped(Now)'
  <2>1. ASSUME NEW u \in Source
        PROVE  /\ Closed(tree'[u]) /\ DOMAIN mapping'[u] \subseteq Trees!AnyType
               /\ \A x \in DOMAIN mapping'[u] : mapping'[u][x] \in 1 .. nextCat' - 1
    <3>1. CASE u \in emptied
      BY <1>2, <3>1 DEF Closed
    <3>2. CASE u \notin emptied
      <4>1. /\ DOMAIN mapping[u] \subseteq Trees!AnyType
            /\ \A x \in DOMAIN mapping[u] : mapping[u][x] \in 1 .. nextCat - 1
        BY NowTyped DEF ViewTyped
      <4>2. tree'[u] = tree[u] /\ mapping'[u] = mapping[u] /\ nextCat' = nextCat
        BY <3>2 DEF Fewer
      <4> QED
        BY <1>1, <4>1, <4>2
    <3> QED
      BY <3>1, <3>2
  <2>2. DOMAIN category' \subseteq 1 .. nextCat' - 1
    BY NowTyped DEF Fewer
  <2>3. DOMAIN tree' = Source /\ DOMAIN mapping' = Source
    OBVIOUS
  <2> QED
    BY <1>1, <2>1, <2>2, <2>3 DEF ViewTyped
<1>8. /\ raced \subseteq raced' /\ raced' \subseteq Source
      /\ nextCat' \in 1 .. MaxCat + 1 /\ nextCat <= nextCat'
      /\ treeMutex' \in Actor \cup {Trees!Unheld}
  BY TreeAssumption DEF Fewer, TreeInv, CategoriesTyped
<1>9. JobTyped(job) /\ job.at = "load" /\ caller' = [caller EXCEPT ![p] = job]
  BY DEF JobTyped
<1> HIDE DEF job
<1>10. \A c \in DOMAIN category' :
          category'[c] \in [pid : Trees!Cat \cup {0}, show : BOOLEAN,
                            key : {Trees!Legacy} \cup (Source \X Trees!AnyType)]
  BY DEF Fewer
<1> QED
  BY <1>6, <1>7, <1>8, <1>9, <1>10, TablesChange

\* ClearSourceCategoryDataTx takes the source's own categories, and it alone.
LEMMA ClearsLeave ==
    ASSUME TreeInv, NEW p \in Actor, NEW s \in Source, Trees!Clears(p, s)
    PROVE  /\ Fewer(Trees!Clearable(s))
           /\ \A c \in DOMAIN category' : category'[c] = category[c]
           /\ DOMAIN tree' = Source /\ DOMAIN mapping' = Source
           /\ \A u \in Source : tree'[u] = IF u \in {s} THEN <<>> ELSE tree[u]
           /\ \A u \in Source : mapping'[u] = IF u \in {s} THEN <<>> ELSE mapping[u]
           /\ \A u \in Source \ {s} : \A c \in Trees!Clearable(s) : ~Has(Now, u, c)
           /\ s \notin raced => \A c :
                 Keyed(Now, s, OtherType, c) => c \in Trees!Clearable(s)
<1>1. /\ category' = [c \in DOMAIN category \ Trees!Clearable(s) |-> category[c]]
      /\ tree' = [tree EXCEPT ![s] = <<>>] /\ mapping' = [mapping EXCEPT ![s] = <<>>]
      /\ nextCat' = nextCat /\ raced' = raced
      /\ DOMAIN tree = Source /\ DOMAIN mapping = Source
  BY NowTyped DEF Trees!Clears, Trees!Restrict
<1>2. \A c \in DOMAIN category : category[c] \in
         [pid : Trees!Cat \cup {0}, show : BOOLEAN,
          key : {Trees!Legacy} \cup (Source \X Trees!AnyType)]
  BY DEF TreeInv, CategoriesTyped
<1>3. /\ Fewer(Trees!Clearable(s))
      /\ \A c \in DOMAIN category' : category'[c] = category[c]
  BY <1>1, <1>2 DEF Fewer
<1>4. \A c : c \in Trees!Clearable(s) <=>
         Has(Now, s, c) /\ \A u \in Source \ {s} : ~Has(Now, u, c)
  <2>1. Now = Trees!Snapshot /\ Now.mapping = mapping
    BY NowTyped DEF Now
  <2> HIDE DEF Now
  <2>2. Trees!Clearable(s) = Trees!Range(Now.mapping[s]) \ Trees!MappedByOthers(Now, s)
    BY <2>1 DEF Trees!Clearable
  <2> QED
    BY <2>2, Others
<1>5. ASSUME s \notin raced, NEW c, Keyed(Now, s, OtherType, c)
      PROVE  c \in Trees!Clearable(s)
  <2>1. /\ Sound(Now, s) /\ c \in DOMAIN category
        /\ Now \in Views /\ Now.category = category
    BY <1>5, NowTyped DEF TreeInv, AllSound, Keyed
  <2>2. Has(Now, s, c)
    BY <1>5, <2>1 DEF Sound, Has
  <2>3. \A u \in Source \ {s} : ~Has(Now, u, c)
    BY <1>5, <2>1 DEF TreeInv, NeverShared
  <2> QED
    BY <1>4, <2>2, <2>3
<1> QED
  BY <1>1, <1>3, <1>4, <1>5

\* A deletion of a source, or a new address.
LEMMA ClearsKeepTrees ==
    ASSUME TreeInv, NEW p \in Actor, NEW s \in Source, Trees!Clears(p, s)
    PROVE  TreeInv'
<1>1. /\ caller' = [caller EXCEPT ![p] = [at |-> "load", frees |-> FALSE]]
      /\ treeMutex' = treeMutex /\ requests < MaxOrders /\ requests' = requests + 1
      /\ requests \in 0 .. MaxOrders
  BY DEF Trees!Clears, Trees!Becomes, Trees!Asks, TreeInv, CategoriesTyped
<1>2. requests' \in 0 .. MaxOrders
  BY <1>1, TreeAssumption
<1> DEFINE gone == Trees!Clearable(s)
           emptied == {s}
<1>3. /\ Fewer(gone) /\ emptied \in SUBSET Source
      /\ DOMAIN tree' = Source /\ DOMAIN mapping' = Source
      /\ \A u \in Source : tree'[u] = IF u \in emptied THEN <<>> ELSE tree[u]
      /\ \A u \in Source : mapping'[u] = IF u \in emptied THEN <<>> ELSE mapping[u]
      /\ \A u \in Source \ (emptied \cup raced) : \A c \in gone : ~Has(Now, u, c)
      /\ \A u \in emptied \ raced : \A c :
            Keyed(Now, u, OtherType, c) => c \in gone
  BY ClearsLeave
<1> HIDE DEF gone, emptied
<1> QED
  BY <1>1, <1>2, <1>3, FewerKeepTrees

\* deleteOrphanDisplayRootCategories: what it has seen without a mapping has none
\* yet, but for the sources whose transactions raced.
LEMMA DropsKeepTrees ==
    ASSUME TreeInv, NEW p \in Actor, Trees!DropsOrphans(p)
    PROVE  TreeInv'
<1>1. /\ category' = [c \in DOMAIN category \ caller[p].orphans |-> category[c]]
      /\ caller' = [caller EXCEPT ![p] = [at |-> "load", frees |-> FALSE]]
      /\ UNCHANGED <<tree, mapping, nextCat, raced, treeMutex, requests>>
      /\ caller[p].at = "orphans"
  BY DEF Trees!DropsOrphans, Trees!Becomes, Trees!Restrict, Trees!At
<1>2. Fewer(caller[p].orphans)
  BY <1>1 DEF Fewer, TreeInv, CategoriesTyped
<1>3. /\ DOMAIN tree' = Source /\ DOMAIN mapping' = Source
      /\ \A u \in Source : tree'[u] = IF u \in {} THEN <<>> ELSE tree[u]
      /\ \A u \in Source : mapping'[u] = IF u \in {} THEN <<>> ELSE mapping[u]
  BY <1>1, NowTyped
<1>4. \A u \in Source \ ({} \cup raced) : \A c \in caller[p].orphans : ~Has(Now, u, c)
  BY <1>1 DEF TreeInv, OrphansGone
<1>5. requests' \in 0 .. MaxOrders
  BY <1>1 DEF TreeInv, CategoriesTyped
<1> DEFINE gone == caller[p].orphans
           emptied == {}
<1>6. /\ Fewer(gone) /\ emptied \in SUBSET Source
      /\ DOMAIN tree' = Source /\ DOMAIN mapping' = Source
      /\ \A u \in Source : tree'[u] = IF u \in emptied THEN <<>> ELSE tree[u]
      /\ \A u \in Source : mapping'[u] = IF u \in emptied THEN <<>> ELSE mapping[u]
      /\ \A u \in Source \ (emptied \cup raced) : \A c \in gone : ~Has(Now, u, c)
      /\ \A u \in emptied \ raced : \A c :
            Keyed(Now, u, OtherType, c) => c \in gone
  BY <1>2, <1>3, <1>4
<1> HIDE DEF gone, emptied
<1> QED
  BY <1>1, <1>5, <1>6, FewerKeepTrees

\* SaveSourceCategoryOrder writes what is shown, of categories that may be gone.
LEMMA OrdersKeepTrees ==
    ASSUME TreeInv, NEW p \in Actor, Trees!WritesOrder(p)
    PROVE  TreeInv'
<1> DEFINE shown == caller[p].shown
<1>1. /\ category' = [c \in DOMAIN category |->
             IF c \in DOMAIN shown THEN [category[c] EXCEPT !.show = shown[c]]
             ELSE category[c]]
      /\ caller' = [caller EXCEPT ![p] = [at |-> "load", frees |-> FALSE]]
      /\ UNCHANGED <<tree, mapping, nextCat, raced, treeMutex, requests>>
      /\ \A c \in DOMAIN shown : shown[c] \in BOOLEAN
  BY DEF Trees!WritesOrder, Trees!Becomes, Trees!At, TreeInv, JobsTyped, JobTyped
<1> HIDE DEF shown
<1>2. ASSUME NEW c \in DOMAIN category'
      PROVE  /\ category'[c].key = category[c].key
             /\ category'[c] \in [pid : Trees!Cat \cup {0}, show : BOOLEAN,
                                  key : {Trees!Legacy} \cup (Source \X Trees!AnyType)]
  <2>1. c \in DOMAIN category /\ category[c] \in
           [pid : Trees!Cat \cup {0}, show : BOOLEAN,
            key : {Trees!Legacy} \cup (Source \X Trees!AnyType)]
    BY <1>1 DEF TreeInv, CategoriesTyped
  <2>2. \/ category'[c] = category[c]
        \/ /\ c \in DOMAIN shown
           /\ category'[c] = [category[c] EXCEPT !.show = shown[c]]
    BY <1>1, <2>1
  <2> QED
    BY <1>1, <2>1, <2>2
<1>3. Fewer({})
  BY <1>1, <1>2 DEF Fewer
<1>4. /\ DOMAIN tree' = Source /\ DOMAIN mapping' = Source
      /\ \A u \in Source : tree'[u] = IF u \in {} THEN <<>> ELSE tree[u]
      /\ \A u \in Source : mapping'[u] = IF u \in {} THEN <<>> ELSE mapping[u]
  BY <1>1, NowTyped
<1>5. requests' \in 0 .. MaxOrders
  BY <1>1 DEF TreeInv, CategoriesTyped
<1> DEFINE gone == {}
           emptied == {}
<1>6. /\ Fewer(gone) /\ emptied \in SUBSET Source
      /\ DOMAIN tree' = Source /\ DOMAIN mapping' = Source
      /\ \A u \in Source : tree'[u] = IF u \in emptied THEN <<>> ELSE tree[u]
      /\ \A u \in Source : mapping'[u] = IF u \in emptied THEN <<>> ELSE mapping[u]
      /\ \A u \in Source \ (emptied \cup raced) : \A c \in gone : ~Has(Now, u, c)
      /\ \A u \in emptied \ raced : \A c :
            Keyed(Now, u, OtherType, c) => c \in gone
  BY <1>3, <1>4
<1> HIDE DEF gone, emptied
<1> QED
  BY <1>1, <1>5, <1>6, FewerKeepTrees

-----------------------------------------------------------------------------
(* The categories: the theorems                                            *)

\* In a new library nothing is mapped; in one of an older version all sources
\* share what they are mapped to, and nothing is anybody's own.
LEMMA TreesBegin == Trees!Init => TreeInv
<1> SUFFICES ASSUME Trees!Init PROVE TreeInv
  OBVIOUS
<1>1. PICK old \in BOOLEAN, nodes \in Site :
         /\ tree = [s \in Source |-> IF old THEN nodes ELSE <<>>]
         /\ mapping = [s \in Source |->
                         IF old THEN [t \in DOMAIN nodes |-> 1] ELSE <<>>]
         /\ category = IF old THEN [c \in {1} |-> Trees!Row(0, Trees!Legacy, TRUE)]
                       ELSE <<>>
         /\ nextCat = IF old THEN 2 ELSE 1
  BY DEF Trees!Init
<1>2. /\ treeMutex = Trees!Unheld /\ caller = [p \in Actor |-> Trees!Idle]
      /\ requests = 0 /\ raced = {}
  BY DEF Trees!Init
<1>3. WithSnapshot = {} /\ Views = {Now}
  BY <1>2 DEF WithSnapshot, Views, Trees!Idle
<1>4. Now.tree = tree /\ Now.mapping = mapping /\ Now.category = category
  BY DEF Now, Trees!Snapshot
<1>5. /\ DOMAIN nodes \subseteq Type /\ Closed(nodes)
      /\ OtherType \notin Type /\ 0 \notin Trees!AnyType
      /\ OtherType \in Trees!AnyType
  BY TreeAssumption DEF Closed, Trees!AnyType
<1>6. DOMAIN <<>> = {}
  OBVIOUS
<1>7. \A s \in Source : \A t \in Trees!AnyType : \A c : ~Keyed(Now, s, t, c)
  <2> SUFFICES ASSUME NEW s \in Source, NEW t \in Trees!AnyType, NEW c,
                      Keyed(Now, s, t, c)
               PROVE  FALSE
    OBVIOUS
  <2>1. c \in DOMAIN category /\ category[c].key = <<s, t>>
    BY <1>4 DEF Keyed
  <2>2. category[c].key = <<"legacy", 0>>
    BY <1>1, <1>6, <2>1 DEF Trees!Row, Trees!Legacy
  <2>3. <<s, t>> = <<"legacy", 0>>
    BY <2>1, <2>2
  <2>4. t = 0
    BY <2>3
  <2> QED
    BY <1>5, <2>4
<1>8. \A s \in Source :
         /\ Closed(tree[s]) /\ DOMAIN mapping[s] = DOMAIN tree[s]
         /\ DOMAIN mapping[s] \subseteq Trees!AnyType
         /\ OtherType \notin DOMAIN mapping[s]
         /\ \A t \in DOMAIN mapping[s] : mapping[s][t] = 1 /\ 1 \in DOMAIN category
                                         /\ 1 \in 1 .. nextCat - 1
  <2>1. CASE old
    <3>1. nextCat = 2 /\ DOMAIN category = {1}
      BY <1>1, <2>1
    <3>2. \A s \in Source : tree[s] = nodes /\ mapping[s] = [t \in DOMAIN nodes |-> 1]
      BY <1>1, <2>1
    <3>3. 1 \in 1 .. nextCat - 1
      BY <3>1
    <3> QED
      BY <1>5, <3>1, <3>2, <3>3 DEF Closed
  <2>2. CASE ~old
    <3>1. \A s \in Source : tree[s] = <<>> /\ mapping[s] = <<>>
      BY <1>1, <2>2
    <3> QED
      BY <1>6, <3>1 DEF Closed
  <2> QED
    BY <2>1, <2>2
<1>9. ViewTyped(Now)
  <2>1. DOMAIN tree = Source /\ DOMAIN mapping = Source
    BY <1>1
  <2>2. DOMAIN category \subseteq 1 .. nextCat - 1
    <3>1. CASE old
      BY <1>1, <3>1
    <3>2. CASE ~old
      BY <1>1, <1>6, <3>2
    <3> QED
      BY <3>1, <3>2
  <2> QED
    BY <1>4, <1>8, <2>1, <2>2 DEF ViewTyped
<1>10. CategoriesTyped
  <2>1. \A c \in DOMAIN category :
           category[c] \in [pid : Trees!Cat \cup {0}, show : BOOLEAN,
                            key : {Trees!Legacy} \cup (Source \X Trees!AnyType)]
    BY <1>1, <1>6 DEF Trees!Row
  <2>2. nextCat \in 1 .. MaxCat + 1
    BY <1>1, TreeAssumption
  <2>3. requests \in 0 .. MaxOrders
    BY <1>2, TreeAssumption
  <2> QED
    BY <1>2, <1>3, <1>9, <2>1, <2>2, <2>3 DEF CategoriesTyped
<1>11. JobsTyped /\ OrphansGone
  BY <1>2 DEF JobsTyped, JobTyped, OrphansGone, Trees!Idle
<1>12. \A s \in Source : \A c : Sole(Now, s, c) =>
          Has(Now, s, c) /\ \A u \in Source \ {s} : ~Has(Now, u, c)
  BY <1>7 DEF Sole
<1>13. Apart /\ OneOwner
  BY <1>3, <1>12 DEF Apart, OneOwner
<1>14. AllSound
  <2> SUFFICES ASSUME NEW s \in Source PROVE Sound(Now, s)
    BY <1>3 DEF AllSound
  <2> QED
    BY <1>4, <1>5, <1>7, <1>8 DEF Sound
<1>15. NeverShared
  BY <1>5, <1>7 DEF NeverShared
<1> QED
  BY <1>10, <1>11, <1>13, <1>14, <1>15 DEF TreeInv

\* Every step keeps the invariant.
LEMMA TreesStep == TreeInv /\ [Trees!Next]_(Trees!vars) => TreeInv'
<1> SUFFICES ASSUME TreeInv, [Trees!Next]_(Trees!vars) PROVE TreeInv'
  OBVIOUS
<1>1. CASE Trees!Next
  <2>1. PICK p \in Actor : Trees!Asked(p) \/ Trees!Works(p)
    BY <1>1 DEF Trees!Next
  <2>2. CASE Trees!Asked(p)
    <3>1. \/ \E s \in Source : Trees!Clears(p, s)
          \/ \E s \in Source : Trees!Ensures(p, s)
          \/ \E s \in Source, c \in Trees!Cat : Trees!Orders(p, s, c)
          \/ \E s \in Source, site \in Site, confirmed \in BOOLEAN :
                Trees!Syncs(p, s, site, confirmed)
          \/ \E enabled \in SUBSET Source : Trees!Refreshes(p, enabled)
      BY <2>2 DEF Trees!Asked
    <3> QED
      BY <3>1, AsksKeepTrees, ClearsKeepTrees
  <2>3. CASE Trees!Works(p)
    BY <2>3, ReadsKeepTrees, CommitsKeepTrees, RootsKeepTrees, DropsKeepTrees,
       OrdersKeepTrees DEF Trees!Works
  <2> QED
    BY <2>1, <2>2, <2>3
<1>2. CASE UNCHANGED Trees!vars
  <2>1. UNCHANGED <<tree, mapping, category, nextCat, treeMutex, caller, requests,
                    raced>>
    BY <1>2 DEF Trees!vars
  <2>2. Now' = Now /\ Views' = Views
    BY <2>1 DEF Now, Trees!Snapshot, Views, WithSnapshot
  <2>3. CategoriesTyped' /\ JobsTyped' /\ OrphansGone'
    <3>1. CategoriesTyped'
      BY <2>1, <2>2 DEF TreeInv, CategoriesTyped, ViewTyped
    <3>2. JobsTyped'
      BY <2>1 DEF TreeInv, JobsTyped, JobTyped
    <3>3. OrphansGone'
      BY <2>1, <2>2 DEF TreeInv, OrphansGone
    <3> QED
      BY <3>1, <3>2, <3>3
  <2>4. Apart' /\ OneOwner' /\ AllSound' /\ NeverShared'
    BY <2>1, <2>2 DEF TreeInv, Apart, OneOwner, AllSound, NeverShared
  <2> QED
    BY <2>3, <2>4 DEF TreeInv
<1> QED
  BY <1>1, <1>2

\* The invariant holds in every behaviour.
LEMMA TreesHold == Trees!Spec => []TreeInv
BY TreesBegin, TreesStep, PTL DEF Trees!Spec

\* What a run checks follows from it.
LEMMA TreesSound == TreeInv => Trees!CategoriesSound
<1> SUFFICES ASSUME TreeInv PROVE Trees!CategoriesSound
  OBVIOUS
<1>1. /\ Now \in Views /\ ViewTyped(Now) /\ Now.tree = tree /\ Now.mapping = mapping
      /\ Now.category = category /\ DOMAIN category \subseteq 1 .. nextCat - 1
  BY NowTyped
<1>2. nextCat \in 1 .. MaxCat + 1 /\ \A c \in 1 .. nextCat - 1 : c \in Trees!Cat
  <2>1. nextCat \in 1 .. MaxCat + 1
    BY DEF TreeInv, CategoriesTyped
  <2>2. MaxCat \in Nat
    BY TreeAssumption
  <2>3. \A c \in 1 .. nextCat - 1 : c \in 1 .. MaxCat
    BY <2>1, <2>2
  <2> QED
    BY <2>1, <2>3 DEF Trees!Cat
<1>3. Trees!TypeOK
  <2>1. ASSUME NEW s \in Source
        PROVE  /\ DOMAIN tree[s] \subseteq Trees!AnyType
               /\ \A t \in DOMAIN tree[s] : tree[s][t] \in Trees!Nodes
               /\ DOMAIN mapping[s] \subseteq Trees!AnyType
               /\ Trees!Range(mapping[s]) \subseteq Trees!Cat
    BY <1>1, <1>2 DEF ViewTyped, Closed, Trees!Nodes, Trees!Range
  <2>2. DOMAIN category \subseteq Trees!Cat
    BY <1>1, <1>2
  <2> QED
    BY <1>2, <2>1, <2>2 DEF Trees!TypeOK, TreeInv, CategoriesTyped
<1>4. Trees!InStep
  BY <1>1 DEF Trees!InStep, Trees!Range, TreeInv, AllSound, Sound
<1>5. Trees!KeysTrue
  <2> SUFFICES ASSUME NEW s \in Source, NEW u \in Source, NEW t \in DOMAIN mapping[u],
                      mapping[u][t] \in DOMAIN category,
                      category[mapping[u][t]].key \in {s} \X Trees!AnyType
               PROVE  /\ u = s
                      /\ s \notin raced => category[mapping[u][t]].key = <<s, t>>
    BY DEF Trees!KeysTrue
  <2>1. PICK k \in Trees!AnyType : category[mapping[u][t]].key = <<s, k>>
    OBVIOUS
  <2>2. Keyed(Now, s, k, mapping[u][t]) /\ Has(Now, u, mapping[u][t])
    BY <1>1, <2>1 DEF Keyed, Has
  <2>3. u = s
    BY <1>1, <2>2 DEF TreeInv, Apart, Sole
  <2>4. s \notin raced => k = t
    BY <1>1, <2>2, <2>3 DEF TreeInv, AllSound, Sound
  <2> QED
    BY <2>1, <2>3, <2>4
<1> QED
  BY <1>3, <1>4, <1>5 DEF Trees!CategoriesSound

\* Whatever syncs, refreshes, deletions and pages of other sources run meanwhile,
\* a source whose own transactions have not raced is mapped, type by type of its
\* tree, to categories that exist; and a category with a source's key is that
\* source's alone and stands for the key's type (repository/category_*.go).
THEOREM CategoriesSoundHolds == Trees!Spec => []CategoriesSound
<1>1. TreeInv => CategoriesSound
  BY TreesSound DEF CategoriesSound
<1> QED
  BY <1>1, TreesHold, PTL

\* What HiddenStaysHidden says of a step.
KeptHidden ==
    \A s \in Source \ raced' :
        \A t \in DOMAIN mapping[s] \cap DOMAIN mapping'[s] :
            LET c == mapping[s][t]
            IN  c \in DOMAIN category /\ category[c].key = <<s, t>>
                => /\ mapping'[s][t] = c
                   /\ \/ category'[c].show = category[c].show
                      \/ \E p \in Actor : Trees!At(p, "order") /\ caller[p]' # caller[p]

\* A step keeps it: only the commit of a plan and an order write what is shown.
LEMMA StaysHidden ==
    TreeInv /\ [Trees!Next]_(Trees!vars) => [KeptHidden]_(Trees!vars)
<1> SUFFICES ASSUME TreeInv, Trees!Next,
                    NEW s \in Source \ raced',
                    NEW t \in DOMAIN mapping[s] \cap DOMAIN mapping'[s],
                    NEW c, c = mapping[s][t], c \in DOMAIN category,
                    category[c].key = <<s, t>>
             PROVE  /\ mapping'[s][t] = c
                    /\ \/ category'[c].show = category[c].show
                       \/ \E p \in Actor :
                             Trees!At(p, "order") /\ caller[p]' # caller[p]
  BY DEF KeptHidden
<1>1. /\ Now \in Views /\ Now.mapping = mapping /\ Now.category = category
      /\ Has(Now, s, c) /\ c \in 1 .. nextCat - 1 /\ nextCat \in Nat
      /\ DOMAIN mapping = Source
  BY NowTyped, TreeAssumption DEF Has, TreeInv, CategoriesTyped
<1>2. ~(c >= nextCat)
  BY <1>1
<1>3. \A view \in Views : \A w \in Source \ {s} : ~Sole(view, w, c)
  BY <1>1 DEF TreeInv, Apart
<1>4. PICK p \in Actor : Trees!Asked(p) \/ Trees!Works(p)
  BY DEF Trees!Next
<1>5. CASE UNCHANGED <<mapping, category>>
  BY <1>5
<1>6. CASE Trees!CommitsPlan(p)
  <2> DEFINE w == caller[p].site
             read == caller[p].read
             plan == Trees!Planned(caller[p].plan, read.tree[w])
  <2>1. w \in Source /\ read \in Views /\ Closed(caller[p].plan)
    BY <1>6 DEF Trees!CommitsPlan, Trees!At, TreeInv, JobsTyped, JobTyped, Views,
                WithSnapshot
  <2>2. Closed(plan)
    <3>1. Closed(read.tree[w])
      BY <2>1 DEF TreeInv, CategoriesTyped, ViewTyped
    <3> QED
      BY <2>1, <3>1, PlannedClosed
  <2>3. PICK kept \in Trees!Claims(read, w, plan) : Trees!Applies(w, plan, read, kept)
    BY <1>6 DEF Trees!CommitsPlan
  <2> HIDE DEF w, read, plan
  <2>4. PICK id : Written(w, plan, read, id, kept)
    BY <2>1, <2>2, <2>3, PlanWritten
  <2>5. mapping'[s] = IF w = s THEN id ELSE mapping[s]
    BY <1>1, <2>1, <2>4 DEF Written
  <2>6. CASE w # s
    <3>1. \A k \in DOMAIN plan : id[k] # c
      BY <1>2, <1>3, <2>1, <2>2, <2>4, <2>6, WrittenAround
    <3>2. c \in DOMAIN category'
      BY <1>3, <2>1, <2>2, <2>4, <2>6, WrittenAround
    <3>3. category'[c] = category[c]
      BY <2>4, <3>1, <3>2 DEF Written
    <3> QED
      BY <2>5, <2>6, <3>3
  <2>7. CASE w = s
    <3>1. /\ read.mapping[s] = mapping[s]
          /\ t \in DOMAIN plan /\ DOMAIN id = DOMAIN plan
          /\ mapping'[s] = id
      BY <2>4, <2>5, <2>7 DEF Written
    <3>2. CASE t \in kept
      <4>1. id[t] = c
        BY <2>4, <2>7, <3>1, <3>2 DEF Written
      <4>2. c \in DOMAIN category'
        <5>1. c \in {id[k] : k \in DOMAIN plan}
          BY <3>1, <4>1
        <5> QED
          BY <2>4, <5>1 DEF Written
      <4>3. category'[c].show = (c \in DOMAIN category => category[c].show)
        BY <2>4, <3>1, <4>1, <4>2 DEF Written, Trees!Visible
      <4>4. category[c].show \in BOOLEAN
        BY DEF TreeInv, CategoriesTyped
      <4> QED
        BY <3>1, <4>1, <4>3, <4>4
    <3>3. CASE t \notin kept
      <4>1. id[t] \in nextCat .. nextCat' - 1 /\ nextCat' \in nextCat .. MaxCat + 1
        BY <2>4, <3>1, <3>3 DEF Written
      <4>2. id[t] # c
        BY <1>1, <4>1, TreeAssumption
      <4>3. Trees!KeyTaken(s, t, id[t])
        BY <4>2 DEF Trees!KeyTaken
      <4> QED
        BY <2>4, <2>7, <3>1, <4>3 DEF Written
    <3> QED
      BY <3>2, <3>3
  <2> QED
    BY <2>6, <2>7
<1>7. CASE Trees!CreatesOther(p)
  <2> DEFINE w == caller[p].site
             read == caller[p].read
  <2>1. w \in Source /\ read \in Views
    BY <1>7 DEF Trees!CreatesOther, Trees!At, TreeInv, JobsTyped, JobTyped, Views,
                WithSnapshot
  <2>2. CASE UNCHANGED <<tree, mapping, category, nextCat, raced>>
    BY <1>5, <2>2
  <2>3. ASSUME NEW x, NEW d, Rooted(w, x, read, d)
        PROVE  mapping'[s][t] = c /\ category'[c].show = category[c].show
    <3> HIDE DEF w, read
    <3>1. category'[c] = category[c]
      BY <2>1, <2>3, RootedAround
    <3>2. mapping'[s] = IF s = w THEN Trees!With(mapping[w], x, d) ELSE mapping[s]
      BY <2>1, <2>3, RootedAround
    <3>3. s = w => x # t
      BY <2>3 DEF Rooted
    <3> QED
      BY <3>1, <3>2, <3>3 DEF Trees!With
  <2>4. UNCHANGED <<tree, mapping, category, nextCat, raced>>
        \/ \E x, d : Rooted(w, x, read, d)
    BY <1>7, RootsRooted
  <2> QED
    BY <2>2, <2>3, <2>4
<1>8. ASSUME NEW w \in Source, Trees!Clears(p, w)
      PROVE  mapping'[s][t] = c /\ category'[c].show = category[c].show
  <2>1. w # s
    <3>1. DOMAIN <<>> = {}
      OBVIOUS
    <3> QED
      BY <1>8, <3>1, ClearsLeave
  <2>2. c \in DOMAIN category'
    <3>1. Fewer(Trees!Clearable(w))
      BY <1>8, ClearsLeave
    <3>2. \A u \in Source \ {w} : \A d \in Trees!Clearable(w) : ~Has(Now, u, d)
      BY <1>8, ClearsLeave
    <3>3. c \notin Trees!Clearable(w)
      BY <1>1, <2>1, <3>2
    <3> QED
      BY <3>1, <3>3 DEF Fewer
  <2> QED
    BY <1>8, <2>1, <2>2, ClearsLeave
<1>9. CASE Trees!DropsOrphans(p)
  <2>1. /\ category' = [d \in DOMAIN category \ caller[p].orphans |-> category[d]]
        /\ mapping' = mapping /\ raced' = raced /\ caller[p].at = "orphans"
    BY <1>9 DEF Trees!DropsOrphans, Trees!Restrict, Trees!At
  <2>2. c \notin caller[p].orphans
    BY <1>1, <2>1 DEF TreeInv, OrphansGone
  <2> QED
    BY <2>1, <2>2
<1>10. CASE Trees!WritesOrder(p)
  <2>1. /\ caller[p].at = "order" /\ mapping' = mapping
        /\ caller' = [caller EXCEPT ![p] = [at |-> "load", frees |-> FALSE]]
    BY <1>10 DEF Trees!WritesOrder, Trees!Becomes, Trees!At
  <2>2. caller'[p] # caller[p]
    BY <2>1 DEF TreeInv, JobsTyped
  <2> QED
    BY <2>1, <2>2 DEF Trees!At
<1>11. CASE \/ Trees!OpensSync(p) \/ Trees!FailsPlan(p) \/ Trees!OpensRefresh(p)
            \/ Trees!SeesOrphans(p) \/ Trees!EntersMutex(p) \/ Trees!FailsOther(p)
            \/ Trees!Loads(p) \/ Trees!Stores(p)
  BY <1>5, <1>11 DEF Trees!OpensSync, Trees!FailsPlan, Trees!OpensRefresh,
     Trees!SeesOrphans, Trees!EntersMutex, Trees!FailsOther, Trees!Loads,
     Trees!Stores, Trees!tables
<1>12. CASE \/ \E w \in Source : Trees!Ensures(p, w)
            \/ \E w \in Source, d \in Trees!Cat : Trees!Orders(p, w, d)
            \/ \E w \in Source, site \in Site, confirmed \in BOOLEAN :
                  Trees!Syncs(p, w, site, confirmed)
            \/ \E enabled \in SUBSET Source : Trees!Refreshes(p, enabled)
  BY <1>5, <1>12 DEF Trees!Ensures, Trees!Orders, Trees!Syncs, Trees!Refreshes,
                     Trees!tables
<1>13. Trees!Asked(p) => \/ \E w \in Source : Trees!Clears(p, w)
                         \/ \E w \in Source : Trees!Ensures(p, w)
                         \/ \E w \in Source, d \in Trees!Cat : Trees!Orders(p, w, d)
                         \/ \E w \in Source, site \in Site, confirmed \in BOOLEAN :
                               Trees!Syncs(p, w, site, confirmed)
                         \/ \E enabled \in SUBSET Source : Trees!Refreshes(p, enabled)
  BY DEF Trees!Asked
<1>14. Trees!Works(p) => \/ Trees!CommitsPlan(p) \/ Trees!CreatesOther(p)
                         \/ Trees!DropsOrphans(p) \/ Trees!WritesOrder(p)
                         \/ Trees!OpensSync(p) \/ Trees!FailsPlan(p)
                         \/ Trees!OpensRefresh(p) \/ Trees!SeesOrphans(p)
                         \/ Trees!EntersMutex(p) \/ Trees!FailsOther(p) \/ Trees!Loads(p) \/ Trees!Stores(p)
  BY DEF Trees!Works
<1> QED
  BY <1>4, <1>6, <1>7, <1>8, <1>9, <1>10, <1>11, <1>12, <1>13, <1>14

\* A type that stays keeps its category, and a category that an administrator has
\* hidden is shown again by nothing but an order (applyCategoryPlans,
\* repository/category_sync.go).
THEOREM HiddenStaysHiddenHolds == Trees!Spec => HiddenStaysHidden
<1>1. TreeInv /\ [Trees!Next]_(Trees!vars) => [KeptHidden]_(Trees!vars)
  BY StaysHidden
<1> QED
  BY <1>1, TreesHold, PTL
     DEF Trees!Spec, HiddenStaysHidden, Trees!HiddenStaysHidden, KeptHidden
=============================================================================
