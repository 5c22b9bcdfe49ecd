---------------------------- MODULE BatchRecord ----------------------------
(***************************************************************************)
(* The record of a collect batch: the films its sources wrote, row by row, *)
(* and the counts an administrator reads (src/server/internal/spider:      *)
(* collect_batch_record.go, collect_batch_drop_source.go, notify_hook.go;  *)
(* src/server/internal/repository: collect_record_repo.go,                 *)
(* collect_record_film_repo.go, collect_record_purge.go).                  *)
(*                                                                         *)
(* Sources note films under the batch's mutex b.mu; checkpoints, the       *)
(* settlement and the deletion of a source write the tables under          *)
(* recordMu.  What is noted and not stored is lost in a crash; a restart   *)
(* settles the record from the rows it finds.                              *)
(*                                                                         *)
(* A section under b.mu is one step.  A film is a row of a source; a record *)
(* is its status, the number of films it gives for each source its detail  *)
(* mentions, and their total.  Pages, hours and errors of a source are     *)
(* left out.  A checkpoint is due at any moment.                           *)
(***************************************************************************)
EXTENDS Integers, FiniteSets, FiniteSetsExt

CONSTANTS
    Source,   \* the sources of the batch
    Film,
    Flusher,  \* the goroutine of maybeFlushRecord
    Settler,  \* the goroutine of the batch, which settles it
    Deleter,  \* the worker that deletes sources
    Nobody,
    MaxFails  \* bound: the statements the database refuses

Proc == Source \cup {Flusher, Settler, Deleter}

\* The three goroutines are none of the sources', and the films are finite.
ASSUME BatchAssumption ==
    /\ Flusher # Settler /\ Flusher # Deleter /\ Settler # Deleter
    /\ {Flusher, Settler, Deleter} \cap Source = {}
    /\ Nobody \notin Proc
    /\ IsFiniteSet(Film)
    /\ MaxFails \in Nat

Absent == -1                   \* a source the detail does not mention
Total == Absent .. Cardinality(Film)
Running == "running"

VARIABLES
    listed,   \* sourceFilmMIDs
    pending,  \* pendingFilms
    snap,     \* the films in sourceSnapshots
    dropped,  \* droppedSources
    open,     \* the batch is in activeBatches
    holder,   \* who holds recordMu
    at,       \* where each process is
    hand,     \* the films each process took out of pendingFilms
    results,  \* the settlement's films of each source
    target,   \* the source the deleter is at
    rows,     \* the table of the films of a batch
    record,   \* the row of the batch
    alive,    \* the table of sources
    spared,   \* purged sources whose deletion returned an error
    fails

memory == <<listed, pending, snap, dropped, open, results>>
tables == <<rows, record, alive>>
vars == <<memory, holder, at, hand, target, tables, spared, fails>>

\* What the count is, a sum, SettledCounts says.
TypeOK ==
    /\ listed \in [Source -> SUBSET Film] /\ pending \in [Source -> SUBSET Film]
    /\ snap \in [Source -> Total] /\ results \in [Source -> Total]
    /\ dropped \subseteq Source /\ spared \subseteq Source
    /\ alive \subseteq Source
    /\ open \in BOOLEAN
    /\ holder \in Proc \cup {Nobody}
    /\ target \in Source \cup {Nobody}
    /\ at \in [Proc -> {"collects", "waits", "drains", "saves", "reports", "left",
                        "idle", "purges", "marks", "batch", "settles", "closed"}]
    /\ hand \in [Proc -> [Source -> SUBSET Film]]
    /\ rows \in [Source -> SUBSET Film]
    /\ record \in [there : BOOLEAN, status : {Running, "settled", "interrupted"},
                   films : [Source -> Total], count : {record.count}]
    /\ fails \in 0 .. MaxFails
    /\ \A s \in Source : pending[s] \subseteq listed[s]

NoFilms == [s \in Source |-> {}]
NoTotals == [s \in Source |-> Absent]

\* registerActiveBatch and recordStart are done.
Init ==
    /\ listed = NoFilms /\ pending = NoFilms
    /\ snap = NoTotals /\ results = NoTotals
    /\ dropped = {} /\ spared = {} /\ alive = Source
    /\ open = TRUE
    /\ holder = Nobody /\ target = Nobody
    /\ at = [p \in Proc |-> IF p \in Source THEN "collects"
                            ELSE IF p = Settler THEN "batch" ELSE "idle"]
    /\ hand = [p \in Proc |-> NoFilms]
    /\ rows = NoFilms
    /\ record = [there |-> TRUE, status |-> Running, films |-> NoTotals, count |-> 0]
    /\ fails = 0

-----------------------------------------------------------------------------
Go(p, there) == at' = [at EXCEPT ![p] = there]
Mentioned(films) == {s \in Source : films[s] # Absent}
Counts(films) == [s \in Source |-> IF films[s] = Absent THEN 0 ELSE films[s]]
Sum(films) == SumFunction(Counts(films))
Listed == [s \in Source |->
    IF s \in dropped THEN Absent ELSE Cardinality(listed[s])]
Stored(table) == [s \in Source |-> Cardinality(table[s])]
Larger(a, b) == IF a > b THEN a ELSE b

\* A database error, as long as the bound allows one.
Fails == fails < MaxFails /\ fails' = fails + 1

(***************************************************************************)
(* The sources of the batch.                                               *)
(***************************************************************************)

\* addAffectedMIDs, trackFilmsLocked.
TrackFilms(s, films) ==
    /\ at[s] = "collects"
    /\ s \notin dropped
    /\ ~ films \subseteq listed[s]
    /\ pending' = [pending EXCEPT ![s] = @ \cup (films \ listed[s])]
    /\ listed' = [listed EXCEPT ![s] = @ \cup films]
    /\ UNCHANGED <<snap, dropped, open, results, holder, at, hand, target, tables,
                   spared, fails>>

\* TouchRecord, maybeFlushRecord: one checkpoint at a time.
FlushAsync(s) ==
    /\ at[s] = "collects"
    /\ at[Flusher] = "idle"
    /\ hand' = [hand EXCEPT ![Flusher] = pending]
    /\ pending' = NoFilms
    /\ Go(Flusher, "saves")
    /\ UNCHANGED <<listed, snap, dropped, open, results, holder, target, tables,
                   spared, fails>>

\* A source ends: with its snapshot, or with an error and nothing written.
EndSource(s) ==
    /\ at[s] = "collects"
    /\ \/ /\ snap' = [snap EXCEPT ![s] = Cardinality(listed[s])]
          /\ Go(s, "waits")
       \/ /\ listed[s] = {}
          /\ Go(s, "left")
          /\ UNCHANGED snap
    /\ UNCHANGED <<listed, pending, dropped, open, results, holder, hand, target,
                   tables, spared, fails>>

\* flushRecordSync: flushWG.Wait, and then b.mu.
Waited(p) ==
    /\ at[p] = "waits"
    /\ at[Flusher] = "idle"
    /\ Go(p, "drains")
    /\ UNCHANGED <<memory, holder, hand, target, tables, spared, fails>>

Drain(p) ==
    /\ at[p] = "drains"
    /\ hand' = [hand EXCEPT ![p] = pending]
    /\ pending' = NoFilms
    /\ Go(p, "saves")
    /\ UNCHANGED <<listed, snap, dropped, open, results, holder, target, tables,
                   spared, fails>>

-----------------------------------------------------------------------------
(***************************************************************************)
(* A checkpoint, under recordMu.                                           *)
(***************************************************************************)
WithoutDropped(films) ==
    [s \in Source |-> IF s \in dropped THEN {} ELSE films[s]]

\* Mutant: the films of a deleted source are stored.
SaveDropped(p) ==
    /\ at[p] = "saves" /\ holder = Nobody
    /\ holder' = p
    /\ rows' = [s \in Source |-> rows[s] \cup hand[p][s]]
    /\ hand' = [hand EXCEPT ![p] = NoFilms]
    /\ Go(p, "reports")
    /\ UNCHANGED <<memory, target, record, alive, spared, fails>>

\* BatchSaveCollectRecordFilms: what the refused chunks held stays in hand.
Save(p) ==
    /\ at[p] = "saves" /\ holder = Nobody
    /\ holder' = p
    /\ \E unstored \in [Source -> SUBSET Film] :
        LET films == WithoutDropped(hand[p])
        IN  /\ \A s \in Source : unstored[s] \subseteq films[s]
            /\ IF unstored = NoFilms THEN UNCHANGED fails ELSE Fails
            /\ rows' = [s \in Source |-> rows[s] \cup (films[s] \ unstored[s])]
            /\ hand' = [hand EXCEPT ![p] = unstored]
    /\ Go(p, "reports")
    /\ UNCHANGED <<memory, target, record, alive, spared>>

\* LiveProgress: a source that ended has its snapshot, or more.
LiveProgress ==
    [s \in Source |-> IF s \in dropped THEN Absent
                      ELSE Larger(Cardinality(listed[s]), snap[s])]

After(p) == IF p = Flusher THEN "idle" ELSE IF p = Settler THEN "settles" ELSE "left"

\* requeuePending, UpdateRunningCollectRecord, and recordMu is free.
Report(p) ==
    /\ at[p] = "reports"
    /\ pending' = [s \in Source |-> pending[s] \cup hand[p][s]]
    /\ \/ /\ IF record.there /\ record.status = Running
             THEN record' = [record EXCEPT !.films = LiveProgress,
                                           !.count = Sum(Listed)]
             ELSE UNCHANGED record
          /\ UNCHANGED fails
       \/ Fails /\ UNCHANGED record
    /\ holder' = Nobody
    /\ hand' = IF p = Settler THEN hand ELSE [hand EXCEPT ![p] = NoFilms]
    /\ Go(p, After(p))
    /\ UNCHANGED <<listed, snap, dropped, open, results, target, rows, alive,
                   spared>>

-----------------------------------------------------------------------------
(***************************************************************************)
(* The settlement: emitBatchNotify, persistCollectRecord and close.        *)
(***************************************************************************)
Summarise ==
    /\ at[Settler] = "batch"
    /\ \A s \in Source : at[s] = "left"
    /\ results' = LiveProgress
    /\ Go(Settler, IF dropped = Source THEN "closed" ELSE "waits")
    /\ UNCHANGED <<listed, pending, snap, dropped, open, holder, hand, target,
                   tables, spared, fails>>

Missed(s) == hand[Settler][s]

\* abandonUnstored, when the last checkpoint missed some.
Abandon ==
    /\ at[Settler] = "settles"
    /\ listed' = [s \in Source |-> listed[s] \ Missed(s)]
    /\ pending' = [s \in Source |-> pending[s] \ Missed(s)]
    /\ results' = IF \A s \in Source : Missed(s) = {} THEN results
                  ELSE [s \in Source |->
                    IF s \in dropped \/ listed[s] = {} THEN results[s]
                    ELSE Cardinality(listed'[s])]
    /\ hand' = [hand EXCEPT ![Settler] = NoFilms]
    /\ Go(Settler, "marks")
    /\ UNCHANGED <<snap, dropped, open, holder, target, tables, spared, fails>>

\* Under recordMu: withoutDroppedResults, CompleteCollectRecord.
Complete ==
    /\ at[Settler] = "marks" /\ holder = Nobody
    /\ LET kept == [s \in Source |->
                IF s \in dropped THEN Absent ELSE results[s]]
       IN  \/ /\ record' = IF record.there /\ record.status = Running
                    THEN [record EXCEPT !.status = "settled", !.films = kept,
                                        !.count = Sum(kept)]
                    ELSE record
              /\ UNCHANGED fails
           \/ Fails /\ UNCHANGED record
    /\ Go(Settler, "closed")
    /\ UNCHANGED <<memory, holder, hand, target, rows, alive, spared>>

Close ==
    /\ at[Settler] = "closed" /\ open
    /\ at[Flusher] = "idle"
    /\ open' = FALSE
    /\ UNCHANGED <<listed, pending, snap, dropped, results, holder, at, hand, target,
                   tables, spared, fails>>

-----------------------------------------------------------------------------
(***************************************************************************)
(* The deletion of a source, and of the record.                            *)
(***************************************************************************)

\* DelFilmSource holds the source, which does not run; PauseActiveBatchRecords
\* takes recordMu of the batches that are open.
BeginDelete(s) ==
    /\ at[Deleter] = "idle"
    /\ at[s] = "left" /\ s \in alive
    /\ IF open THEN holder = Nobody /\ holder' = Deleter ELSE UNCHANGED holder
    /\ target' = s
    /\ Go(Deleter, "purges")
    /\ UNCHANGED <<memory, hand, tables, spared, fails>>

RecordWithout(s, films) ==
    IF \A t \in Source \ {s} : t \in alive => record.films[t] = Absent
    THEN [record EXCEPT !.there = FALSE]
    ELSE LET kept == [t \in Source |->
                IF t = s \/ record.films[t] = Absent THEN Absent
                ELSE Cardinality(films[t])]
         IN  [record EXCEPT !.films = kept, !.count = Sum(Stored(films))]

\* DelCollectResource: one transaction, and the catalog is read again.
Purge ==
    /\ at[Deleter] = "purges"
    /\ LET s == target
           left == [rows EXCEPT ![s] = {}]
       IN  /\ alive' = alive \ {s}
           /\ IF record.there /\ record.films[s] # Absent
              THEN /\ record' = RecordWithout(s, left)
                   /\ rows' = IF record'.there THEN left ELSE NoFilms
              ELSE rows' = left /\ UNCHANGED record
           /\ \/ /\ Go(Deleter, "marks") /\ UNCHANGED <<holder, target, spared, fails>>
              \/ /\ Fails
                 /\ spared' = spared \cup {s}
                 /\ holder' = IF holder = Deleter THEN Nobody ELSE holder
                 /\ target' = Nobody
                 /\ Go(Deleter, "idle")
    /\ UNCHANGED <<memory, hand>>

\* dropSourceLocked in every open batch, and recordMu is free.
MarkDropped ==
    /\ at[Deleter] = "marks"
    /\ dropped' = dropped \cup {target}
    /\ holder' = IF holder = Deleter THEN Nobody ELSE holder
    /\ target' = Nobody
    /\ Go(Deleter, "idle")
    /\ UNCHANGED <<listed, pending, snap, open, results, hand, tables, spared,
                   fails>>

\* DeleteCollectRecords, ClearCollectRecords: not while it is running.
DeleteRecord ==
    /\ record.there /\ record.status # Running
    /\ record' = [record EXCEPT !.there = FALSE]
    /\ rows' = NoFilms
    /\ UNCHANGED <<memory, holder, at, hand, target, alive, spared, fails>>

-----------------------------------------------------------------------------
\* Mutant: the next start takes the record for complete as it stands.
RestartSettles ==
    /\ open \/ record.status = Running
    /\ record' = IF record.there /\ record.status = Running
                 THEN [record EXCEPT !.status = "settled"] ELSE record
    /\ listed' = NoFilms /\ pending' = NoFilms
    /\ snap' = NoTotals /\ results' = NoTotals
    /\ open' = FALSE /\ holder' = Nobody /\ target' = Nobody
    /\ at' = [p \in Proc |-> IF p \in Source THEN "left"
                             ELSE IF p = Settler THEN "closed" ELSE "idle"]
    /\ hand' = [p \in Proc |-> NoFilms]
    /\ dropped' = {}
    /\ UNCHANGED <<rows, alive, spared, fails>>

\* A crash, and the next start: MarkInterruptedCollectRecords.
Restart ==
    /\ open \/ record.status = Running
    /\ record' = IF record.there /\ record.status = Running
                 THEN [record EXCEPT
                    !.status = "interrupted",
                    !.count = Sum(Stored(rows)),
                    !.films = [s \in Source |->
                        IF @[s] # Absent /\ rows[s] # {} THEN Cardinality(rows[s])
                        ELSE @[s]]]
                 ELSE record
    /\ listed' = NoFilms /\ pending' = NoFilms
    /\ snap' = NoTotals /\ results' = NoTotals
    /\ open' = FALSE /\ holder' = Nobody /\ target' = Nobody
    /\ at' = [p \in Proc |-> IF p \in Source THEN "left"
                             ELSE IF p = Settler THEN "closed" ELSE "idle"]
    /\ hand' = [p \in Proc |-> NoFilms]
    /\ dropped' = {}
    /\ UNCHANGED <<rows, alive, spared, fails>>

-----------------------------------------------------------------------------
Works(s) ==
    \/ FlushAsync(s) \/ EndSource(s) \/ BeginDelete(s)
    \/ \E films \in SUBSET Film : TrackFilms(s, films)

Flushes(p) == Waited(p) \/ Drain(p) \/ Save(p) \/ Report(p)

Next ==
    \/ \E s \in Source : Works(s)
    \/ \E p \in Proc : Flushes(p)
    \/ Summarise \/ Abandon \/ Complete \/ Close
    \/ Purge \/ MarkDropped \/ DeleteRecord \/ Restart

Spec == Init /\ [][Next]_vars

-----------------------------------------------------------------------------
(***************************************************************************)
(* Properties                                                              *)
(***************************************************************************)

\* A source the batch dropped stays out of it: no checkpoint or settlement,
\* though it took its films before, stores a row of it or mentions it again.
DroppedStaysOut ==
    \A s \in dropped : rows[s] = {} /\ (record.there => record.films[s] = Absent)

\* What a source listed and the tables do not have is queued or in the hands of
\* somebody who stores it or queues it again, whatever the database refuses.
NoFilmLost ==
    \A s \in Source \ (dropped \cup spared \cup {target}) :
        record.there =>
            listed[s] \subseteq rows[s] \cup pending[s] \cup
                                UNION {hand[p][s] : p \in Proc}

\* What a run checks of the tables, beside the counts.
RecordKeeps == TypeOK /\ DroppedStaysOut /\ NoFilmLost

\* A settled record counts the rows there are, in all and for each source,
\* whatever was refused, dropped or deleted on the way.
SettledCounts ==
    record.there /\ record.status = "settled" /\ spared = {} =>
        /\ record.count = Sum(Stored(rows))
        /\ \A s \in Mentioned(record.films) : record.films[s] = Cardinality(rows[s])

\* applyStoredFilmTotals: after a restart the detail gives the films stored.
RestartCounts ==
    record.there /\ record.status = "interrupted" =>
        \A s \in Mentioned(record.films) : record.films[s] = Cardinality(rows[s])
=============================================================================
