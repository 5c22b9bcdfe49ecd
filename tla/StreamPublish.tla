--------------------------- MODULE StreamPublish ---------------------------
(***************************************************************************)
(* The stream publisher: from the rows the collect runs write to the list  *)
(* snapshot visitors read (src/server/internal/spider:                     *)
(* collect_stream_publish.go, collect_finalizer.go and the part of         *)
(* collect_batch_context.go that settles a source and a batch).            *)
(*                                                                         *)
(* A run adds the films of each page it wrote to one global buffer and     *)
(* publishes windows of it when they are due; a ticker does the same.  A   *)
(* source that ends, and then its batch, empties the buffer and hands its  *)
(* films to the search queue.  A window is taken under the buffer's mutex  *)
(* and published later under publishMu, so that one may be in a publisher's *)
(* hands while another process finds the buffer empty.                     *)
(*                                                                         *)
(* A run is a batch of one source.  Time is left out: a part of the buffer *)
(* that is not empty may be due at any moment, and must be when it has as  *)
(* many films as its limit.                                                *)
(***************************************************************************)
EXTENDS Integers, FiniteSets

CONSTANTS
    Film,
    Run,       \* collect runs
    Preferred, \* those of the preferred source
    Ticker,    \* the goroutine of ensureStreamFlushLoop
    Nobody,
    PrefLimit, BackupLimit,  \* streamPreferredCount, streamBackupCount
    Window,    \* streamWindowMax
    Backlog,   \* streamBackpressureN
    PageSize,  \* bound: the films of a page
    MaxPages,  \* bound: the pages of a run
    MaxFails   \* bound: the windows whose publication fails

\* The films that are collected and the runs of a server's life are finitely
\* many.
ASSUME StreamAssumption ==
    /\ IsFiniteSet(Film) /\ IsFiniteSet(Run)
    /\ Preferred \subseteq Run
    /\ Ticker \notin Run /\ Nobody \notin Run \cup {Ticker}
    /\ {PrefLimit, BackupLimit, Window, Backlog} \subseteq Nat \ {0}
    /\ {PageSize, MaxPages, MaxFails} \subseteq Nat

Proc == Run \cup {Ticker}
Flag == {"none", "backup", "preferred"}

VARIABLES
    unlisted,  \* the runs whose write of a film the list does not show yet
    page,      \* the films each run wrote and has not buffered yet
    pages,     \* how many pages each run has written
    affected,  \* affectedMIDs of each batch
    buf,       \* pending, with its flag
    window,    \* the flags of the films each process has taken
    mode,      \* how each process drains: soft, hard or held
    at,        \* where each process is
    publisher, \* who holds publishMu
    resealed,  \* films handed to the search queue
    urgent,    \* the preferred source added them, the list does not show it yet
    fails

dataVars == <<unlisted, page, pages, affected>>
vars == <<dataVars, buf, window, mode, at, publisher, resealed, urgent, fails>>

Draining == {"take", "again", "wait", "publish", "more"}
Places == {"fetch", "add", "buffer", "pressure", "seal", "finish", "schedule",
           "unlock", "closed", "tick"} \cup Draining

TypeOK ==
    /\ unlisted \in [Film -> SUBSET Run]
    /\ page \in [Run -> SUBSET Film] /\ pages \in [Run -> 0 .. MaxPages]
    /\ affected \in [Run -> SUBSET Film]
    /\ buf \in [Film -> Flag]
    /\ window \in [Proc -> [Film -> Flag]]
    /\ mode \in [Proc -> {"soft", "hard", "seal", "finish"}]
    /\ at \in [Proc -> Places]
    /\ publisher \in Proc \cup {Nobody}
    /\ resealed \subseteq Film /\ urgent \subseteq Film
    /\ fails \in 0 .. MaxFails
    /\ \A p \in Proc :
        (\E m \in Film : window[p][m] # "none") <=> at[p] \in {"wait", "publish"}
    \* One window at a time reaches the snapshot, and a settling source or batch
    \* keeps publishMu over all its windows.
    /\ \A p \in Proc : at[p] \in {"publish", "schedule", "unlock"} => publisher = p

Empty == [m \in Film |-> "none"]

Init ==
    /\ unlisted = [m \in Film |-> {}]
    /\ page = [r \in Run |-> {}] /\ pages = [r \in Run |-> 0]
    /\ affected = [r \in Run |-> {}]
    /\ buf = Empty
    /\ window = [p \in Proc |-> Empty]
    /\ mode = [p \in Proc |-> "soft"]
    /\ at = [p \in Proc |-> IF p = Ticker THEN "tick" ELSE "fetch"]
    /\ publisher = Nobody
    /\ resealed = {} /\ urgent = {}
    /\ fails = 0

-----------------------------------------------------------------------------
Go(p, there) == at' = [at EXCEPT ![p] = there]
Flagged(flags, f) == {m \in Film : flags[m] = f}
Kept(flags) == {m \in Film : flags[m] # "none"}
Pressed == Cardinality(Kept(buf)) >= Backlog

\* add and putBack: preferred wins, backup does not replace it.
Merged(old, new) ==
    [m \in Film |-> CASE new[m] = "preferred" -> "preferred"
                      [] new[m] = "backup" /\ old[m] = "none" -> "backup"
                      [] OTHER -> old[m]]

(***************************************************************************)
(* A run: a page is written, noted in the batch, buffered, drained.        *)
(***************************************************************************)
WritePage(r, films) ==
    /\ at[r] = "fetch" /\ pages[r] < MaxPages
    /\ films # {} /\ Cardinality(films) <= PageSize
    /\ pages' = [pages EXCEPT ![r] = @ + 1]
    /\ page' = [page EXCEPT ![r] = films]
    /\ unlisted' = [m \in Film |->
            IF m \in films THEN unlisted[m] \cup {r} ELSE unlisted[m]]
    /\ Go(r, "add")
    /\ UNCHANGED <<affected, buf, window, mode, publisher, resealed, urgent,
                   fails>>

AddAffected(r) ==
    /\ at[r] = "add"
    /\ affected' = [affected EXCEPT ![r] = @ \cup page[r]]
    /\ Go(r, "buffer")
    /\ UNCHANGED <<unlisted, page, pages, buf, window, mode, publisher,
                   resealed, urgent, fails>>

Buffer(r) ==
    /\ at[r] = "buffer"
    /\ LET flag == IF r \in Preferred THEN "preferred" ELSE "backup"
       IN  buf' = Merged(buf, [m \in Film |->
                IF m \in page[r] THEN flag ELSE "none"])
    /\ urgent' = IF r \in Preferred THEN urgent \cup page[r] ELSE urgent
    /\ page' = [page EXCEPT ![r] = {}]
    /\ mode' = [mode EXCEPT ![r] = "soft"]
    /\ Go(r, "take")
    /\ UNCHANGED <<unlisted, pages, affected, window, publisher, resealed,
                   fails>>

\* enqueueStreamPublish returns, or drains by force as long as it is pressed.
Relieved(r) ==
    /\ at[r] = "pressure"
    /\ IF Pressed THEN Go(r, "take") /\ mode' = [mode EXCEPT ![r] = "hard"]
       ELSE Go(r, "fetch") /\ UNCHANGED mode
    /\ UNCHANGED <<dataVars, buf, window, publisher, resealed, urgent, fails>>

Tick ==
    /\ at[Ticker] = "tick"
    /\ Go(Ticker, "take")
    /\ UNCHANGED <<dataVars, buf, window, mode, publisher, resealed, urgent,
                   fails>>

-----------------------------------------------------------------------------
(***************************************************************************)
(* drainStreamPublishLocked(force, acquire): soft is (false, true), hard   *)
(* is (true, true), and seal and finish are (true, false), their caller    *)
(* being in publishMu.                                                     *)
(***************************************************************************)
Forced(p) == mode[p] # "soft"
InMutex(p) == mode[p] \in {"seal", "finish"}

\* Where the caller of a drain goes on, after it and after an error.
Return(p) ==
    IF InMutex(p) THEN "schedule" ELSE IF p = Ticker THEN "tick" ELSE "pressure"
ReturnError(p) ==
    IF InMutex(p) THEN "unlock" ELSE IF p = Ticker THEN "tick" ELSE "fetch"

\* May the part of the buffer with this flag be due, must it be?
MayBeDue(f) == Flagged(buf, f) # {}
MustBeDue(f, limit) == Cardinality(Flagged(buf, f)) >= limit

Smaller(a, b) == IF a < b THEN a ELSE b

\* take: preferred films first, backups in what remains of the window.
TakeWindow(p, pref, back) ==
    \E S \in SUBSET Flagged(buf, "preferred"), T \in SUBSET Flagged(buf, "backup") :
        /\ Cardinality(S) = IF pref
            THEN Smaller(Window, Cardinality(Flagged(buf, "preferred"))) ELSE 0
        /\ Cardinality(T) = IF back
            THEN Smaller(Window - Cardinality(S),
                         Cardinality(Flagged(buf, "backup"))) ELSE 0
        /\ S \cup T # {}
        /\ window' = [window EXCEPT ![p] =
                [m \in Film |-> IF m \in S \cup T THEN buf[m] ELSE "none"]]
        /\ buf' = [m \in Film |-> IF m \in S \cup T THEN "none" ELSE buf[m]]

Take(p) ==
    /\ at[p] = "take"
    /\ Kept(buf) # {}
    /\ \E pref, back \in BOOLEAN :
        /\ pref => MayBeDue("preferred")
        /\ back => MayBeDue("backup")
        /\ MustBeDue("preferred", PrefLimit) => pref
        /\ MustBeDue("backup", BackupLimit) => back
        /\ LET all == Forced(p) \/ Pressed
           IN  TakeWindow(p, pref \/ all, back \/ all)
    /\ Go(p, IF InMutex(p) THEN "publish" ELSE "wait")
    /\ UNCHANGED <<dataVars, mode, publisher, resealed, urgent, fails>>

\* Nothing is due.
TakeNothing(p) ==
    /\ at[p] = "take"
    /\ \/ Kept(buf) = {}
       \/ /\ ~Forced(p) /\ ~Pressed
          /\ ~MustBeDue("preferred", PrefLimit)
          /\ ~MustBeDue("backup", BackupLimit)
    /\ Go(p, IF Forced(p) THEN Return(p) ELSE "again")
    /\ UNCHANGED <<dataVars, buf, window, mode, publisher, resealed, urgent,
                   fails>>

\* The second look of a soft drain, at the pressure only.
TakeAgain(p) ==
    /\ at[p] = "again"
    /\ \/ Pressed /\ TakeWindow(p, TRUE, TRUE) /\ Go(p, "wait")
       \/ ~Pressed /\ Go(p, Return(p)) /\ UNCHANGED <<buf, window>>
    /\ UNCHANGED <<dataVars, mode, publisher, resealed, urgent, fails>>

LockPublish(p) ==
    /\ at[p] = "wait"
    /\ publisher = Nobody
    /\ publisher' = p
    /\ Go(p, "publish")
    /\ UNCHANGED <<dataVars, buf, window, mode, resealed, urgent, fails>>

\* publishStreamWindowReal reads the rows and brings the list up to them.
Publish(p) ==
    /\ at[p] = "publish"
    /\ unlisted' = [m \in Film |->
            IF m \in Kept(window[p]) THEN {} ELSE unlisted[m]]
    /\ urgent' = urgent \ Flagged(window[p], "preferred")
    /\ window' = [window EXCEPT ![p] = Empty]
    /\ publisher' = IF InMutex(p) THEN publisher ELSE Nobody
    /\ Go(p, "more")
    /\ UNCHANGED <<page, pages, affected, buf, mode, resealed, fails>>

\* Mutant: a window whose publication fails is dropped.
PublishDrops(p) ==
    /\ at[p] = "publish" /\ fails < MaxFails
    /\ fails' = fails + 1
    /\ window' = [window EXCEPT ![p] = Empty]
    /\ publisher' = IF InMutex(p) THEN publisher ELSE Nobody
    /\ Go(p, ReturnError(p))
    /\ UNCHANGED <<dataVars, buf, mode, resealed, urgent>>

PublishFails(p) ==
    /\ at[p] = "publish" /\ fails < MaxFails
    /\ fails' = fails + 1
    /\ buf' = Merged(buf, window[p])
    /\ window' = [window EXCEPT ![p] = Empty]
    /\ publisher' = IF InMutex(p) THEN publisher ELSE Nobody
    /\ Go(p, ReturnError(p))
    /\ UNCHANGED <<dataVars, mode, resealed, urgent>>

\* Mutant: a seal publishes one window.
MoreOnce(p) ==
    /\ at[p] = "more"
    /\ Go(p, Return(p))
    /\ UNCHANGED <<dataVars, buf, window, mode, publisher, resealed, urgent,
                   fails>>

\* Forced goes on until the buffer is empty, soft while it is pressed.
More(p) ==
    /\ at[p] = "more"
    /\ Go(p, IF IF Forced(p) THEN Kept(buf) = {} ELSE ~Pressed
             THEN Return(p) ELSE "take")
    /\ UNCHANGED <<dataVars, buf, window, mode, publisher, resealed, urgent,
                   fails>>

-----------------------------------------------------------------------------
(***************************************************************************)
(* sealFinishedSource, and flushAndFinalize when the batch ends.           *)
(***************************************************************************)
SourceEnds(r) ==
    /\ at[r] = "fetch"
    /\ Go(r, "seal")
    /\ UNCHANGED <<dataVars, buf, window, mode, publisher, resealed, urgent,
                   fails>>

Settle(r) ==
    /\ at[r] \in {"seal", "finish"}
    /\ publisher = Nobody
    /\ publisher' = r
    /\ mode' = [mode EXCEPT ![r] = at[r]]
    /\ Go(r, "take")
    /\ UNCHANGED <<dataVars, buf, window, resealed, urgent, fails>>

\* flushAndFinalize, when there is nothing left to do.
NothingLeft(r) ==
    /\ at[r] = "finish"
    /\ affected[r] = {} /\ Kept(buf) = {}
    /\ Go(r, "closed")
    /\ UNCHANGED <<dataVars, buf, window, mode, publisher, resealed, urgent,
                   fails>>

\* takeSourceMIDs or takeAffectedMIDs, and scheduleSearchReseal.
Schedule(r) ==
    /\ at[r] = "schedule"
    /\ resealed' = resealed \cup affected[r]
    /\ affected' = [affected EXCEPT ![r] = {}]
    /\ Go(r, "unlock")
    /\ UNCHANGED <<unlisted, page, pages, buf, window, mode, publisher, urgent,
                   fails>>

\* Mutant: a settled source keeps the mutex.
UnlockForgotten(r) ==
    /\ at[r] = "unlock"
    /\ Go(r, IF mode[r] = "seal" THEN "finish" ELSE "closed")
    /\ UNCHANGED <<dataVars, buf, window, mode, publisher, resealed, urgent, fails>>

UnlockPublish(r) ==
    /\ at[r] = "unlock"
    /\ publisher' = Nobody
    /\ Go(r, IF mode[r] = "seal" THEN "finish" ELSE "closed")
    /\ UNCHANGED <<dataVars, buf, window, mode, resealed, urgent, fails>>

-----------------------------------------------------------------------------
Drains(p) ==
    \/ Take(p) \/ TakeNothing(p) \/ TakeAgain(p) \/ LockPublish(p)
    \/ Publish(p) \/ PublishFails(p) \/ More(p)

Locks(p) == Take(p) \/ LockPublish(p) \/ (p \in Run /\ Settle(p))

Works(r) ==
    \/ AddAffected(r) \/ Buffer(r) \/ Relieved(r)
    \/ SourceEnds(r) \/ Settle(r) \/ NothingLeft(r)
    \/ Schedule(r) \/ UnlockPublish(r)

Next ==
    \/ Tick
    \/ \E p \in Proc : Drains(p)
    \/ \E r \in Run : Works(r) \/ \E films \in SUBSET Film : WritePage(r, films)

\* What is not empty becomes due; a Go mutex starves nobody.
Fairness ==
    /\ WF_vars(Tick)
    /\ \A p \in Proc : WF_vars(Drains(p)) /\ SF_vars(Locks(p))
    /\ \A r \in Run : WF_vars(Works(r))

Spec == Init /\ [][Next]_vars /\ Fairness

-----------------------------------------------------------------------------
(***************************************************************************)
(* Properties                                                              *)
(***************************************************************************)

\* A film whose row is newer than the list is on its way to it: on a page not
\* buffered yet, in the buffer, or in a window.  Taking, putting back and
\* settling by several processes lose none.
NoFilmForgotten ==
    \A m \in Film : unlisted[m] # {} =>
        \/ buf[m] # "none"
        \/ \E r \in Run : m \in page[r]
        \/ \E p \in Proc : window[p][m] # "none"

\* A film of the preferred source keeps its precedence until the list shows
\* it, whatever backup sources add and however often a window is put back.
PreferredKept ==
    \A m \in urgent :
        buf[m] = "preferred" \/ \E p \in Proc : window[p][m] = "preferred"

FilmsKept == NoFilmForgotten /\ PreferredKept

\* Unless a publication failed, the buffer holds less than the backlog and one
\* page of each run: runs wait for their own pressure to go.
BufferBounded ==
    fails = 0 => Cardinality(Kept(buf)) < Backlog + PageSize * Cardinality(Run)

\* Every film written is in a buffer, a window or the list, at its priority,
\* and the buffer does not outgrow what one page may add to its limits.
StreamKeeps == TypeOK /\ FilmsKept /\ BufferBounded

\* When a settling run hands its films to the search queue, each of them is
\* in the list, has been buffered anew meanwhile by another run, or is in a
\* window that another process has taken and not published yet.
SealAfterFlush ==
    [][\A r \in Run : at[r] = "schedule" /\ at'[r] = "unlock" =>
        \A m \in affected[r] : r \in unlisted[m] =>
            \E p \in Proc \ {r} : window[p][m] # "none"]_vars

\* Every film a run wrote gets into the list.
FilmsGetListed == \A m \in Film : unlisted[m] # {} ~> unlisted[m] = {}
=============================================================================
