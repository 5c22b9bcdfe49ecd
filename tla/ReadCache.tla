----------------------------- MODULE ReadCache -----------------------------
(***************************************************************************)
(* The pages visitors read, kept in Redis: the detail of a film and the    *)
(* lists films appear in (film/snapshot/snapshot_cache_invalidation.go,    *)
(* list_cache.go, service/index_play_cache.go).                            *)
(*                                                                         *)
(* Whoever misses a page reads the tables and stores what it found, unless *)
(* the generation it took before is over, and looks at the generation once *)
(* more after that.  Whoever has changed films deletes the pages and starts *)
(* a new generation; a publication leaves the lists to a timer that each   *)
(* publication sets back.                                                  *)
(***************************************************************************)
EXTENDS Naturals, Sequences, FiniteSets, Functions, TLC

CONSTANTS Film, Reader, Writer,
          Timer,      \* the goroutine the timer starts
          None,       \* no page in the cache
          MaxCommits  \* bound: changes of the tables

Invalidator == Writer \cup {Timer}

VARIABLES
    content,  \* content[f]: how often film f has changed in the tables
    listed,   \* how often the film list has changed in the tables
    detail,   \* detail[f]: what is kept of film f (FilmPlayInfoKey), or None
    list,     \* what is kept of a list, or None
    playGen,  \* PlayInfoGeneration
    listGen,  \* GetSearchCacheVersion
    mids,     \* cacheDebounceMids
    version,  \* cacheDebounceVer is set
    timer,    \* cacheDebounceTimer: "nil", "armed", or "fired" and not yet nil
    stray,    \* a timer is armed that cacheDebounceTimer has lost
    steps,    \* steps[p]: what invalidator p still has to do
    films,    \* films[p]: the films it does that for
    reader,   \* reader[r]: the page a reader is making
    slipped   \* history: films kept since a moment at which the generation
              \* does not show that they have changed

vars == <<content, listed, detail, list, playGen, listGen, mids, version,
          timer, stray, steps, films, reader, slipped>>
tables == <<content, listed>>
pages == <<detail, list, slipped>>
debounce == <<mids, version, timer, stray>>

\* What each invalidation does, in order: scheduleSnapshotCacheInvalidation
\* under the lock of upsertActiveSnapshots, applyBroadSnapshotCache-
\* Invalidation, the same when the timer has fired, ClearDynamicPlayCaches.
Publication == <<"lock", "bump", "delete", "incr", "register">>
Broad == <<"bump", "clear", "delete", "incr">>
Debounced == <<"drain", "bump", "clear", "delete", "incr">>
Dynamic == <<"delete", "incr">>

\* What a reader does: GetFilmDetail and the lists, and getProvideFilmDetails,
\* which takes the generation when it has read everything.
Careful == <<"gen", "read", "check", "store", "recheck">>
Provide == <<"read", "gen", "check", "store", "recheck">>

Has(p, step) == step \in Range(steps[p])
Idle == [todo |-> <<>>]
Reads(r) == reader[r].todo # <<>>

TypeOK ==
    /\ content \in [Film -> Nat] /\ listed \in Nat
    /\ \A f \in Film : detail[f] \in 0 .. content[f] \cup {None}
    /\ list \in 0 .. listed \cup {None}
    /\ playGen \in Nat /\ listGen \in Nat
    /\ mids \subseteq Film /\ version \in BOOLEAN
    /\ timer \in {"nil", "armed", "fired"} /\ stray \in BOOLEAN
    /\ \A p \in Invalidator :
           /\ Range(steps[p]) \subseteq
                  Range(Publication) \cup Range(Debounced)
           /\ films[p] \subseteq Film
    /\ slipped \subseteq {f \in Film : detail[f] # None}

Init ==
    /\ content = [f \in Film |-> 0] /\ listed = 0
    /\ detail = [f \in Film |-> None] /\ list = None
    /\ playGen = 0 /\ listGen = 0
    /\ mids = {} /\ version = FALSE /\ timer = "nil" /\ stray = FALSE
    /\ steps = [p \in Invalidator |-> <<>>]
    /\ films = [p \in Invalidator |-> {}]
    /\ reader = [r \in Reader |-> Idle]
    /\ slipped = {}

-----------------------------------------------------------------------------
(* Readers                                                                 *)

At(r, step) == Reads(r) /\ Head(reader[r].todo) = step
Moves(r) == reader' = [reader EXCEPT ![r].todo = Tail(@)]
Gives(r) == reader' = [reader EXCEPT ![r] = Idle]
GenOf(r) == IF reader[r].page = "list" THEN listGen ELSE playGen

Page(page, todo) ==
    [page |-> page, todo |-> todo, gen |-> 0, seen |-> 0, value |-> 0]

\* The readers of one detail share a flight (filmDetailSfGroup).
Asks(r, f) ==
    /\ ~Reads(r) /\ detail[f] = None
    /\ \/ /\ \A q \in Reader : Reads(q) => reader[q].page # f
          /\ reader' = [reader EXCEPT ![r] = Page(f, Careful)]
       \/ reader' = [reader EXCEPT ![r] = Page(f, Provide)]
    /\ UNCHANGED <<tables, pages, playGen, listGen, debounce, steps, films>>

AsksList(r) ==
    /\ ~Reads(r) /\ list = None
    /\ reader' = [reader EXCEPT ![r] = Page("list", Careful)]
    /\ UNCHANGED <<tables, pages, playGen, listGen, debounce, steps, films>>

TakesGen(r) ==
    /\ At(r, "gen")
    /\ reader' = [reader EXCEPT ![r].todo = Tail(@), ![r].gen = GenOf(r)]
    /\ UNCHANGED <<tables, pages, playGen, listGen, debounce, steps, films>>

ReadsTables(r) ==
    /\ At(r, "read")
    /\ reader' = [reader EXCEPT
           ![r].todo = Tail(@), ![r].seen = GenOf(r),
           ![r].value = IF reader[r].page = "list" THEN listed
                        ELSE content[reader[r].page]]
    /\ UNCHANGED <<tables, pages, playGen, listGen, debounce, steps, films>>

Checks(r) ==
    /\ At(r, "check")
    /\ IF reader[r].gen = GenOf(r) THEN Moves(r) ELSE Gives(r)
    /\ UNCHANGED <<tables, pages, playGen, listGen, debounce, steps, films>>

\* What the generation cannot tell the reader of film f: it was read before
\* the generation was taken, or f has been deleted and the generation that
\* says so is about to begin.
Slips(r, f) ==
    \/ reader[r].seen < reader[r].gen
    \/ \E p \in Invalidator :
           f \in films[p] /\ steps[p] # <<>> /\ Head(steps[p]) = "incr"

Stores(r) ==
    /\ At(r, "store")
    /\ LET f == reader[r].page
       IN  IF f = "list"
           THEN list' = reader[r].value /\ UNCHANGED <<detail, slipped>>
           ELSE /\ detail' = [detail EXCEPT ![f] = reader[r].value]
                /\ slipped' = IF Slips(r, f) THEN slipped \cup {f}
                              ELSE slipped \ {f}
                /\ UNCHANGED list
    /\ reader' = [reader EXCEPT ![r].todo = Tail(@), ![r].value = 0]
    /\ UNCHANGED <<tables, playGen, listGen, debounce, steps, films>>

\* Mutant: what was stored stays.
RechecksNothing(r) ==
    /\ At(r, "recheck")
    /\ Gives(r)
    /\ UNCHANGED <<tables, pages, playGen, listGen, debounce, steps, films>>

Rechecks(r) ==
    /\ At(r, "recheck")
    /\ LET f == reader[r].page
       IN  IF reader[r].gen = GenOf(r) THEN UNCHANGED pages
           ELSE IF f = "list"
           THEN list' = None /\ UNCHANGED <<detail, slipped>>
           ELSE /\ detail' = [detail EXCEPT ![f] = None]
                /\ slipped' = slipped \ {f}
                /\ UNCHANGED list
    /\ Gives(r)
    /\ UNCHANGED <<tables, playGen, listGen, debounce, steps, films>>

-----------------------------------------------------------------------------
(* Invalidations                                                           *)

Commits(w, changed) ==
    /\ steps[w] = <<>> /\ changed # {}
    /\ \A f \in Film : content[f] < MaxCommits
    /\ content' = [f \in Film |-> content[f] + (IF f \in changed THEN 1 ELSE 0)]
    /\ films' = [films EXCEPT ![w] = changed]
    /\ UNCHANGED <<pages, playGen, listGen, debounce, reader>>

\* A window is written and published, or films are deleted.
WritesFilms(w, changed) ==
    /\ listed' = listed + 1
    /\ Commits(w, changed)
    /\ \E how \in {Publication, Broad} : steps' = [steps EXCEPT ![w] = how]

\* A change that the lists do not show: the lines of a source, the proxies.
WritesLines(w) ==
    /\ Commits(w, Film)
    /\ steps' = [steps EXCEPT ![w] = Dynamic]
    /\ UNCHANGED listed

Does(p, step) ==
    /\ steps[p] # <<>> /\ Head(steps[p]) = step
    /\ steps' = [steps EXCEPT ![p] = Tail(@)]
    /\ films' = [films EXCEPT ![p] = IF Len(steps[p]) = 1 THEN {} ELSE @]

\* activeSnapshotUpsertMu
Locks(w) ==
    /\ Does(w, "lock")
    /\ \A v \in Writer : Has(v, "register") => Has(v, "lock")
    /\ UNCHANGED <<tables, pages, playGen, listGen, debounce, reader>>

Bumps(p) ==
    /\ Does(p, "bump")
    /\ listGen' = listGen + 1
    /\ UNCHANGED <<tables, pages, playGen, debounce, reader>>

Clears(p) ==
    /\ Does(p, "clear")
    /\ list' = None
    /\ UNCHANGED <<tables, detail, slipped, playGen, listGen, debounce,
                   reader>>

\* deletePlayInfoCacheKeys, ClearDynamicPlayCaches: first the pages ...
Deletes(p) ==
    /\ Does(p, "delete")
    /\ detail' = [f \in Film |-> IF f \in films[p] THEN None ELSE detail[f]]
    /\ slipped' = slipped \ films[p]
    /\ UNCHANGED <<tables, list, playGen, listGen, debounce, reader>>

\* ... then the generation.  Without films neither is done.
Increments(p) ==
    /\ Does(p, "incr")
    /\ playGen' = IF films[p] = {} THEN playGen ELSE playGen + 1
    /\ UNCHANGED <<tables, pages, listGen, debounce, reader>>

Registers(w) ==
    /\ Does(w, "register")
    /\ mids' = mids \cup films[w] /\ version' = TRUE
    /\ timer' = "armed"
    /\ UNCHANGED <<tables, pages, playGen, listGen, stray, reader>>

-----------------------------------------------------------------------------
(* The debounce                                                            *)

Fires ==
    /\ steps[Timer] = <<>>
    /\ \/ timer = "armed" /\ timer' = "fired" /\ UNCHANGED stray
       \/ stray /\ stray' = FALSE /\ UNCHANGED timer
    /\ steps' = [steps EXCEPT ![Timer] = Debounced]
    /\ UNCHANGED <<tables, pages, playGen, listGen, mids, version, films,
                   reader>>

Drained(p) ==
    /\ films' = [films EXCEPT ![p] = mids]
    /\ mids' = {} /\ version' = FALSE /\ timer' = "nil"

\* fireDebouncedSnapshotCacheInvalidation: a timer that was set again since
\* it fired goes on without its variable.
Drains ==
    /\ steps[Timer] # <<>> /\ Head(steps[Timer]) = "drain"
    /\ steps' = [steps EXCEPT ![Timer] = Broad]
    /\ Drained(Timer)
    /\ stray' = (stray \/ timer = "armed")
    /\ UNCHANGED <<tables, pages, playGen, listGen, reader>>

\* FlushSnapshotCacheInvalidation
Flushes(w) ==
    /\ steps[w] = <<>>
    /\ version \/ mids # {}
    /\ Drained(w)
    /\ steps' = [steps EXCEPT ![w] = Broad]
    /\ UNCHANGED <<tables, pages, playGen, listGen, stray, reader>>

-----------------------------------------------------------------------------
Makes(r) ==
    \/ \E f \in Film : Asks(r, f)
    \/ AsksList(r) \/ TakesGen(r) \/ ReadsTables(r) \/ Checks(r)
    \/ Stores(r) \/ Rechecks(r)

Changes(w) ==
    \/ \E changed \in SUBSET Film : WritesFilms(w, changed)
    \/ WritesLines(w) \/ Flushes(w) \/ Locks(w) \/ Registers(w)

Invalidates(p) == Bumps(p) \/ Clears(p) \/ Deletes(p) \/ Increments(p)

Next ==
    \/ \E r \in Reader : Makes(r)
    \/ \E w \in Writer : Changes(w)
    \/ \E p \in Invalidator : Invalidates(p)
    \/ Fires \/ Drains

Spec == Init /\ [][Next]_vars

-----------------------------------------------------------------------------
(* Properties                                                              *)

\* The timer will run, or its goroutine has not yet taken what is registered.
Armed == timer = "armed" \/ stray \/ Has(Timer, "drain")

\* A reader that will find that its generation is over.
Withdraws(page) ==
    \E r \in Reader : /\ At(r, "recheck") /\ reader[r].page = page
                      /\ reader[r].gen # GenOf(r)

\* A list that is older than the tables is on its way out.
ListsFresh ==
    list \in {listed, None} \/ Armed \/ Withdraws("list")
    \/ \E p \in Invalidator :
           Has(p, "bump") \/ Has(p, "clear") \/ Has(p, "register")

\* So is the detail of a film, unless it slipped in.
DetailsFresh ==
    \A f \in Film \ slipped :
        \/ detail[f] \in {content[f], None} \/ Withdraws(f)
        \/ f \in mids /\ Armed
        \/ \E p \in Invalidator : f \in films[p] /\ Has(p, "delete")

\* What a publication registers is not forgotten by the timer.
DebounceRuns == mids # {} \/ version => Armed

CachesFresh == TypeOK /\ ListsFresh /\ DetailsFresh /\ DebounceRuns

\* A page that is kept was read in the generation it is kept in
\* (index_service_detail_playinfo_test.go: "stale play info must not be
\* written after generation bump").
KeptAreCurrent ==
    \A r \in Reader :
        At(r, "recheck") /\ reader[r].gen = GenOf(r)
            => reader[r].seen = reader[r].gen
=============================================================================
