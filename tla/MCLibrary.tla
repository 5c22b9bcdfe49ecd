----------------------------- MODULE MCLibrary -----------------------------
(***************************************************************************)
(* What the films end up in: the record of a batch (module BatchRecord),   *)
(* the tables (module FilmWriter), the categories (module Categories), the *)
(* cached pages (module ReadCache) and the visitors' figures (module       *)
(* AccessRollup).  The modules share no variable, so a behaviour follows   *)
(* the one chosen at its start; the others rest in one of their states.    *)
(***************************************************************************)
EXTENDS BatchRecord, TLC

CONSTANTS
    Part,                                                 \* the parts followed
    LastDay, Room, Ttl, Retention, MaxEvents, MaxClears, MaxFaults, \* AccessRollup
    Vod, Key, MaxTime, MaxMid, MaxPages,                    \* FilmWriter
    Site, Type, OtherType, MaxCat, MaxOrders,               \* Categories
    Shown, Reader, Timer, None, MaxCommits,                \* ReadCache
    Owner,                       \* the sources whose films are written
    Actor                        \* goroutines, of whichever part is followed

VARIABLES
    focus,
    today, early, eventCh, unsynced, worker, pv, lostEvents, watermark, row,
    roll, clear, events, clears, faults, drops, written, closed, \* AccessRollup
    film, lines, vodMap, vodTime, nextMid, locks, writer, asked,
    stored,                                               \* FilmWriter
    tree, mapping, category, nextCat, mappingState, treeMutex, caller, requests,
    raced,                                                \* Categories
    content, filmList, detail, list, playGen, listGen, mids, version, timer,
    stray, steps, due, reader, slipped                    \* ReadCache

\* The trees of a site: one type, a type below another, and a site that has
\* a root named "other" itself.
Own(parent) == [parent |-> parent, name |-> "own"]
Sites == {1 :> Own(0), 1 :> Own(0) @@ 2 :> Own(1),
          1 :> Own(0) @@ 2 :> [parent |-> 0, name |-> "other"]}

Writing == INSTANCE FilmWriter WITH
    Source <- Owner, Writer <- Actor,
    KeysOf <- [v \in Vod |-> {v}],
    Requests <- MaxPages, mapping <- vodMap, requests <- asked
Trees == INSTANCE Categories WITH
    Caller <- Actor, Requests <- MaxOrders,
    mutex <- treeMutex, memory <- mappingState
Cached == INSTANCE ReadCache WITH
    Film <- Shown, Writer <- Actor, films <- due, listed <- filmList
Visits == INSTANCE AccessRollup WITH dropped <- lostEvents

writingVars == <<film, lines, vodMap, vodTime, nextMid, locks, writer, asked,
    stored>>
treeVars == <<tree, mapping, category, nextCat, mappingState, treeMutex, caller,
    requests, raced>>
cacheVars == <<content, filmList, detail, list, playGen, listGen, mids, version,
    timer, stray, steps, due, reader, slipped>>
visitVars == <<today, early, eventCh, unsynced, worker, pv, lostEvents,
    watermark, row, roll, clear, events, clears, faults, drops, written,
    closed>>

\* What is kept of a page is how often its film had changed, never the mark
\* of no page, and a list is not a film.
ASSUME CacheAssumption == None \notin Nat /\ "list" \notin Shown

\* A page lists finitely many vods by positive numbers, 0 stands for none; a
\* film can be created, and the bounds are numbers.
ASSUME WritingAssumption ==
    /\ Vod \subseteq Nat \ {0} /\ IsFiniteSet(Vod)
    /\ MaxMid \in Nat \ {0} /\ MaxTime \in Nat /\ MaxPages \in Nat

\* Types are positive numbers, finitely many of which a site's tree uses, and
\* OtherSourceTypeID is none of them; a node's parent is in the tree.
ASSUME TreeAssumption ==
    /\ Type \subseteq Nat \ {0} /\ IsFiniteSet(Type)
    /\ OtherType \in Nat \ ({0} \cup Type)
    /\ MaxCat \in Nat \ {0} /\ MaxOrders \in Nat
    /\ \A site \in Site :
          /\ DOMAIN site \subseteq Type
          /\ \A t \in DOMAIN site :
                site[t] \in [parent : {0} \cup DOMAIN site, name : {"own", "other"}]

\* ttlDay is 14 days: a bucket outlives the day after its own.
ASSUME AccessAssumption ==
    /\ LastDay \in Nat \ {0} /\ Room \in Nat
    /\ Ttl \in Nat /\ Ttl >= 2 /\ Retention \subseteq Nat

\* The modules that have several initial states rest in the empty one.
LibraryInit ==
    /\ focus \in Part
    /\ Init /\ Visits!Init /\ Writing!Init /\ Trees!Init /\ Cached!Init
    /\ focus # "writing" => film = <<>>
    /\ focus # "trees" => category = <<>> /\ \A s \in Source : tree[s] = <<>>

LibraryNext ==
    /\ UNCHANGED focus
    /\ \/ /\ focus = "record" /\ Next
          /\ UNCHANGED <<visitVars, writingVars, treeVars, cacheVars>>
       \/ /\ focus = "access" /\ Visits!Next
          /\ UNCHANGED <<vars, writingVars, treeVars, cacheVars>>
       \/ /\ focus = "writing" /\ Writing!Next
          /\ UNCHANGED <<vars, visitVars, treeVars, cacheVars>>
       \/ /\ focus = "trees" /\ Trees!Next
          /\ UNCHANGED <<vars, visitVars, writingVars, cacheVars>>
       \/ /\ focus = "cache" /\ Cached!Next
          /\ UNCHANGED <<vars, visitVars, writingVars, treeVars>>

LibrarySpec ==
    /\ LibraryInit
    /\ [][LibraryNext]_<<focus, vars, visitVars, writingVars, treeVars, cacheVars>>

Alike ==
    Permutations(Source) \cup Permutations(Film) \cup Permutations(Actor)

\* Two vods of a source written since the start do not share a film.
OneVodPerFilm ==
    focus = "writing" => Writing!TypeOK /\ Writing!OneVodPerFilm

\* The lines of a vod are never replaced by older lines of it.
LinesNeverAge == Writing!LinesNeverAge

\* The count of drops, the archive behind its watermark and deletions agree
\* with what was counted, through failures, restarts and late events.
FiguresAddUp == focus = "access" => Visits!FiguresAddUp

\* A source's mapping is in step with its tree and leads to categories that
\* exist, whatever the other sources do with those they shared.
CategoriesSound == focus = "trees" => Trees!CategoriesSound

\* A category that an administrator has hidden stays hidden in every sync.
HiddenStaysHidden == Trees!HiddenStaysHidden

\* No page that is older than the tables is kept when all invalidations have
\* ended, and what waits for the timer will be done.
CachesFresh == focus = "cache" => Cached!CachesFresh
=============================================================================
