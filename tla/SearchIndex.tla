---------------------------- MODULE SearchIndex -----------------------------
(***************************************************************************)
(* The search index in memory (snapshot/active_read_model_search_*.go,     *)
(* search_postings.go, search_multi_source.go, category_rank.go): a value  *)
(* that is replaced as a whole, never changed.  Whoever changes films      *)
(* replaces it by a copy patched with these films; ResealSearchIndexMids   *)
(* does so for a whole collection; a build scans the tables.  Hits, year   *)
(* and time of update are one figure here, "stamp".                        *)
(***************************************************************************)
EXTENDS Integers, Sequences, SequencesExt, FiniteSets

CONSTANTS
    Mid,         \* films, numbers
    Meta,        \* what the tables may say of a film:
                 \* [src, plays, cat, root, title, stamp]
    First,       \* what they may say at the start
    Cap,         \* categoryRankCap, sourceHotNameCap
    Batch,       \* the sets of films that one change may be about
    Caller,      \* goroutines that change films
    MaxChanges,  \* bound: changes of the tables
    MaxTroubles, \* bound: reads that fail, times the index is cleared, and
                 \* scans while there is one
    New, Gone,   \* a film that is not yet in the tables, or not any more
    None, Free   \* no index; nobody has activeFilmSearchMetasMu

VARIABLES
    films,    \* film_index and the playlists: a Meta, New or Gone
    index,    \* activeFilmSearchMetas
    mutex,    \* activeFilmSearchMetasMu
    call,     \* what a caller has at hand
    changed,  \* films that wait to be sealed after a collection
    seal,     \* ResealSearchIndexMids
    build,    \* the scan of the tables
    lost,     \* history: films of which a failed read has told nothing
    changes, troubles  \* bounds

bounds == <<changes, troubles>>
vars == <<films, index, mutex, call, changed, seal, build, lost, bounds>>

Idle == [at |-> "idle"]
Listed == {m \in Mid : films[m] \in Meta}

-----------------------------------------------------------------------------
(* The index                                                               *)

PlaySource == UNION {x.plays \cup {x.src} : x \in Meta}
Category == UNION {{x.cat, x.root} : x \in Meta}
Char == UNION {x.title : x \in Meta}

\* compareSearchMetaUpdate, rankBetter.
Better(f, g) ==
    \/ f.meta.stamp > g.meta.stamp
    \/ f.meta.stamp = g.meta.stamp /\ f.mid > g.mid

\* hotPoolMapKey, and the source alone for SourceHot.
PoolKey == {<<s>> : s \in PlaySource} \cup (PlaySource \X Category)
PoolKeys(x) == {<<s>> : s \in x.plays} \cup (x.plays \X {x.cat, x.root})

\* The elements of a set, each at the place of its rank.
InOrder(S, Before(_, _)) ==
    [n \in 1 .. Cardinality(S) |->
        CHOOSE i \in S : Cardinality({j \in S : j = i \/ Before(j, i)}) = n]

\* A sequence at these positions, and a sequence without these elements.
Picked(s, I) ==
    LET places == InOrder(I, LAMBDA i, j : i < j)
    IN  [n \in DOMAIN places |-> s[places[n]]]
Outside(s, S) == Picked(s, {n \in DOMAIN s : s[n] \notin S})

Has(items, P(_)) == {i \in DOMAIN items : P(items[i].meta)}
Positions(items) == [m \in {items[i].mid : i \in DOMAIN items} |->
                        CHOOSE i \in DOMAIN items : items[i].mid = m]

SortedByRank(items, S) ==
    InOrder(S, LAMBDA i, j : Better(items[i], items[j]))
Take(s) == SubSeq(s, 1, IF Len(s) < Cap THEN Len(s) ELSE Cap)
MidsAt(items, s) == [n \in DOMAIN s |-> items[s[n]].mid]

\* Of these metas, those of a source that are shown as having several
\* sources: of their own, or through a film of the same title elsewhere.
Several(xs, s) ==
    {i \in DOMAIN xs : xs[i].src = s /\
        \/ Cardinality(xs[i].plays) >= 2
        \/ xs[i].title # {} /\ \E j \in DOMAIN xs :
               xs[j].title = xs[i].title /\ xs[j].src # s}

Metas(items) == [i \in DOMAIN items |-> items[i].meta]

ByUpdate(items) == SortedByRank(items, DOMAIN items)
CountOf(items, s) == Cardinality(Has(items, LAMBDA x : x.src = s))
CountOfSeveral(items, s) == Cardinality(Several(Metas(items), s))
InCategory(items, c) ==
    Outside(ByUpdate(items), {i \in DOMAIN items : items[i].meta.cat # c})
Pool(items, k) ==
    Take(MidsAt(items,
        SortedByRank(items, Has(items, LAMBDA x : k \in PoolKeys(x)))))
PostsOf(items, ch) == {i \in DOMAIN items : ch \in items[i].meta.title}

\* sealSearchMetaIndex.
Sealed(items) ==
    [items |-> items, pos |-> Positions(items), byUpdate |-> ByUpdate(items),
     films |-> [s \in PlaySource |-> CountOf(items, s)],
     multi |-> [s \in PlaySource |-> CountOfSeveral(items, s)],
     byCategory |-> [c \in Category |-> InCategory(items, c)],
     pools |-> [k \in PoolKey |-> Pool(items, k)],
     posts |-> [ch \in Char |-> PostsOf(items, ch)]]

-----------------------------------------------------------------------------
(* The patch: upsert is a function from mids to metas; the orders are those *)
(* in which Go's maps yield its keys.                                       *)

\* x before the first element that it beats.
Inserted(s, x, Beats(_, _)) ==
    LET worse == {n \in DOMAIN s : Beats(x, s[n])}
        at == IF worse = {} THEN Len(s) + 1
              ELSE CHOOSE n \in worse : \A o \in worse : n <= o
    IN  InsertAt(s, at, x)

OldMeta(idx, m) == idx.items[idx.pos[m]].meta
Known(idx, upsert) == DOMAIN upsert \cap DOMAIN idx.pos

PatchedItems(idx, upsert, order) ==
    [i \in DOMAIN idx.items |->
        LET m == idx.items[i].mid
        IN  IF m \in DOMAIN upsert THEN [mid |-> m, meta |-> upsert[m]]
            ELSE idx.items[i]]
    \o LET new == Picked(order, {n \in DOMAIN order :
                                    order[n] \notin DOMAIN idx.pos})
       IN  [n \in DOMAIN new |-> [mid |-> new[n], meta |-> upsert[new[n]]]]

\* Two lists made one: each keeps its order, and of two elements of different
\* lists that of come is first if it beats the other.
Merged(come, rest, Beats(_, _)) ==
    LET Follow(s, x, y) ==
            \E i, j \in DOMAIN s : i < j /\ s[i] = x /\ s[j] = y
        Before(x, y) ==
            \/ Follow(come, x, y) \/ Follow(rest, x, y)
            \/ x \in ToSet(come) /\ y \in ToSet(rest) /\ Beats(x, y)
            \/ x \in ToSet(rest) /\ y \in ToSet(come) /\ ~Beats(y, x)
    IN  InOrder(ToSet(come) \cup ToSet(rest), Before)

\* patchByUpdate.  It also adds what the old order has missed, which is nothing
\* (ListsRight).
PatchedByUpdate(idx, upsert, items, pos) ==
    LET moved == {pos[m] : m \in DOMAIN upsert}
    IN  Merged(SortedByRank(items, moved), Outside(idx.byUpdate, moved),
               LAMBDA i, j : Better(items[i], items[j]))

\* The films that leave a value of a field and those that come to it.
Leave(idx, upsert, Field(_), v) ==
    {m \in Known(idx, upsert) :
        Field(OldMeta(idx, m)) = v /\ Field(upsert[m]) # v}
Join(idx, upsert, Field(_), v) ==
    {m \in DOMAIN upsert : Field(upsert[m]) = v
        /\ (m \in Known(idx, upsert) => Field(OldMeta(idx, m)) # v)}

\* relocateSearchMeta.
PatchedCategory(idx, upsert, pos, c) ==
    LET left == {pos[m] : m \in Leave(idx, upsert, LAMBDA x : x.cat, c)}
        come == {pos[m] : m \in Join(idx, upsert, LAMBDA x : x.cat, c)}
    IN  Outside(idx.byCategory[c], left) \o SetToSeq(come)
PatchedFilms(idx, upsert, s) ==
    idx.films[s] - Cardinality(Leave(idx, upsert, LAMBDA x : x.src, s))
        + Cardinality(Join(idx, upsert, LAMBDA x : x.src, s))

\* dropLeftRankKeys, and patchSingleRankPool for every film in turn.
PatchedPool(idx, upsert, items, pos, order, k) ==
    LET left == Leave(idx, upsert, LAMBDA x : k \in PoolKeys(x), TRUE)
        Put(list, m) ==
            IF k \notin PoolKeys(upsert[m]) THEN list
            ELSE Take(Inserted(Outside(list, {m}), m,
                     LAMBDA o, p : Better(items[pos[o]], items[pos[p]])))
        pool[n \in 0 .. Len(order)] ==
            IF n = 0 THEN Outside(idx.pools[k], left)
            ELSE Put(pool[n - 1], order[n])
    IN  pool[Len(order)]

\* patchMultiSourceCounts: the groups of the titles concerned are taken out
\* and put in again, a film without a title for itself.
TitlesMarkedNew(idx, upsert) == {upsert[m].title : m \in DOMAIN upsert}

TitlesTouched(idx, upsert) ==
    {upsert[m].title : m \in DOMAIN upsert}
        \cup {OldMeta(idx, m).title : m \in Known(idx, upsert)}

PatchedMulti(idx, upsert, items, s) ==
    LET touched == TitlesTouched(idx, upsert)
        Of(list) == Cardinality(
            {i \in Several(Metas(list), s) :
                /\ list[i].meta.title \in touched
                /\ list[i].meta.title = {} => list[i].mid \in DOMAIN upsert})
    IN  idx.multi[s] - Of(idx.items) + Of(items)

\* cloneAndPatchSearchPostings: positions are added, never taken away.
PatchedPosts(idx, upsert, pos, ch) ==
    idx.posts[ch] \cup
        {pos[m] : m \in {n \in DOMAIN upsert : ch \in upsert[n].title
            /\ (n \in Known(idx, upsert) =>
                   OldMeta(idx, n).title # upsert[n].title)}}

\* updateSearchMetaIndexIncremental.
Patched(idx, upsert, order, order2) ==
    LET items == PatchedItems(idx, upsert, order)
        pos == Positions(items)
    IN  [items |-> items, pos |-> pos,
         byUpdate |-> PatchedByUpdate(idx, upsert, items, pos),
         films |-> [s \in PlaySource |-> PatchedFilms(idx, upsert, s)],
         multi |-> [s \in PlaySource |-> PatchedMulti(idx, upsert, items, s)],
         byCategory |-> [c \in Category |->
             PatchedCategory(idx, upsert, pos, c)],
         pools |-> [k \in PoolKey |->
             PatchedPool(idx, upsert, items, pos, order2, k)],
         posts |-> [ch \in Char |-> PatchedPosts(idx, upsert, pos, ch)]]

\* patchSearchMetas: what is not in the tables any more goes, and all the
\* rest is reckoned anew.
Without(items, gone) ==
    Picked(items, {i \in DOMAIN items : items[i].mid \notin gone})
Resealed(idx, upsert, gone, order) ==
    Sealed(Without(PatchedItems(idx, upsert, order), gone))

\* The results of UpsertMidsToActiveFilmSearchIndex and of a reseal for what
\* was read of these mids.
Results(idx, mids, upsert) ==
    IF mids = DOMAIN upsert /\ idx.items # <<>>
    THEN {Patched(idx, upsert, o, p) :
             o \in SetToSeqs(mids), p \in SetToSeqs(mids)}
    ELSE {Resealed(idx, upsert, mids \ DOMAIN upsert, o) :
             o \in SetToSeqs(DOMAIN upsert)}

\* searchFilmMetas: candidates from the postings, each then compared with
\* the query.
Found(idx, q) ==
    {idx.items[i].mid : i \in {j \in DOMAIN idx.items :
        /\ \A ch \in q : j \in idx.posts[ch]
        /\ q \subseteq idx.items[j].meta.title}}

-----------------------------------------------------------------------------
(* Readings: the rows of film_index, and later the playlists               *)

Rows(mids) == [m \in mids \cap Listed |-> films[m]]
WithPlays(rows) ==
    [m \in DOMAIN rows |->
        [rows[m] EXCEPT !.plays = IF m \in Listed THEN films[m].plays
                                  ELSE {}]]
AsItems(rows, order) ==
    [n \in DOMAIN order |-> [mid |-> order[n], meta |-> rows[order[n]]]]

\* Another goroutine's reseal must see that the index is not the one it has
\* read for.
Installs(idx) ==
    /\ index' = idx
    /\ seal' = IF seal.at = "idle" THEN seal ELSE [seal EXCEPT !.moved = TRUE]

Trouble == troubles < MaxTroubles /\ troubles' = troubles + 1

Init ==
    /\ films \in [Mid -> First \cup {New}]
    /\ index = Sealed(AsItems(films, SetToSeq(Listed)))
    /\ mutex = Free /\ call = [c \in Caller |-> Idle]
    /\ changed = {} /\ seal = Idle /\ build = Idle /\ lost = {}
    /\ changes = 0 /\ troubles = 0

-----------------------------------------------------------------------------
(* Changes of the tables                                                   *)

Change(mids, xs) ==
    /\ changes < MaxChanges /\ changes' = changes + 1
    /\ \A m \in mids : films[m] # Gone
    /\ films' = [m \in Mid |-> IF m \in mids THEN xs[m] ELSE films[m]]

\* An edit, a change of a source, a deletion of lines: the films' goroutine
\* calls UpsertActiveSnapshotsByMids next.
Edits(c, mids) ==
    /\ call[c] = Idle
    /\ \E xs \in [mids -> Meta] : Change(mids, xs)
    /\ call' = [call EXCEPT ![c] = [at |-> "upsert", mids |-> mids]]
    /\ UNCHANGED <<index, mutex, changed, seal, build, lost, troubles>>

\* A deletion: DeleteActiveSnapshotsByMids.  No film comes back under its mid.
Deletes(c, mids) ==
    /\ call[c] = Idle /\ mids \subseteq Listed
    /\ Change(mids, [m \in mids |-> Gone])
    /\ call' = [call EXCEPT ![c] = [at |-> "remove", mids |-> mids]]
    /\ UNCHANGED <<index, mutex, changed, seal, build, lost, troubles>>

\* A collection writes films and leaves them to the queue of seals.
Collects(mids) ==
    /\ \E xs \in [mids -> Meta] : Change(mids, xs)
    /\ changed' = changed \cup mids
    /\ UNCHANGED <<index, mutex, call, seal, build, lost, troubles>>

-----------------------------------------------------------------------------
(* UpsertMidsToActiveFilmSearchIndex, RemoveMidsFromActiveFilmSearchIndex   *)

UpsertReadsEarly(c) ==
    /\ call[c].at = "upsert" /\ index # None
    /\ call' = [call EXCEPT ![c] = [at |-> "read", mids |-> call[c].mids,
                                    rows |-> Rows(call[c].mids)]]
    /\ UNCHANGED <<films, index, mutex, changed, seal, build, lost, bounds>>

UpsertReads(c) ==
    /\ call[c].at = "upsert" /\ index # None
    /\ mutex = Free /\ mutex' = c
    /\ call' = [call EXCEPT ![c] = [at |-> "read", mids |-> call[c].mids,
                                    rows |-> Rows(call[c].mids)]]
    /\ UNCHANGED <<films, index, changed, seal, build, lost, bounds>>

UpsertStores(c) ==
    /\ call[c].at = "read" /\ index # None /\ mutex' = Free
    /\ \E idx \in Results(index, call[c].mids, WithPlays(call[c].rows)) :
           Installs(idx)
    /\ call' = [call EXCEPT ![c] = Idle]
    /\ UNCHANGED <<films, changed, build, lost, bounds>>

\* A read that fails is logged.
UpsertFails(c) ==
    /\ call[c].at = "read" /\ mutex' = Free
    /\ Trouble
    /\ lost' = lost \cup call[c].mids
    /\ call' = [call EXCEPT ![c] = Idle]
    /\ UNCHANGED <<films, index, changed, seal, build, changes>>

\* Without a hit the index stays the same pointer; a reseal that has read
\* these films alive then brings them back.
Removes(c) ==
    /\ call[c].at = "remove" /\ index # None /\ mutex = Free
    /\ LET mids == call[c].mids
       IN  IF mids \cap DOMAIN index.pos = {}
           THEN /\ UNCHANGED <<index, seal>>
                /\ lost' = IF seal.at = "idle" THEN lost
                           ELSE lost \cup (mids \cap DOMAIN seal.rows)
           ELSE /\ Installs(Sealed(Without(index.items, mids)))
                /\ UNCHANGED lost
    /\ call' = [call EXCEPT ![c] = Idle]
    /\ UNCHANGED <<films, mutex, changed, build, bounds>>

-----------------------------------------------------------------------------
(* ResealSearchIndexMids                                                   *)

Resealing(mids) ==
    seal' = [at |-> "rows", mids |-> mids, rows |-> Rows(mids),
             moved |-> FALSE]

\* RequestActiveFilmSearchIndexRebuild: the films are left to a scan that has
\* not yet begun.
LeftToScan(mids) ==
    /\ lost' = lost \cup mids
    /\ build' = IF build = Idle THEN build ELSE [build EXCEPT !.lost = @ \ mids]

ResealReads ==
    /\ seal = Idle /\ changed # {} /\ changed' = {}
    /\ IF index = None
       THEN LeftToScan(changed) /\ UNCHANGED seal
       ELSE Resealing(changed) /\ UNCHANGED <<lost, build>>
    /\ UNCHANGED <<films, index, mutex, call, bounds>>

ResealReadsPlays ==
    /\ seal.at = "rows"
    /\ seal' = [seal EXCEPT !.at = "ready", !.rows = WithPlays(@)]
    /\ UNCHANGED <<films, index, mutex, call, changed, build, lost, bounds>>

ResealStores ==
    /\ seal.at = "ready" /\ mutex = Free
    /\ index # None /\ ~seal.moved
    /\ index' \in Results(index, seal.mids, seal.rows) /\ seal' = Idle
    /\ UNCHANGED <<films, mutex, call, changed, build, lost, bounds>>

\* The index is not the one it was read for: once more.
ResealRereads ==
    /\ seal.at = "ready" /\ mutex = Free
    /\ index # None /\ seal.moved /\ Resealing(seal.mids)
    /\ UNCHANGED <<films, index, mutex, call, changed, build, lost, bounds>>

\* No index any more, or a read that fails: a scan is requested.
ResealGivesUp ==
    /\ \/ seal.at = "ready" /\ mutex = Free /\ index = None
          /\ UNCHANGED troubles
       \/ seal.at = "rows" /\ Trouble
    /\ LeftToScan(seal.mids) /\ seal' = Idle
    /\ UNCHANGED <<films, index, mutex, call, changed, changes>>

-----------------------------------------------------------------------------
(* Scans                                                                   *)

\* buildAndStoreFilmSearchMetaIndex for whoever finds no index, and
\* scanAndStoreActiveFilmSearchIndex.
BuildReads ==
    /\ build = Idle /\ mutex = Free /\ mutex' = "build"
    /\ \/ index = None /\ UNCHANGED troubles
       \/ index # None /\ Trouble
    /\ build' = [at |-> "read", rows |-> Rows(Mid), lost |-> lost]
    /\ UNCHANGED <<films, index, call, changed, seal, lost, changes>>

BuildStores ==
    /\ build.at = "read" /\ mutex' = Free /\ build' = Idle
    /\ \E order \in SetToSeqs(DOMAIN build.rows) :
           Installs(Sealed(AsItems(WithPlays(build.rows), order)))
    /\ lost' = lost \ build.lost
    /\ UNCHANGED <<films, call, changed, bounds>>

\* Those who needed the index go away without it.
BuildFails ==
    /\ build.at = "read" /\ mutex' = Free /\ build' = Idle
    /\ \E away \in SUBSET {c \in Caller : call[c] # Idle /\ index = None} :
           call' = [c \in Caller |-> IF c \in away THEN Idle ELSE call[c]]
    /\ UNCHANGED <<films, index, changed, seal, lost, bounds>>

\* ClearActiveFilmReadModel, ApplyActiveFilmReadModelSnapshots.
Clears ==
    /\ mutex = Free /\ index # None
    /\ Trouble /\ Installs(None)
    /\ UNCHANGED <<films, mutex, call, changed, build, lost, changes>>

-----------------------------------------------------------------------------
CallSteps(c) ==
    \/ \E mids \in Batch : Edits(c, mids) \/ Deletes(c, mids)
    \/ UpsertReads(c) \/ UpsertStores(c) \/ UpsertFails(c) \/ Removes(c)

Reseal ==
    ResealReads \/ ResealReadsPlays \/ ResealStores
        \/ ResealRereads \/ ResealGivesUp

Next ==
    \/ \E c \in Caller : CallSteps(c)
    \/ \E mids \in Batch : Collects(mids)
    \/ Reseal \/ BuildReads \/ BuildStores \/ BuildFails \/ Clears

Spec == Init /\ [][Next]_vars

-----------------------------------------------------------------------------
(* Properties                                                              *)

TypeOK ==
    /\ films \in [Mid -> Meta \cup {New, Gone}]
    /\ mutex \in Caller \cup {"build", Free}
    /\ \A c \in Caller :
           /\ call[c].at \in {"idle", "upsert", "read", "remove"}
           /\ call[c] # Idle => call[c].mids \in Batch
    /\ changed \subseteq Mid /\ lost \subseteq Mid
    /\ seal.at \in {"idle", "rows", "ready"}
    /\ build.at \in {"idle", "read"}

NoRepeats(s) == IsInjective(s)

\* Every list is of the right films, none twice; the order of the lists of a
\* category is left to their readers, and that of the pools to the batches.
ListsRight(idx) ==
    /\ ToSet(idx.byUpdate) = DOMAIN idx.items
    /\ idx.byUpdate = SortedByRank(idx.items, DOMAIN idx.items)
    /\ \A c \in Category :
           /\ NoRepeats(idx.byCategory[c])
           /\ ToSet(idx.byCategory[c]) = Has(idx.items, LAMBDA x : x.cat = c)
    /\ \A k \in PoolKey :
           /\ NoRepeats(idx.pools[k]) /\ Len(idx.pools[k]) <= Cap
           /\ \A m \in ToSet(idx.pools[k]) :
                  k \in PoolKeys(idx.items[idx.pos[m]].meta)

CountsRight(idx) ==
    \A s \in PlaySource :
        /\ idx.films[s] = Cardinality(Has(idx.items, LAMBDA x : x.src = s))
        /\ idx.multi[s] = Cardinality(Several(Metas(idx.items), s))

\* A search finds every film whose title holds what was typed, and no other.
SearchRight(idx) ==
    \A q \in SUBSET Char \ {{}} :
        Found(idx, q) = {m \in DOMAIN idx.pos :
                            q \subseteq idx.items[idx.pos[m]].meta.title}

\* However it was patched together, the index has the positions, the order and
\* the counts that a scan of the same films would give it; its categories and
\* pools list the right films, if not in the order or as many as a scan would.
IndexAgrees ==
    TypeOK /\ (index # None =>
        /\ NoRepeats(index.items) /\ index.pos = Positions(index.items)
        /\ ListsRight(index) /\ CountsRight(index))

Pending ==
    changed \cup (IF seal.at = "idle" THEN {} ELSE seal.mids)
        \cup UNION {call[c].mids : c \in {d \in Caller : call[d] # Idle}}

\* A film that no goroutine has at hand is in the index as it is in the
\* tables, and one that was deleted is not; a search goes by what is there.
IndexFresh ==
    index # None =>
        /\ SearchRight(index)
        /\ \A m \in Mid \ (Pending \cup lost) :
               IF m \in Listed
               THEN m \in DOMAIN index.pos
                       /\ index.items[index.pos[m]].meta = films[m]
               ELSE m \notin DOMAIN index.pos

\* What the reseal's re-reading is there for: a deleted film of which nobody
\* has anything at hand does not stay in the index.
DeletedStaysOut ==
    index # None =>
        \A m \in DOMAIN index.pos \ Pending : films[m] # Gone
=============================================================================
