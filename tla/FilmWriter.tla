----------------------------- MODULE FilmWriter -----------------------------
(***************************************************************************)
(* The film writer: a collected page, a single film, and a manual edit as  *)
(* they take their locks, read, and commit (repository/film/writer), with  *)
(* the two writers that take no lock: the scrape of a film's texts and the *)
(* deletion of films.                                                      *)
(*                                                                         *)
(* A film belongs to the source that listed it first and stands for one    *)
(* vod of that source.  A page is the vods it lists, each with the time    *)
(* the source says it was updated, 0 when that time cannot be parsed; the  *)
(* play lines stored for a film are known by the vod and the time they     *)
(* came from.  A transaction reads first and writes later, without         *)
(* locking the rows it has read (READ COMMITTED).                          *)
(***************************************************************************)
EXTENDS Naturals, FiniteSets, FiniteSetsExt, Functions, TLC

CONSTANTS Source,      \* collect sources
          Vod,         \* vod ids, numbers, the same range in every source
          Writer,      \* goroutines that write films
          Key,         \* match key stripes, numbers
          KeysOf,      \* KeysOf[v]: the stripes of the match keys of vod v
          MaxTime,     \* bound: update times
          MaxMid,      \* bound: films created
          Requests     \* bound: pages, single films and edits

Time == 0 .. MaxTime
Mid == 1 .. MaxMid
ByHand == 0      \* in place of the vod: lines typed by an administrator

VARIABLES
    film,      \* film[m]: the row of film_index, for the films there are
    lines,     \* lines[<<m, s>>]: which lines film m has from source s, if any
    mapping,   \* mapping[s][v]: the film of vod v, 0 without a row
    vodTime,   \* vodTime[s][v]: source_vod_unix of that row
    nextMid,   \* the next film id
    locks,     \* the mutexes held
    writer,    \* what each goroutine does
    requests,  \* how many have been started
    stored     \* history: stored[s], the vods of s written since the start

vars == <<film, lines, mapping, vodTime, nextMid, locks, writer, requests,
          stored>>
library == <<film, lines, mapping, vodTime, nextMid, stored>>
tables == <<library, requests>>

Idle == [at |-> "idle"]
FilmOf(s) == [owner |-> s, text |-> "site", locked |-> FALSE]
Lines(v, t) == [vod |-> v, time |-> t]

TypeOK ==
    /\ DOMAIN film \subseteq Mid
    /\ \A m \in DOMAIN film :
           film[m] \in [owner : Source, text : {"site", "user"},
                        locked : BOOLEAN]
    /\ DOMAIN lines \subseteq Mid \X Source
    /\ \A place \in DOMAIN lines :
           lines[place] \in [vod : Vod \cup {ByHand}, time : Time]
    /\ mapping \in [Source -> [Vod -> 0 .. MaxMid]]
    /\ vodTime \in [Source -> [Vod -> Time]]
    /\ nextMid \in 1 .. MaxMid + 1
    /\ stored \in [Source -> SUBSET Vod]
    /\ requests \in 0 .. Requests

NoRows == [s \in Source |-> [v \in Vod |-> 0]]

\* An empty library; or one from before a film stood for one vod: all vods
\* of a source are mapped to one film, of that source or of another.
Init ==
    /\ \/ film = <<>> /\ lines = <<>> /\ mapping = NoRows /\ nextMid = 1
       \/ \E s, owner \in Source, v \in Vod :
              /\ film = [m \in {1} |-> FilmOf(owner)]
              /\ lines = [place \in {<<1, s>>} |-> Lines(v, 0)]
              /\ mapping = [NoRows EXCEPT ![s] = [w \in Vod |-> 1]]
              /\ nextMid = 2
    /\ vodTime = NoRows
    /\ locks = {} /\ requests = 0
    /\ writer = [w \in Writer |-> Idle]
    /\ stored = [s \in Source |-> {}]

-----------------------------------------------------------------------------
(* Locks: the match keys in ascending order, the source, the film          *)

At(w, place) == writer[w].at = place
Goes(w, place) == writer' = [writer EXCEPT ![w].at = place]

KeyLock(k) == <<"key", k>>
SourceLock(s) == <<"source", s>>
MidLock(m) == <<"mid", m>>

\* The next key to lock: the smallest still missing.
NextKey(w) == Min(writer[w].keys)

Lock(lock) == lock \notin locks /\ locks' = locks \cup {lock}

\* Mutant: the stripes are taken in any order.
LocksAnyKey(w) ==
    /\ At(w, "locks")
    /\ \E k \in writer[w].keys :
           /\ Lock(KeyLock(k))
           /\ writer' = [writer EXCEPT ![w].keys = @ \ {k},
                                       ![w].held = @ \cup {KeyLock(k)}]
    /\ UNCHANGED tables

LocksKey(w) ==
    /\ At(w, "locks") /\ writer[w].keys # {}
    /\ Lock(KeyLock(NextKey(w)))
    /\ writer' = [writer EXCEPT ![w].keys = @ \ {NextKey(w)},
                                ![w].held = @ \cup {KeyLock(NextKey(w))}]
    /\ UNCHANGED tables

\* peekPeerFilmMid: the film of a single vod is looked up without a lock on
\* it; a page locks no films, an edit locks the film it was asked for.
FilmToLock(w) ==
    LET r == writer[w]
    IN  CASE r.kind = "page" -> 0
          [] r.kind = "edit" -> r.mid
          [] r.kind = "single" -> mapping[r.site][Min(DOMAIN r.page)]

LocksSource(w) ==
    /\ At(w, "locks") /\ writer[w].keys = {}
    /\ Lock(SourceLock(writer[w].site))
    /\ writer' = [writer EXCEPT ![w].at = "mid", ![w].mid = FilmToLock(w),
                                ![w].held = @ \cup {SourceLock(writer[w].site)}]
    /\ UNCHANGED tables

LocksFilm(w) ==
    /\ At(w, "mid")
    /\ IF writer[w].mid = 0
       THEN Goes(w, "reads") /\ UNCHANGED locks
       ELSE /\ Lock(MidLock(writer[w].mid))
            /\ writer' = [writer EXCEPT ![w].at = "reads",
                              ![w].held = @ \cup {MidLock(writer[w].mid)}]
    /\ UNCHANGED tables

\* The deferred unlocks.
Unlocks(w) ==
    /\ At(w, "unlocks")
    /\ locks' = locks \ writer[w].held
    /\ writer' = [writer EXCEPT ![w] = Idle]
    /\ UNCHANGED tables

-----------------------------------------------------------------------------
(* A page or a single film: SaveCollectedPeerDetails, saveSinglePeerDetail *)

Asks == requests < Requests /\ requests' = requests + 1

\* A page lists each vod once: the last of equal entries counts.
Starts(w, s, page) ==
    /\ At(w, "idle") /\ Asks
    /\ \E kind \in IF Cardinality(DOMAIN page) = 1
                   THEN {"page", "single"} ELSE {"page"} :
           writer' = [writer EXCEPT ![w] =
               [at |-> "locks", kind |-> kind, site |-> s, page |-> page,
                keys |-> UNION {KeysOf[v] : v \in DOMAIN page},
                held |-> {}, mid |-> 0, read |-> <<>>]]
    /\ UNCHANGED <<library, locks>>

\* The vods of a source that are mapped to one film.
Sharing(s, m) == {v \in Vod : mapping[s][v] = m}

\* Mutant: a film that several vods share is found by each of them.
BoundShared(s, v) ==
    LET m == mapping[s][v]
    IN  IF m \in DOMAIN film /\ film[m].owner = s THEN m ELSE 0

\* The film a vod is bound to: it must exist, be the source's own, and have
\* no smaller vod of the source mapped to it.
Bound(s, v) ==
    LET m == mapping[s][v]
    IN  IF /\ m \in DOMAIN film /\ film[m].owner = s
           /\ \A u \in Sharing(s, m) : v <= u
        THEN m ELSE 0

\* What the transaction reads: the bound films and the locks on their texts.
Reads(w) ==
    /\ At(w, "reads") /\ writer[w].kind \in {"page", "single"}
    /\ LET r == writer[w]
       IN  writer' = [writer EXCEPT ![w].at = "commits", ![w].read =
               [v \in DOMAIN r.page |->
                   LET m == Bound(r.site, v)
                   IN  [mid |-> m, locked |-> m # 0 /\ film[m].locked]]]
    /\ UNCHANGED <<tables, locks>>

\* Mutant: update times are not compared.
AlwaysWins(t, row, time) == TRUE

\* claimSourceVodTimeTx: an older update time loses; a newer one needs the
\* mapping row to write itself into; one that cannot be parsed counts only
\* where no time is stored.
Wins(t, row, time) ==
    IF t = 0 THEN time = 0 ELSE t = time \/ (t > time /\ row # 0)

\* The commit, for the vods that are neither hidden nor unmapped: those
\* without a film get a new one in page order, and their mapping keeps its
\* time; the winners' lines replace the stored ones; the texts of a film
\* that was there follow unless it was locked.
Commit(s, page, read, new) ==
    LET rank(v) == Cardinality({u \in new : u < v})
        midOf == [v \in DOMAIN page |->
                     IF v \in new THEN nextMid + rank(v) ELSE read[v].mid]
        row == [v \in Vod |-> IF v \in DOMAIN page /\ midOf[v] # 0
                              THEN IF v \in new THEN midOf[v] ELSE mapping[s][v]
                              ELSE mapping[s][v]]
        winners == {v \in DOMAIN page :
                       midOf[v] # 0 /\ Wins(page[v], row[v], vodTime[s][v])}
        vodOf(m) == CHOOSE v \in DOMAIN page : midOf[v] = m
        written == {midOf[v] : v \in winners}
        created == {midOf[v] : v \in new}
        followed == {m \in written \ created : ~read[vodOf(m)].locked}
    IN  /\ film' = [m \in DOMAIN film \cup created |->
               IF m \in created THEN FilmOf(s)
               ELSE IF m \in followed THEN [film[m] EXCEPT !.text = "site"]
               ELSE film[m]]
        /\ lines' = [place \in DOMAIN lines \cup written \X {s} |->
               IF place \in written \X {s}
               THEN Lines(vodOf(place[1]), page[vodOf(place[1])])
               ELSE lines[place]]
        /\ mapping' = [mapping EXCEPT ![s] = row]
        /\ vodTime' = [vodTime EXCEPT ![s] = [v \in Vod |->
               IF v \in winners /\ page[v] > vodTime[s][v]
               THEN page[v] ELSE vodTime[s][v]]]
        /\ nextMid' = nextMid + Cardinality(new)
        /\ stored' = [stored EXCEPT ![s] = @ \cup {v \in DOMAIN page :
                                                    midOf[v] # 0}]

Unbound(r) == {v \in DOMAIN r.page : r.read[v].mid = 0}

\* One transaction for the whole page.  A film hidden by its category is
\* left out, and so is a vod whose category is not mapped.
CommitsPage(w) ==
    /\ At(w, "commits") /\ writer[w].kind \in {"page", "single"}
    /\ LET r == writer[w]
       IN  \E left \in SUBSET DOMAIN r.page :
               LET page == [v \in DOMAIN r.page \ left |-> r.page[v]]
                   new == Unbound(r) \ left
               IN  /\ nextMid + Cardinality(new) <= MaxMid + 1
                   /\ Commit(r.site, page, r.read, new)
    /\ Goes(w, "unlocks")
    /\ UNCHANGED <<locks, requests>>

\* A transient error rolls the page back.
FailsPage(w) ==
    /\ At(w, "commits")
    /\ Goes(w, "unlocks")
    /\ UNCHANGED <<tables, locks>>

\* A row too long for its column: the page's films one transaction each,
\* under the page's locks; the film that does not fit is skipped.
IsolatesFilm(w) ==
    /\ At(w, "commits") /\ writer[w].kind = "page"
    /\ \E v \in DOMAIN writer[w].page :
           LET r == writer[w]
               rest == [u \in DOMAIN r.page \ {v} |-> r.page[u]]
               one == [u \in {v} |-> r.page[v]]
               now == [u \in {v} |-> [mid |-> Bound(r.site, v),
                          locked |-> Bound(r.site, v) # 0
                                     /\ film[Bound(r.site, v)].locked]]
               new == IF now[v].mid = 0 THEN {v} ELSE {}
           IN  /\ \/ /\ nextMid + Cardinality(new) <= MaxMid + 1
                     /\ Commit(r.site, one, now, new)
                  \/ UNCHANGED library
               /\ writer' = [writer EXCEPT
                      ![w].page = rest,
                      ![w].at = IF rest = <<>> THEN "unlocks" ELSE "reads"]
    /\ UNCHANGED <<locks, requests>>

-----------------------------------------------------------------------------
(* A manual edit: SaveDetailWithOptions; a scrape; a deletion              *)

\* The film is read before any lock is taken.  The edit is filed under a
\* source the administrator names, not always the film's own.
StartsEdit(w, s, m) ==
    /\ At(w, "idle") /\ m \in DOMAIN film /\ Asks
    /\ \E keys \in {KeysOf[v] : v \in Vod} :
           writer' = [writer EXCEPT ![w] =
               [at |-> "locks", kind |-> "edit", site |-> s, mid |-> m,
                page |-> <<>>, keys |-> keys, held |-> {},
                read |-> film[m]]]
    /\ UNCHANGED <<library, locks>>

\* The columns of the form are written, the locks of the texts as they were
\* read; the lines go to the film's owner.
CommitsEdit(w) ==
    /\ At(w, "reads") /\ writer[w].kind = "edit"
    /\ LET r == writer[w]
           typed == <<r.mid, r.read.owner>>
       IN  /\ film' = IF r.mid \notin DOMAIN film THEN film
                      ELSE [film EXCEPT ![r.mid].text = "user",
                                        ![r.mid].locked = r.read.locked]
           /\ \/ lines' = [place \in DOMAIN lines \cup {typed} |->
                    IF place = typed THEN Lines(ByHand, 0) ELSE lines[place]]
              \/ UNCHANGED lines
    /\ Goes(w, "unlocks")
    /\ UNCHANGED <<mapping, vodTime, nextMid, locks, requests, stored>>

\* filmScrapeUpdates: the texts of the scrape, and the lock on them.
Scrapes(m) ==
    /\ m \in DOMAIN film
    /\ film' = [film EXCEPT ![m].text = "user", ![m].locked = TRUE]
    /\ UNCHANGED <<lines, mapping, vodTime, nextMid, locks, writer, requests,
                   stored>>

\* A film with its lines and its mappings, in one transaction.
Deletes(m) ==
    /\ m \in DOMAIN film
    /\ film' = Restrict(film, DOMAIN film \ {m})
    /\ lines' = Restrict(lines, {place \in DOMAIN lines : place[1] # m})
    /\ mapping' = [s \in Source |-> [v \in Vod |->
                      IF mapping[s][v] = m THEN 0 ELSE mapping[s][v]]]
    /\ vodTime' = [s \in Source |-> [v \in Vod |->
                      IF mapping[s][v] = m THEN 0 ELSE vodTime[s][v]]]
    /\ stored' = [s \in Source |-> stored[s] \ Sharing(s, m)]
    /\ UNCHANGED <<nextMid, locks, writer, requests>>

-----------------------------------------------------------------------------
Pages == UNION {[vods -> Time] : vods \in SUBSET Vod \ {{}}}

Takes(w) == LocksKey(w) \/ LocksSource(w) \/ LocksFilm(w)
Writes(w) == \/ Reads(w) \/ CommitsPage(w) \/ FailsPage(w) \/ IsolatesFilm(w)
             \/ CommitsEdit(w)
Asked(w) == \/ \E s \in Source, page \in Pages : Starts(w, s, page)
            \/ \E s \in Source, m \in Mid : StartsEdit(w, s, m)

Next == \/ \E w \in Writer : Asked(w) \/ Takes(w) \/ Writes(w) \/ Unlocks(w)
        \/ \E m \in Mid : Scrapes(m) \/ Deletes(m)

Spec == Init /\ [][Next]_vars

\* A goroutine that can go on does, and a mutex is handed to every waiter in
\* turn (sync.Mutex ends the starvation of a waiter after a millisecond).
Fairness ==
    \A w \in Writer : /\ WF_vars(Writes(w) \/ Unlocks(w))
                      /\ SF_vars(Takes(w))

-----------------------------------------------------------------------------
(* Properties                                                              *)

\* Two vods of a source that have both been written since the start stand
\* for two films, also where they shared one before (vod_film.go: one mid
\* belongs to one vod).
OneVodPerFilm ==
    \A s \in Source : \A v, u \in stored[s] :
        v # u /\ mapping[s][v] # 0 => mapping[s][v] # mapping[s][u]

\* The lines of a vod are never replaced by lines of the same vod with an
\* older update time, in whatever order its pages are saved.
LinesNeverAge ==
    [][\A place \in DOMAIN lines \cap DOMAIN lines' :
          lines'[place].vod = lines[place].vod
          => lines'[place].time >= lines[place].time]_vars

\* Every writer gets its locks and ends: the keys are taken in one order,
\* and never after a source or a film.
WritersEnd == \A w \in Writer : ~At(w, "idle") ~> At(w, "idle")

\* Texts that were scraped for a film and locked are not overwritten by a
\* later collection (tmdb_apply_film.go).
LockedTextsKept ==
    \A m \in DOMAIN film : film[m].locked => film[m].text = "user"
=============================================================================
