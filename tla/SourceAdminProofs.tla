------------------------- MODULE SourceAdminProofs -------------------------
(***************************************************************************)
(* Proofs about the administration of the sources and the poller of the    *)
(* notifications.                                                          *)
(*                                                                         *)
(* The sources, for any addresses and deletions.  The invariant says how   *)
(* the mutexes of sourceExclusive protect a source although a deletion     *)
(* forgets them: who bears a mutex looked it up for its source, the        *)
(* deletion worker bears the one that stands, a sync that applies under    *)
(* the mutex that stands has the row it saw, and the worker purges no      *)
(* source that a run collects from.                                        *)
(*                                                                         *)
(* The poller, for any bots, calls and updates.  The invariant says what a *)
(* poller has dealt with before it asks for more, and which poller is left *)
(* while calls that want the same are under way.                           *)
(***************************************************************************)
EXTENDS MCAdministration, FiniteSetTheorems, WellFoundedInduction, TLAPS

-----------------------------------------------------------------------------
(* Records                                                                 *)

\* A request's place says what it knows.
LEMMA RequestShape ==
    ASSUME NEW q \in Requests
    PROVE  /\ q.at \in {"idle", "press", "sent", "applied", "sync", "fetch",
                        "locks", "checks", "applies", "edit"}
           /\ q.at = "idle" => q = Idle
           /\ q.at # "idle" => q.site \in Source
           /\ q.at \in {"sync", "fetch"} => q.confirm \in Confirms
           /\ q.at \in {"fetch", "locks", "checks", "applies", "edit"} =>
                 q.addr \in Address
           /\ q.at \in {"locks", "checks", "applies"} =>
                 /\ q \in [at : {"locks", "checks", "applies"}, site : Source,
                           addr : Address, confirm : Confirms \ {"ask"},
                           mutex : Source \X (0 .. Deletions)]
                 /\ q.mutex \in Source \X (0 .. Deletions)
                 /\ q.confirm \in Confirms \ {"ask"}
           /\ q.at = "press" => q \in [at : {"press", "sent", "applied"},
                                       site : Source]
    BY DEF Requests, Idle

\* The worker's place says what it knows.
LEMMA WorkerShape ==
    ASSUME NEW q \in Deleting
    PROVE  /\ q.at \in {"idle", "waits", "forgets", "ends", "locks", "checks",
                        "occupies", "purges"}
           /\ q.at # "idle" => q.site \in Source
           /\ q.at \in {"locks", "checks", "occupies", "purges"} =>
                 /\ q \in [at : {"locks", "checks", "occupies", "purges"},
                           site : Source, mutex : Source \X (0 .. Deletions)]
                 /\ q.mutex \in Source \X (0 .. Deletions)
    BY DEF Deleting, Idle

\* A run's place says what it knows: claimed, it has not loaded the source yet.
LEMMA RunShape ==
    ASSUME NEW q \in Collecting
    PROVE  /\ q.at \in {"idle", "claimed", "loaded", "begun", "collects"}
           /\ q.at = "idle" => q = Idle
           /\ q.at \in {"loaded", "begun", "collects"} =>
                 /\ q \in [at : {"loaded", "begun", "collects"}, addr : Address]
                 /\ q.addr \in Address
    BY DEF Collecting, Idle

\* A step of a request that only changes its place.
LEMMA RequestMoves ==
    ASSUME NEW q \in Requests
    PROVE  /\ q.at = "press" => /\ [q EXCEPT !.at = "sent"] \in Requests
                                /\ [q EXCEPT !.at = "sent"].at = "sent"
           /\ \A place \in {"checks", "applies"} :
                q.at \in {"locks", "checks"} =>
                    /\ [q EXCEPT !.at = place] \in Requests
                    /\ [q EXCEPT !.at = place].at = place
                    /\ [q EXCEPT !.at = place].site = q.site
                    /\ [q EXCEPT !.at = place].mutex = q.mutex
    BY RequestShape DEF Requests

\* A step of the worker that only changes its place (DelFilmSource).
LEMMA WorkerMoves ==
    ASSUME NEW q \in Deleting, NEW place \in {"checks", "occupies", "purges"},
           q.at \in {"locks", "checks", "occupies"}
    PROVE  /\ [q EXCEPT !.at = place] \in Deleting
           /\ [q EXCEPT !.at = place].at = place
           /\ [q EXCEPT !.at = place].site = q.site
           /\ [q EXCEPT !.at = place].mutex = q.mutex
    BY WorkerShape DEF Deleting

\* A step of a run that only changes its place (handleCollectWithStopVersion).
LEMMA RunMoves ==
    ASSUME NEW q \in Collecting
    PROVE  /\ q.at = "idle" => /\ [q EXCEPT !.at = "claimed"] \in Collecting
                               /\ [q EXCEPT !.at = "claimed"].at = "claimed"
           /\ \A place \in {"begun", "collects"} :
                q.at \in {"loaded", "begun"} =>
                    /\ [q EXCEPT !.at = place] \in Collecting
                    /\ [q EXCEPT !.at = place].at = place
    BY RunShape DEF Collecting, Idle

-----------------------------------------------------------------------------
(* The inductive invariant                                                 *)

\* Where a request bears a mutex, and where it or the worker holds it.
Bearing == {"locks", "checks", "applies"}
Inside(c) == caller[c].at \in {"checks", "applies"}
WorkerInside == worker.at \in {"checks", "occupies", "purges"}

\* A mutex is replaced once for every deletion that the worker took.
Counted ==
    /\ \A s \in Source : gate[s] <= deletions
    /\ worker.at \notin {"idle", "ends"} =>
          \A s \in Source : gate[s] < deletions

\* Who bears a mutex looked it up for its source, and the worker, who alone
\* replaces mutexes, bears the one that stands.
LookedUp ==
    /\ \A c \in Caller : caller[c].at \in Bearing =>
          \E k \in 0 .. gate[caller[c].site] :
              caller[c].mutex = <<caller[c].site, k>>
    /\ worker.at \in {"locks", "checks", "occupies", "purges"} =>
          worker.mutex = Looked(worker.site)

\* A mutex is held by one at a time.
Exclusive ==
    /\ \A c \in Caller : Inside(c) => caller[c].mutex \in held
    /\ \A c, d \in Caller : Inside(c) /\ Inside(d) /\ c # d =>
          caller[c].mutex # caller[d].mutex
    /\ WorkerInside =>
          /\ worker.mutex \in held
          /\ \A c \in Caller : Inside(c) => caller[c].mutex # worker.mutex

\* A sync that applies under the mutex that stands has the row it saw.
RowKept ==
    \A c \in Caller :
        At(c, "applies") /\ caller[c].mutex = Looked(caller[c].site) =>
            row[caller[c].site] # None

\* The worker purges no source that a run collects from, and a run collects
\* from a source that has its row, but for the syncs that were overtaken.
Apart ==
    /\ \A s \in Source : run[s].at \in {"begun", "collects"} =>
          /\ s \in active
          /\ ~(worker.at = "purges" /\ worker.site = s)
    /\ worker.at = "purges" => worker.site \in active
    /\ \A s \in Source \ overtaken : Runs(s, "collects") => row[s] # None

\* The inductive invariant.
SourceInv ==
    /\ TypeOK /\ Counted /\ LookedUp /\ Exclusive /\ RowKept /\ Apart
    /\ NothingLeftBehind /\ SyncingMeansUnderWay

-----------------------------------------------------------------------------
(* What a step of a request does                                           *)

\* A request leaves the others, the worker, the runs and the mutexes of the
\* sources alone.
LEMMA RequestSteps ==
    ASSUME TypeOK, NEW c \in Caller, Press(c) \/ Sync(c) \/ Edit(c)
    PROVE  /\ UNCHANGED <<gate, worker, run, active, deletions, occupied>>
           /\ caller' \in [Caller -> Requests]
           /\ \A d \in Caller \ {c} : caller'[d] = caller[d]
<1> DEFINE frame == /\ UNCHANGED <<gate, worker, run, active, deletions,
                                   occupied>>
                    /\ caller' \in [Caller -> Requests]
                    /\ \A d \in Caller \ {c} : caller'[d] = caller[d]
<1>0. /\ caller \in [Caller -> Requests] /\ caller[c] \in Requests
      /\ row \in [Source -> Address \cup {None}]
      /\ gate \in [Source -> 0 .. Deletions]
    BY DEF TypeOK
<1>i. Idle \in Requests
    BY DEF Requests
<1>l. \A s \in Source : Looked(s) \in Source \X (0 .. Deletions)
    BY <1>0 DEF Looked
<1>1. ASSUME NEW s \in Source, PressChecks(c, s)
      PROVE  frame
    <2>1. [at |-> "press", site |-> s] \in Requests
        BY DEF Requests
    <2> QED BY <1>0, <1>1, <2>1 DEF PressChecks, mutex, counts
<1>2. CASE PressSends(c)
    <2>1. [caller[c] EXCEPT !.at = "sent"] \in Requests
        BY <1>0, <1>2, RequestMoves DEF PressSends, At
    <2> QED BY <1>0, <1>2, <1>i, <2>1 DEF PressSends, Goes, Rests, mutex, counts
<1>3. CASE PressMarks(c)
    BY <1>0, <1>3, <1>i DEF PressMarks, Rests, mutex, counts
<1>4. ASSUME NEW s \in Source, NEW confirm \in Confirms, SyncAsked(c, s, confirm)
      PROVE  frame
    <2>1. Syncing(s, confirm) \in Requests
        BY DEF Requests, Syncing
    <2> QED BY <1>0, <1>4, <2>1 DEF SyncAsked, mutex, counts
<1>5. ASSUME NEW s \in Source, ListStarts(c, s)
      PROVE  frame
    <2>1. [at |-> "locks", site |-> s, addr |-> row[s], confirm |-> "keep",
           mutex |-> Looked(s)] \in Requests
        BY <1>0, <1>5, <1>l DEF Requests, Confirms, ListStarts
    <2> QED BY <1>0, <1>5, <2>1 DEF ListStarts, mutex, counts
<1>6. CASE SyncStarts(c)
    <2>1. caller[c].site \in Source /\ caller[c].confirm \in Confirms
        BY <1>0, <1>6, RequestShape DEF SyncStarts, At
    <2>2. row[caller[c].site] # None =>
             [at |-> "fetch", site |-> caller[c].site,
              addr |-> row[caller[c].site], confirm |-> caller[c].confirm]
                 \in Requests
        BY <1>0, <2>1 DEF Requests
    <2> QED BY <1>0, <1>6, <1>i, <2>2
            DEF SyncStarts, LowersFlag, Rests, mutex, counts
<1>7. CASE SyncFetches(c)
    <2>1. /\ caller[c].site \in Source /\ caller[c].confirm \in Confirms
          /\ caller[c].addr \in Address
        BY <1>0, <1>7, RequestShape DEF SyncFetches, At
    <2>2. [at |-> "locks", site |-> caller[c].site, addr |-> caller[c].addr,
           confirm |-> IF caller[c].confirm = "ask" THEN "keep"
                       ELSE caller[c].confirm,
           mutex |-> Looked(caller[c].site)] \in Requests
        BY <1>l, <2>1 DEF Requests, Confirms
    <2> QED BY <1>0, <1>7, <1>i, <2>2
            DEF SyncFetches, LowersFlag, Rests, mutex, counts
<1>8. CASE SyncLocks(c)
    <2>1. [caller[c] EXCEPT !.at = "checks"] \in Requests
        BY <1>0, <1>8, RequestMoves DEF SyncLocks, At
    <2> QED BY <1>0, <1>8, <2>1 DEF SyncLocks, Goes, counts
<1>9. CASE SyncChecks(c)
    <2>1. [caller[c] EXCEPT !.at = "applies"] \in Requests
        BY <1>0, <1>9, RequestMoves DEF SyncChecks, At
    <2> QED BY <1>0, <1>9, <1>i, <2>1
            DEF SyncChecks, Goes, LowersFlag, Rests, counts
<1>10. CASE SyncApplies(c)
    <2>1. [at |-> "applied", site |-> caller[c].site] \in Requests
        BY <1>0, <1>10, RequestShape DEF SyncApplies, At, Requests
    <2> QED BY <1>0, <1>10, <1>i, <2>1
            DEF SyncApplies, Leaves, LowersFlag, Rests, counts
<1>11. CASE SyncEnds(c)
    BY <1>0, <1>11, <1>i DEF SyncEnds, LowersFlag, Rests, mutex, counts
<1>12. ASSUME NEW s \in Source, NEW a \in Address, EditChecks(c, s, a)
       PROVE  frame
    <2>1. [at |-> "edit", site |-> s, old |-> row[s], addr |-> a] \in Requests
        BY <1>0, <1>12 DEF EditChecks, Requests
    <2> QED BY <1>0, <1>12, <2>1 DEF EditChecks, mutex, counts
<1>13. CASE EditCommits(c)
    <2>1. Syncing(caller[c].site, "ask") \in Requests
        BY <1>0, <1>13, RequestShape DEF EditCommits, At, Requests, Syncing,
                                         Confirms
    <2> QED BY <1>0, <1>13, <1>i, <2>1 DEF EditCommits, Rests, mutex, counts
<1>14. ASSUME NEW s \in Source, NEW a \in Address, Adds(c, s, a)
       PROVE  frame
    <2>1. Syncing(s, "ask") \in Requests
        BY DEF Requests, Syncing, Confirms
    <2> QED BY <1>0, <1>14, <2>1 DEF Adds, mutex
<1> QED BY <1>1, <1>2, <1>3, <1>4, <1>5, <1>6, <1>7, <1>8, <1>9, <1>10, <1>11,
           <1>12, <1>13, <1>14 DEF Press, Sync, Edit

\* A request comes to bear a mutex by looking it up, enters once nobody holds
\* it, and applies once it has seen the row; it leaves its mutex when it leaves.
Enters(c) ==
    /\ caller'[c].at = "locks" /\ caller'[c].site \in Source
    /\ caller'[c].mutex = Looked(caller'[c].site)
    /\ held' = held
Acquires(c) ==
    /\ caller[c].at = "locks" /\ caller'[c].at = "checks"
    /\ caller[c].mutex \notin held /\ held' = held \cup {caller[c].mutex}
Sees(c) ==
    /\ caller[c].at = "checks" /\ caller'[c].at = "applies"
    /\ row[caller[c].site] # None /\ row' = row
    /\ held' = held
Leaving(c) ==
    /\ caller'[c].at \notin Bearing
    /\ held' = IF Inside(c) THEN held \ {caller[c].mutex} ELSE held
Keeps(c) ==
    caller'[c].site = caller[c].site /\ caller'[c].mutex = caller[c].mutex

\* Every step of a request is one of these, as far as its mutex goes
\* (WithSourceExclusive around CollectCategory).
LEMMA RequestGoes ==
    ASSUME TypeOK, NEW c \in Caller, Press(c) \/ Sync(c) \/ Edit(c)
    PROVE  \/ Enters(c) \/ Leaving(c)
           \/ (Acquires(c) \/ Sees(c)) /\ Keeps(c)
<1> DEFINE goes == \/ Enters(c) \/ Leaving(c)
                   \/ (Acquires(c) \/ Sees(c)) /\ Keeps(c)
<1>0. /\ caller \in [Caller -> Requests] /\ caller[c] \in Requests
    BY DEF TypeOK
<1>1. ASSUME NEW s \in Source, PressChecks(c, s)
      PROVE  goes
    <2>1. Leaving(c)
        BY <1>0, <1>1, RequestMoves
        DEF PressChecks, Leaving, Bearing, Inside, At, Goes, Rests, LowersFlag, Idle,
            Syncing, mutex
    <2> QED BY <2>1
<1>2. CASE PressSends(c)
    <2>1. caller'[c].at \in {"sent", "idle"}
        <3>1. CASE Goes(c, "sent")
            BY <1>0, <1>2, <3>1, RequestMoves DEF PressSends, At, Goes
        <3>2. CASE Rests(c)
            BY <1>0, <3>2 DEF Rests, Idle
        <3> QED BY <1>2, <3>1, <3>2 DEF PressSends
    <2>2. held' = held /\ ~Inside(c)
        BY <1>2 DEF PressSends, At, Inside, mutex
    <2>3. Leaving(c)
        BY <2>1, <2>2 DEF Leaving, Bearing
    <2> QED BY <2>3
<1>3. CASE PressMarks(c)
    <2>1. Leaving(c)
        BY <1>0, <1>3, RequestMoves
        DEF PressMarks, Leaving, Bearing, Inside, At, Goes, Rests, LowersFlag, Idle,
            Syncing, mutex
    <2> QED BY <2>1
<1>4. ASSUME NEW s \in Source, NEW confirm \in Confirms, SyncAsked(c, s, confirm)
      PROVE  goes
    <2>1. Leaving(c)
        BY <1>0, <1>4, RequestMoves
        DEF SyncAsked, Leaving, Bearing, Inside, At, Goes, Rests, LowersFlag, Idle,
            Syncing, mutex
    <2> QED BY <2>1
<1>5. CASE SyncStarts(c)
    <2>1. Leaving(c)
        BY <1>0, <1>5, RequestMoves
        DEF SyncStarts, Leaving, Bearing, Inside, At, Goes, Rests, LowersFlag, Idle,
            Syncing, mutex
    <2> QED BY <2>1
<1>6. CASE SyncEnds(c)
    <2>1. Leaving(c)
        BY <1>0, <1>6, RequestMoves
        DEF SyncEnds, Leaving, Bearing, Inside, At, Goes, Rests, LowersFlag, Idle,
            Syncing, mutex
    <2> QED BY <2>1
<1>7. ASSUME NEW s \in Source, NEW a \in Address, EditChecks(c, s, a)
      PROVE  goes
    <2>1. Leaving(c)
        BY <1>0, <1>7, RequestMoves
        DEF EditChecks, Leaving, Bearing, Inside, At, Goes, Rests, LowersFlag, Idle,
            Syncing, mutex
    <2> QED BY <2>1
<1>8. CASE EditCommits(c)
    <2>1. Leaving(c)
        BY <1>0, <1>8, RequestMoves
        DEF EditCommits, Leaving, Bearing, Inside, At, Goes, Rests, LowersFlag, Idle,
            Syncing, mutex
    <2> QED BY <2>1
<1>9. ASSUME NEW s \in Source, NEW a \in Address, Adds(c, s, a)
      PROVE  goes
    <2>1. Leaving(c)
        BY <1>0, <1>9, RequestMoves
        DEF Adds, Leaving, Bearing, Inside, At, Goes, Rests, LowersFlag, Idle,
            Syncing, mutex
    <2> QED BY <2>1
<1>10. ASSUME NEW s \in Source, ListStarts(c, s)
       PROVE  goes
    <2>1. Enters(c)
        BY <1>0, <1>10 DEF ListStarts, Enters, Looked, mutex
    <2> QED BY <2>1
<1>11. CASE SyncFetches(c)
    <2>1. Enters(c) \/ Leaving(c)
        BY <1>0, <1>11, RequestShape
        DEF SyncFetches, Enters, Leaving, Bearing, Inside, At, Rests,
            LowersFlag, Idle, Looked, mutex
    <2> QED BY <2>1
<1>12. CASE SyncLocks(c)
    <2>1. Acquires(c) /\ Keeps(c)
        BY <1>0, <1>12, RequestMoves
        DEF SyncLocks, Acquires, Keeps, Lock, Goes, At
    <2> QED BY <2>1
<1>13. CASE SyncChecks(c)
    <2>1. CASE row[caller[c].site] # None
        <3>1. Sees(c) /\ Keeps(c)
            BY <1>0, <1>13, <2>1, RequestMoves, ZenonT(60)
            DEF SyncChecks, Sees, Keeps, Goes, At, store
        <3> QED BY <3>1
    <2>2. CASE row[caller[c].site] = None
        <3>1. Leaving(c)
            BY <1>0, <1>13, <2>2
            DEF SyncChecks, Leaving, Bearing, Inside, Unlock, LowersFlag,
                Rests, Idle, At
        <3> QED BY <3>1
    <2> QED BY <2>1, <2>2
<1>14. CASE SyncApplies(c)
    <2>1. Leaving(c)
        BY <1>0, <1>14
        DEF SyncApplies, Leaving, Bearing, Inside, Unlock, Leaves, LowersFlag,
            Rests, Idle, At
    <2> QED BY <2>1
<1> QED BY <1>1, <1>2, <1>3, <1>4, <1>5, <1>6, <1>7,
           <1>8, <1>9, <1>10, <1>11, <1>12, <1>13, <1>14 DEF Press, Sync, Edit

\* Who has a source's sync in hand.
Syncs(q, s) ==
    /\ q.at \in {"sync", "fetch", "locks", "checks", "applies", "applied"}
    /\ q.site = s

\* A request deletes no row, and brings categories or films of a source
\* without a row only where the sync was overtaken; a flag that it leaves up
\* is its own sync's or another's.
Adding ==
    /\ \A s \in Source : row'[s] = row[s] \/ row'[s] \in Address
    /\ \A s \in Source \ overtaken' :
          \/ row'[s] # None
          \/ /\ s \notin overtaken /\ row[s] = None
             /\ tree'[s] \in {tree[s], None} /\ films'[s] \subseteq films[s]
Flagging(c) ==
    \A s \in syncing' : \/ Syncs(caller'[c], s)
                        \/ s \in syncing /\ ~Syncs(caller[c], s)

\* Syncs, edits and additions keep to it: the sync looks for the row under its
\* mutex (CollectCategory) and the edit saves the row with its data.
LEMMA RequestAdds ==
    ASSUME TypeOK, RowKept, NEW c \in Caller, Press(c) \/ Sync(c) \/ Edit(c)
    PROVE  Adding
<1>0. /\ caller \in [Caller -> Requests] /\ caller[c] \in Requests
      /\ row \in [Source -> Address \cup {None}]
      /\ tree \in [Source -> Address \cup {None}]
      /\ films \in [Source -> SUBSET Address]
      /\ None \notin Address
    BY SourceAssumption DEF TypeOK
<1>1. CASE UNCHANGED store
    BY <1>0, <1>1 DEF Adding, store
<1>2. CASE SyncApplies(c)
    <2>1. /\ row' = row /\ caller[c].site \in Source
          /\ caller[c].addr \in Address
        BY <1>0, <1>2, RequestShape DEF SyncApplies, At
    <2>2. CASE UNCHANGED <<tree, films, overtaken>>
        BY <1>0, <2>1, <2>2 DEF Adding
    <2> DEFINE site == caller[c].site
    <2>3. CASE /\ tree' = [tree EXCEPT ![site] = caller[c].addr]
               /\ films' = IF caller[c].confirm = "clear" /\ Differs(c)
                           THEN [films EXCEPT ![site] = {}] ELSE films
               /\ overtaken' = IF caller[c].mutex = Looked(site)
                               THEN overtaken \ {site}
                               ELSE overtaken \cup {site}
        <3>1. ASSUME NEW s \in Source \ overtaken', s # site
              PROVE  /\ s \notin overtaken
                     /\ tree'[s] = tree[s] /\ films'[s] = films[s]
            BY <1>0, <2>1, <2>3, <3>1
        <3>2. site \notin overtaken' => row[site] # None
            BY <1>2, <2>3 DEF RowKept, SyncApplies
        <3> QED BY <1>0, <2>1, <3>1, <3>2 DEF Adding
    <2> QED BY <1>2, <2>2, <2>3 DEF SyncApplies
<1>3. CASE EditCommits(c)
    <2>1. caller[c].site \in Source /\ caller[c].addr \in Address
        BY <1>0, <1>3, RequestShape DEF EditCommits, At
    <2> QED BY <1>0, <1>1, <1>3, <2>1 DEF EditCommits, Adding, store
<1>4. ASSUME NEW s \in Source, NEW a \in Address, Adds(c, s, a)
      PROVE  Adding
    BY <1>0, <1>4 DEF Adds, Adding
<1>5. \/ UNCHANGED store \/ SyncApplies(c) \/ EditCommits(c)
      \/ \E s \in Source, a \in Address : Adds(c, s, a)
    BY DEF Press, PressChecks, PressSends, PressMarks, Sync, SyncAsked,
           SyncStarts, ListStarts, SyncFetches, SyncLocks, SyncChecks,
           SyncEnds, Edit, EditChecks
<1> QED BY <1>1, <1>2, <1>3, <1>4, <1>5

\* The syncing flag goes with the sync: every return of SyncSourceCategories
\* lowers it.
LEMMA RequestFlags ==
    ASSUME TypeOK, NEW c \in Caller, Press(c) \/ Sync(c) \/ Edit(c)
    PROVE  Flagging(c)
<1>0. caller \in [Caller -> Requests] /\ caller[c] \in Requests
    BY DEF TypeOK
<1>1. CASE LowersFlag(c)
    BY <1>0, <1>1 DEF LowersFlag, Flagging, Syncs
<1>2. CASE syncing' = syncing /\ ~\E s \in syncing : Syncs(caller[c], s)
    BY <1>2 DEF Flagging
<1>3. CASE /\ syncing' = syncing
           /\ \A s \in syncing : Syncs(caller[c], s) => Syncs(caller'[c], s)
    BY <1>3 DEF Flagging
<1>4. ASSUME NEW s \in Source, syncing' = syncing \cup {s},
             Syncs(caller'[c], s),
             \A t \in syncing \ {s} : ~Syncs(caller[c], t)
      PROVE  Flagging(c)
    BY <1>4 DEF Flagging
<1>5. ASSUME NEW s \in Source, PressChecks(c, s)
      PROVE  Flagging(c)
    BY <1>2, <1>5 DEF PressChecks, At, Syncs, flags
<1>6. CASE PressSends(c)
    BY <1>2, <1>6 DEF PressSends, At, Syncs, flags
<1>7. CASE PressMarks(c)
    BY <1>2, <1>7 DEF PressMarks, At, Syncs, flags
<1>8. ASSUME NEW s \in Source, NEW confirm \in Confirms, SyncAsked(c, s, confirm)
      PROVE  Flagging(c)
    BY <1>2, <1>8 DEF SyncAsked, At, Syncs, flags
<1>9. ASSUME NEW s \in Source, ListStarts(c, s)
      PROVE  Flagging(c)
    BY <1>0, <1>4, <1>9 DEF ListStarts, At, Syncs
<1>10. CASE SyncStarts(c)
    <2>1. caller[c].site \in Source
        BY <1>0, <1>10, RequestShape DEF SyncStarts, At
    <2> QED BY <1>0, <1>1, <1>4, <1>10, <2>1 DEF SyncStarts, At, Syncs
<1>11. CASE SyncFetches(c)
    BY <1>0, <1>1, <1>3, <1>11 DEF SyncFetches, At, Syncs
<1>12. CASE SyncLocks(c)
    <2>1. caller'[c].at = "checks" /\ caller'[c].site = caller[c].site
        BY <1>0, <1>12, RequestMoves DEF SyncLocks, At, Goes
    <2> QED BY <1>3, <1>12, <2>1 DEF SyncLocks, At, Syncs, flags
<1>13. CASE SyncChecks(c)
    <2>1. CASE Goes(c, "applies") /\ UNCHANGED syncing
        <3>1. caller'[c].at = "applies" /\ caller'[c].site = caller[c].site
            BY <1>0, <1>13, <2>1, RequestMoves DEF SyncChecks, At, Goes
        <3> QED BY <1>3, <1>13, <2>1, <3>1 DEF SyncChecks, At, Syncs
    <2> QED BY <1>1, <1>13, <2>1 DEF SyncChecks
<1>14. CASE SyncApplies(c)
    <2>1. CASE Leaves(c, "applied") /\ UNCHANGED syncing
        BY <1>0, <1>3, <1>14, <2>1 DEF SyncApplies, At, Leaves, Syncs
    <2> QED BY <1>1, <1>14, <2>1 DEF SyncApplies
<1>15. CASE SyncEnds(c)
    BY <1>1, <1>15 DEF SyncEnds
<1>16. ASSUME NEW s \in Source, NEW a \in Address, EditChecks(c, s, a)
       PROVE  Flagging(c)
    BY <1>2, <1>16 DEF EditChecks, At, Syncs, flags
<1>17. CASE EditCommits(c)
    <2>1. caller[c].site \in Source
        BY <1>0, <1>17, RequestShape DEF EditCommits, At
    <2> QED BY <1>0, <1>2, <1>4, <1>17, <2>1
            DEF EditCommits, At, Syncing, Syncs
<1>18. ASSUME NEW s \in Source, NEW a \in Address, Adds(c, s, a)
       PROVE  Flagging(c)
    BY <1>0, <1>4, <1>18 DEF Adds, At, Syncing, Syncs
<1> QED BY <1>5, <1>6, <1>7, <1>8, <1>9, <1>10, <1>11, <1>12, <1>13, <1>14,
           <1>15, <1>16, <1>17, <1>18 DEF Press, Sync, Edit

-----------------------------------------------------------------------------
(* Types                                                                   *)

\* A step of a request keeps the types.
LEMMA RequestTypes ==
    ASSUME TypeOK, NEW c \in Caller, Press(c) \/ Sync(c) \/ Edit(c)
    PROVE  TypeOK'
<1> USE SourceAssumption
<1>0. /\ caller[c] \in Requests
      /\ UNCHANGED <<gate, worker, run, active, deletions, occupied>>
      /\ caller' \in [Caller -> Requests]
    BY RequestSteps DEF TypeOK
<1>1. CASE UNCHANGED <<store, flags, queue, held, additions>>
    BY <1>0, <1>1 DEF TypeOK, store, flags
<1>2. CASE PressSends(c)
    <2>1. caller[c].site \in Source
        BY <1>0, <1>2, RequestShape DEF PressSends, At
    <2>2. queue' \in Seq(Source) /\ Len(queue') <= Capacity
        <3>1. queue \in Seq(Source) /\ Len(queue) <= Capacity
            BY DEF TypeOK
        <3>2. CASE queue' = queue
            BY <3>1, <3>2
        <3>3. CASE /\ Len(queue) < Capacity
                   /\ queue' = Append(queue, caller[c].site)
            BY <2>1, <3>1, <3>3
        <3> QED BY <1>2, <3>2, <3>3 DEF PressSends
    <2>3. UNCHANGED <<store, flags, held, additions>>
        BY <1>2 DEF PressSends, mutex, counts
    <2> QED BY <1>0, <2>2, <2>3 DEF TypeOK, store, flags
<1>3. CASE PressMarks(c)
    <2>1. caller[c].site \in Source
        BY <1>0, <1>3, RequestShape DEF PressMarks, At
    <2> QED BY <1>0, <1>3, <2>1 DEF PressMarks, TypeOK, store, mutex, counts
<1>4. ASSUME NEW s \in Source, ListStarts(c, s)
      PROVE  TypeOK'
    BY <1>0, <1>4 DEF ListStarts, TypeOK, store, mutex, counts
<1>5. CASE SyncStarts(c)
    <2>1. caller[c].site \in Source
        BY <1>0, <1>5, RequestShape DEF SyncStarts, At
    <2>2. syncing' \subseteq Source
        BY <1>5, <2>1 DEF SyncStarts, LowersFlag, TypeOK
    <2> QED BY <1>0, <1>5, <2>2 DEF SyncStarts, TypeOK, store, mutex, counts
<1>6. CASE SyncFetches(c)
    <2>1. syncing' \subseteq Source
        BY <1>6 DEF SyncFetches, LowersFlag, TypeOK
    <2> QED BY <1>0, <1>6, <2>1 DEF SyncFetches, TypeOK, store, mutex, counts
<1>7. CASE SyncLocks(c)
    <2>1. caller[c].mutex \in Source \X (0 .. Deletions)
        BY <1>0, <1>7, RequestShape DEF SyncLocks, At
    <2> QED BY <1>0, <1>7, <2>1 DEF SyncLocks, Lock, TypeOK, store, flags, counts
<1>8. CASE SyncChecks(c)
    <2>1. syncing' \subseteq Source /\ held' \subseteq held
        BY <1>8 DEF SyncChecks, LowersFlag, Unlock, TypeOK
    <2> QED BY <1>0, <1>8, <2>1 DEF SyncChecks, TypeOK, store, counts
<1>9. CASE SyncApplies(c)
    <2>1. caller[c].site \in Source /\ caller[c].addr \in Address
        BY <1>0, <1>9, RequestShape DEF SyncApplies, At
    <2>2. /\ tree' \in [Source -> Address \cup {None}]
          /\ films' \in [Source -> SUBSET Address]
          /\ overtaken' \subseteq Source
        BY <1>9, <2>1 DEF SyncApplies, TypeOK
    <2>3. syncing' \subseteq Source /\ held' \subseteq held
        BY <1>9 DEF SyncApplies, LowersFlag, Unlock, TypeOK
    <2>4. UNCHANGED <<row, deleting, queue, additions>>
        BY <1>9 DEF SyncApplies, counts
    <2> QED BY <1>0, <2>2, <2>3, <2>4 DEF TypeOK
<1>10. CASE SyncEnds(c)
    <2>1. syncing' \subseteq Source
        BY <1>10 DEF SyncEnds, LowersFlag, TypeOK
    <2> QED BY <1>0, <1>10, <2>1 DEF SyncEnds, TypeOK, store, mutex, counts
<1>11. CASE EditCommits(c)
    <2>1. caller[c].site \in Source /\ caller[c].addr \in Address
        BY <1>0, <1>11, RequestShape DEF EditCommits, At
    <2>2. /\ row' \in [Source -> Address \cup {None}]
          /\ tree' \in [Source -> Address \cup {None}]
          /\ films' \in [Source -> SUBSET Address]
          /\ syncing' \subseteq Source /\ overtaken' = overtaken
        BY <1>11, <2>1, ZenonT(60) DEF EditCommits, TypeOK, store
    <2>3. UNCHANGED <<deleting, queue, held, additions>>
        BY <1>11 DEF EditCommits, mutex, counts
    <2> QED BY <1>0, <2>2, <2>3 DEF TypeOK
<1>12. ASSUME NEW s \in Source, NEW a \in Address, Adds(c, s, a)
       PROVE  TypeOK'
    BY <1>0, <1>12 DEF Adds, TypeOK, mutex
<1>13. ASSUME NEW s \in Source, PressChecks(c, s)
       PROVE  TypeOK'
    BY <1>1, <1>13 DEF PressChecks, mutex, counts
<1>14. ASSUME NEW s \in Source, NEW confirm \in Confirms, SyncAsked(c, s, confirm)
       PROVE  TypeOK'
    BY <1>1, <1>14 DEF SyncAsked, mutex, counts
<1>15. ASSUME NEW s \in Source, NEW a \in Address, EditChecks(c, s, a)
       PROVE  TypeOK'
    BY <1>1, <1>15 DEF EditChecks, mutex, counts
<1> QED BY <1>2, <1>3, <1>4, <1>5, <1>6, <1>7, <1>8, <1>9, <1>10, <1>11, <1>12,
           <1>13, <1>14, <1>15 DEF Press, Sync, Edit

\* A step of the deletion worker keeps the types; the count of its deletions
\* bounds the replaced mutexes.
LEMMA WorkerTypes ==
    ASSUME TypeOK, Counted, Delete
    PROVE  TypeOK'
<1> USE SourceAssumption
<1>0. worker \in Deleting /\ (worker.at # "idle" => worker.site \in Source)
    BY WorkerShape DEF TypeOK
<1>l. worker.at # "idle" => /\ Looked(worker.site) \in Source \X (0 .. Deletions)
                            /\ \A place \in {"forgets", "ends"} :
                                  [at |-> place, site |-> worker.site] \in Deleting
    BY <1>0 DEF Looked, TypeOK, Deleting
<1>i. Idle \in Deleting
    BY DEF Deleting
<1>1. CASE WorkerTakes
    <2>1. Head(queue) \in Source /\ Tail(queue) \in Seq(Source)
          /\ Len(Tail(queue)) <= Capacity
        BY <1>1 DEF WorkerTakes, TypeOK
    <2>2. [at |-> "waits", site |-> Head(queue)] \in Deleting
        BY <2>1 DEF Deleting
    <2>3. deletions + 1 \in 0 .. Deletions
        BY <1>1 DEF WorkerTakes, TypeOK
    <2> QED BY <1>1, <2>1, <2>2, <2>3 DEF WorkerTakes, TypeOK, store, mutex
<1>2. CASE WorkerWaits
    <2>1. [at |-> "locks", site |-> worker.site, mutex |-> Looked(worker.site)]
             \in Deleting
        BY <1>0, <1>l, <1>2 DEF WorkerWaits, Worker, Deleting
    <2>2. worker' \in Deleting
        BY <1>l, <1>2, <2>1 DEF WorkerWaits, WorkerLeaves, Worker
    <2> QED BY <1>2, <2>2 DEF WorkerWaits, TypeOK, store, flags, mutex, counts
<1>3. CASE WorkerLocks
    <2>1. [worker EXCEPT !.at = "checks"] \in Deleting
        BY <1>0, <1>3, WorkerMoves DEF WorkerLocks, Worker
    <2>2. worker.mutex \in Source \X (0 .. Deletions)
        BY <1>0, <1>3, WorkerShape DEF WorkerLocks, Worker
    <2> QED BY <1>3, <2>1, <2>2
            DEF WorkerLocks, WorkerGoes, Lock, TypeOK, store, flags, counts
<1>4. CASE WorkerChecks
    <2>1. [worker EXCEPT !.at = "occupies"] \in Deleting
        BY <1>0, <1>4, WorkerMoves DEF WorkerChecks, Worker
    <2>2. worker' \in Deleting /\ held' \subseteq held
        BY <1>l, <1>4, <2>1 DEF WorkerChecks, WorkerGoes, WorkerLeaves, Unlock, Worker
    <2> QED BY <1>4, <2>2 DEF WorkerChecks, TypeOK, store, flags, counts
<1>5. CASE WorkerOccupies
    <2>1. [worker EXCEPT !.at = "purges"] \in Deleting
        BY <1>0, <1>5, WorkerMoves DEF WorkerOccupies, Worker
    <2>2. /\ worker' \in Deleting /\ held' \subseteq held
          /\ active' \subseteq Source
        BY <1>0, <1>l, <1>5, <2>1, ZenonT(60)
        DEF WorkerOccupies, WorkerGoes, WorkerLeaves, Unlock, Worker, TypeOK
    <2> QED BY <1>5, <2>2 DEF WorkerOccupies, TypeOK, store, flags, counts
<1>6. CASE WorkerPurges
    <2>1. worker' \in Deleting /\ held' \subseteq held
        BY <1>l, <1>6 DEF WorkerPurges, WorkerLeaves, Unlock, Worker
    <2>2. /\ row' \in [Source -> Address \cup {None}]
          /\ tree' \in [Source -> Address \cup {None}]
          /\ films' \in [Source -> SUBSET Address]
          /\ overtaken' \subseteq Source /\ syncing' \subseteq Source
        BY <1>6 DEF WorkerPurges, Purged, TypeOK, store
    <2> QED BY <1>6, <2>1, <2>2 DEF WorkerPurges, TypeOK, counts
<1>7. CASE WorkerForgets
    <2>1. worker' \in Deleting
        BY <1>l, <1>7 DEF WorkerForgets, WorkerLeaves, Worker
    <2>2. gate[worker.site] + 1 \in 0 .. Deletions
        BY <1>0, <1>7 DEF WorkerForgets, Worker, Counted, TypeOK
    <2>3. gate' \in [Source -> 0 .. Deletions]
        BY <1>7, <2>2 DEF WorkerForgets, ForgetGate, TypeOK
    <2> QED BY <1>7, <2>1, <2>3 DEF WorkerForgets, TypeOK, store, flags, counts
<1>8. CASE WorkerEnds
    BY <1>i, <1>8 DEF WorkerEnds, TypeOK, store, mutex, counts
<1> QED BY <1>1, <1>2, <1>3, <1>4, <1>5, <1>6, <1>7, <1>8 DEF Delete

\* A step of a collect run keeps the types and touches no other run.
LEMMA RunTypes ==
    ASSUME TypeOK, NEW s \in Source, Run(s)
    PROVE  /\ TypeOK'
           /\ \A t \in Source \ {s} : run'[t] = run[t]
<1>0. run \in [Source -> Collecting] /\ run[s] \in Collecting
    BY DEF TypeOK
<1>i. Idle \in Collecting
    BY DEF Collecting
<1>1. CASE RunClaims(s)
    <2>1. [run[s] EXCEPT !.at = "claimed"] \in Collecting
        BY <1>0, <1>1, RunMoves DEF RunClaims, Runs
    <2> QED BY <1>0, <1>1, <2>1 DEF RunClaims, TypeOK, store, flags, mutex, counts
<1>2. CASE RunLoads(s)
    <2>1. row[s] # None => [at |-> "loaded", addr |-> row[s]] \in Collecting
        BY DEF TypeOK, Collecting
    <2>2. run' \in [Source -> Collecting] /\ occupied' \subseteq Source
          /\ \A t \in Source \ {s} : run'[t] = run[t]
        BY <1>0, <1>i, <1>2, <2>1 DEF RunLoads, RunRests, TypeOK
    <2> QED BY <1>2, <2>2 DEF RunLoads, TypeOK, store, flags, mutex, counts
<1>3. CASE RunBegins(s)
    <2>1. [run[s] EXCEPT !.at = "begun"] \in Collecting
        BY <1>0, <1>3, RunMoves DEF RunBegins, Runs
    <2>2. run' \in [Source -> Collecting] /\ occupied' \subseteq Source
          /\ active' \subseteq Source
          /\ \A t \in Source \ {s} : run'[t] = run[t]
        BY <1>0, <1>i, <1>3, <2>1 DEF RunBegins, RunRests, TypeOK
    <2> QED BY <1>3, <2>2 DEF RunBegins, TypeOK, store, flags, mutex, counts
<1>4. CASE RunReady(s)
    <2>1. [run[s] EXCEPT !.at = "collects"] \in Collecting
        BY <1>0, <1>4, RunMoves DEF RunReady, Runs
    <2> QED BY <1>0, <1>4, <2>1 DEF RunReady, TypeOK, store, flags, mutex, counts
<1>5. CASE RunSaves(s)
    <2>1. run[s].addr \in Address
        BY <1>0, <1>5, RunShape DEF RunSaves, Runs
    <2> QED BY <1>0, <1>5, <2>1 DEF RunSaves, TypeOK, flags, mutex, counts
<1>6. CASE RunEnds(s)
    BY <1>0, <1>i, <1>6 DEF RunEnds, RunRests, TypeOK, store, flags, mutex, counts
<1> QED BY <1>1, <1>2, <1>3, <1>4, <1>5, <1>6 DEF Run

-----------------------------------------------------------------------------
(* The invariant is inductive                                              *)

\* Requests keep the invariant: press, sync, edit and addition.
LEMMA RequestKeeps ==
    ASSUME SourceInv, NEW c \in Caller, Press(c) \/ Sync(c) \/ Edit(c)
    PROVE  SourceInv'
<1>0. /\ TypeOK /\ Counted /\ LookedUp /\ Exclusive /\ RowKept /\ Apart
      /\ NothingLeftBehind /\ SyncingMeansUnderWay
    BY DEF SourceInv
<1>1. /\ gate' = gate /\ worker' = worker /\ run' = run /\ active' = active
      /\ deletions' = deletions
      /\ \A d \in Caller \ {c} : caller'[d] = caller[d]
    BY <1>0, RequestSteps
<1>2. \/ Enters(c) \/ Leaving(c)
      \/ (Acquires(c) \/ Sees(c)) /\ Keeps(c)
    BY <1>0, RequestGoes
<1>3. Adding
    BY <1>0, RequestAdds
<1>4. Flagging(c)
    BY <1>0, RequestFlags
<1>5. TypeOK'
    BY <1>0, RequestTypes
<1>g. \A s \in Source : gate[s] \in Nat
    BY <1>0 DEF TypeOK
<1>6. Counted'
    BY <1>0, <1>1 DEF Counted
<1>7. LookedUp'
    <2>1. ASSUME NEW d \in Caller, caller'[d].at \in Bearing
          PROVE  \E k \in 0 .. gate[caller'[d].site] :
                    caller'[d].mutex = <<caller'[d].site, k>>
        <3>1. CASE d # c
            BY <1>0, <1>1, <2>1, <3>1 DEF LookedUp
        <3>2. CASE d = c /\ Enters(c)
            <4>1. gate[caller'[c].site] \in 0 .. gate[caller'[c].site]
                BY <1>g, <3>2 DEF Enters
            <4> QED BY <3>2, <4>1 DEF Enters, Looked
        <3>3. CASE d = c /\ (Acquires(c) \/ Sees(c)) /\ Keeps(c)
            BY <1>0, <3>3 DEF LookedUp, Acquires, Sees, Keeps, Bearing
        <3>4. CASE d = c /\ Leaving(c)
            BY <2>1, <3>4 DEF Leaving
        <3> QED BY <1>2, <3>1, <3>2, <3>3, <3>4
    <2> QED BY <1>0, <1>1, <2>1 DEF LookedUp, Looked
<1>8. Exclusive'
    <2> DEFINE inside(d) == caller'[d].at \in {"checks", "applies"}
    <2>1. ASSUME NEW d \in Caller \ {c}, inside(d)
          PROVE  Inside(d) /\ caller'[d].mutex = caller[d].mutex
        BY <1>1, <2>1 DEF Inside
    <2>2. CASE Enters(c)
        BY <1>0, <1>1, <2>1, <2>2 DEF Exclusive, Enters, Inside, WorkerInside
    <2>3. CASE Acquires(c) /\ Keeps(c)
        <3>1. /\ caller'[c].mutex = caller[c].mutex /\ caller[c].mutex \notin held
              /\ held' = held \cup {caller[c].mutex}
            BY <2>3 DEF Acquires, Keeps
        <3> QED BY <1>0, <1>1, <2>1, <3>1 DEF Exclusive, Inside, WorkerInside
    <2>4. CASE Sees(c) /\ Keeps(c)
        <3>1. /\ caller'[c].mutex = caller[c].mutex /\ Inside(c)
              /\ held' = held
            BY <2>4 DEF Sees, Keeps, Inside
        <3> QED BY <1>0, <1>1, <2>1, <3>1 DEF Exclusive, Inside, WorkerInside
    <2>5. CASE Leaving(c)
        <3>1. ~inside(c)
            BY <2>5 DEF Leaving, Bearing
        <3>2. CASE Inside(c)
            BY <1>0, <1>1, <2>1, <2>5, <3>1, <3>2
            DEF Exclusive, Leaving, Inside, WorkerInside
        <3>3. CASE ~Inside(c)
            BY <1>0, <1>1, <2>1, <2>5, <3>1, <3>3
            DEF Exclusive, Leaving, Inside, WorkerInside
        <3> QED BY <3>2, <3>3
    <2> QED BY <1>2, <2>2, <2>3, <2>4, <2>5
<1>9. RowKept'
    <2> SUFFICES ASSUME NEW d \in Caller, caller'[d].at = "applies",
                        caller'[d].mutex = <<caller'[d].site,
                                             gate[caller'[d].site]>>
                 PROVE  row'[caller'[d].site] # None
        BY <1>1 DEF RowKept, At, Looked
    <2>1. caller'[d].site \in Source
        BY <1>5, RequestShape DEF TypeOK
    <2>2. CASE d # c
        <3>1. row[caller[d].site] # None
            BY <1>0, <1>1, <2>2 DEF RowKept, At, Looked
        <3>2. caller'[d].site = caller[d].site
            BY <1>1, <2>2
        <3> QED BY <1>3, <2>1, <3>1, <3>2, SourceAssumption DEF Adding
    <2>3. CASE d = c
        BY <1>2, <2>3 DEF Enters, Acquires, Sees, Keeps, Leaving, Bearing
    <2> QED BY <2>2, <2>3
<1>10. Apart'
    <2>1. ASSUME NEW s \in Source \ overtaken', run[s].at = "collects"
          PROVE  row'[s] # None
        BY <1>0, <1>3, <2>1 DEF Apart, Runs, Adding
    <2> QED BY <1>0, <1>1, <2>1 DEF Apart, Runs
<1>11. NothingLeftBehind'
    BY <1>0, <1>3 DEF NothingLeftBehind, Adding
<1>12. SyncingMeansUnderWay'
    <2> SUFFICES ASSUME NEW s \in syncing'
                 PROVE  \E d \in Caller : Syncs(caller'[d], s)
        BY DEF SyncingMeansUnderWay, Syncs
    <2>1. CASE Syncs(caller'[c], s)
        BY <2>1
    <2>2. CASE s \in syncing /\ ~Syncs(caller[c], s)
        <3>1. PICK d \in Caller : Syncs(caller[d], s)
            BY <1>0, <2>2 DEF SyncingMeansUnderWay, Syncs
        <3>2. d # c
            BY <2>2, <3>1
        <3>3. caller'[d] = caller[d]
            BY <1>1, <3>2
        <3> QED BY <3>1, <3>3
    <2> QED BY <1>4, <2>1, <2>2 DEF Flagging
<1> QED BY <1>5, <1>6, <1>7, <1>8, <1>9, <1>10, <1>11, <1>12 DEF SourceInv

\* The deletion worker keeps it: it purges under the mutex that stands, and
\* forgets the mutex only after the purge (DropSourceRuntime).
LEMMA WorkerKeeps ==
    ASSUME SourceInv, Delete
    PROVE  SourceInv'
<1>0. /\ TypeOK /\ Counted /\ LookedUp /\ Exclusive /\ RowKept /\ Apart
      /\ NothingLeftBehind /\ SyncingMeansUnderWay
    BY DEF SourceInv
<1>1. /\ TypeOK' /\ caller' = caller /\ run' = run
      /\ worker \in Deleting
      /\ \A s \in Source : gate[s] \in Nat
      /\ deletions \in Nat
    BY <1>0, WorkerTypes
    DEF Delete, WorkerTakes, WorkerWaits, WorkerLocks, WorkerChecks,
        WorkerOccupies, WorkerPurges, WorkerForgets, WorkerEnds, TypeOK
<1>2. worker.at # "idle" => worker.site \in Source
    BY <1>1, WorkerShape
<1>t. ASSUME Worker("locks") \/ Worker("checks") \/ Worker("occupies"),
             NEW place \in {"checks", "occupies", "purges"},
             WorkerGoes(place)
      PROVE  /\ worker'.at = place /\ worker'.site = worker.site
             /\ worker'.mutex = worker.mutex
    BY <1>1, <1>t, WorkerMoves DEF Worker, WorkerGoes
<1>3. CASE WorkerTakes
    <2>1. Counted'
        BY <1>0, <1>1, <1>3 DEF WorkerTakes, Counted, mutex
    <2>2. LookedUp' /\ Exclusive' /\ RowKept'
        BY <1>0, <1>1, <1>3
        DEF WorkerTakes, LookedUp, Looked, Exclusive, RowKept, Inside,
            WorkerInside, At, store, mutex
    <2>3. Apart' /\ NothingLeftBehind' /\ SyncingMeansUnderWay'
        BY <1>0, <1>1, <1>3
        DEF WorkerTakes, Apart, NothingLeftBehind, SyncingMeansUnderWay, Runs,
            store
    <2> QED BY <1>1, <2>1, <2>2, <2>3 DEF SourceInv
<1>4. CASE WorkerWaits
    <2>1. Counted'
        BY <1>0, <1>1, <1>4
        DEF WorkerWaits, WorkerLeaves, Worker, Counted, mutex, counts
    <2>2. LookedUp' /\ Exclusive' /\ RowKept'
        BY <1>0, <1>1, <1>4
        DEF WorkerWaits, WorkerLeaves, LookedUp, Looked, Exclusive, RowKept,
            Inside, WorkerInside, At, store, mutex
    <2>3. Apart' /\ NothingLeftBehind' /\ SyncingMeansUnderWay'
        BY <1>0, <1>1, <1>4
        DEF WorkerWaits, WorkerLeaves, Apart, NothingLeftBehind,
            SyncingMeansUnderWay, Runs, store, flags
    <2> QED BY <1>1, <2>1, <2>2, <2>3 DEF SourceInv
<1>5. CASE WorkerLocks
    <2>0. /\ worker'.at = "checks" /\ worker'.site = worker.site
          /\ worker'.mutex = worker.mutex
          /\ worker.mutex \notin held /\ held' = held \cup {worker.mutex}
        BY <1>t, <1>5 DEF WorkerLocks, Lock
    <2>1. Counted'
        BY <1>0, <1>1, <1>5, <2>0 DEF WorkerLocks, Worker, Counted, counts
    <2>2. LookedUp'
        BY <1>0, <1>1, <1>5, <2>0 DEF WorkerLocks, Worker, LookedUp, Looked
    <2>3. Exclusive' /\ RowKept'
        BY <1>0, <1>1, <1>5, <2>0
        DEF WorkerLocks, Exclusive, RowKept, Inside, WorkerInside, At, Looked,
            store
    <2>4. Apart' /\ NothingLeftBehind' /\ SyncingMeansUnderWay'
        BY <1>0, <1>1, <1>5, <2>0
        DEF WorkerLocks, Apart, NothingLeftBehind, SyncingMeansUnderWay, Runs,
            store, flags
    <2> QED BY <1>1, <2>1, <2>2, <2>3, <2>4 DEF SourceInv
<1>6. ASSUME \/ WorkerChecks
             \/ WorkerOccupies
      PROVE  SourceInv'
    <2>1. /\ UNCHANGED <<row, tree, films, overtaken, gate, syncing, deletions>>
          /\ worker.at \in {"checks", "occupies"}
        BY <1>6 DEF WorkerChecks, WorkerOccupies, Worker, store, flags, counts
    <2>2. CASE /\ worker'.at = "ends" /\ active' = active
               /\ held' = held \ {worker.mutex}
        <3>1. Counted' /\ LookedUp' /\ RowKept'
            BY <1>0, <1>1, <2>1, <2>2
            DEF Counted, LookedUp, RowKept, Looked, At
        <3>2. Exclusive'
            BY <1>0, <1>1, <2>1, <2>2 DEF Exclusive, Inside, WorkerInside
        <3>3. Apart' /\ NothingLeftBehind' /\ SyncingMeansUnderWay'
            BY <1>0, <1>1, <2>1, <2>2
            DEF Apart, NothingLeftBehind, SyncingMeansUnderWay, Runs
        <3> QED BY <1>1, <3>1, <3>2, <3>3 DEF SourceInv
    <2>3. CASE /\ worker'.at \in {"occupies", "purges"}
               /\ worker'.site = worker.site /\ worker'.mutex = worker.mutex
               /\ held' = held
               /\ \/ worker'.at = "occupies" /\ active' = active
                  \/ worker.site \notin active
                     /\ active' = active \cup {worker.site}
        <3>1. Counted' /\ LookedUp' /\ RowKept'
            BY <1>0, <1>1, <2>1, <2>3
            DEF Counted, LookedUp, RowKept, Looked, At
        <3>2. Exclusive'
            BY <1>0, <1>1, <2>1, <2>3 DEF Exclusive, Inside, WorkerInside
        <3>3. Apart'
            BY <1>0, <1>1, <2>1, <2>3 DEF Apart, Runs
        <3>4. NothingLeftBehind' /\ SyncingMeansUnderWay'
            BY <1>0, <1>1, <2>1 DEF NothingLeftBehind, SyncingMeansUnderWay
        <3> QED BY <1>1, <3>1, <3>2, <3>3, <3>4 DEF SourceInv
    <2> QED BY <1>6, <1>t, <2>2, <2>3
            DEF WorkerChecks, WorkerOccupies, WorkerLeaves, Unlock
<1>7. CASE WorkerPurges
    <2>0. /\ worker.at = "purges" /\ worker.site \in Source
          /\ worker'.at \in {"forgets", "ends"}
          /\ active' = active \ {worker.site}
          /\ held' = held \ {worker.mutex}
          /\ gate' = gate /\ deletions' = deletions
        BY <1>2, <1>7
        DEF WorkerPurges, Worker, WorkerLeaves, Unlock, counts
    <2>1. Counted' /\ LookedUp'
        BY <1>0, <1>1, <2>0 DEF Counted, LookedUp, Looked
    <2>2. Exclusive'
        BY <1>0, <1>1, <2>0 DEF Exclusive, Inside, WorkerInside
    <2>3. ASSUME NEW c \in Caller, At(c, "applies"),
                 caller[c].mutex = Looked(caller[c].site)
          PROVE  caller[c].site # worker.site
        BY <1>0, <2>0, <2>3 DEF Exclusive, LookedUp, Inside, WorkerInside, At
    <2>4. \A s \in Source : run[s].at \in {"begun", "collects"} =>
             s # worker.site
        BY <1>0, <2>0 DEF Apart
    <2>5. CASE UNCHANGED <<row, tree, films, overtaken, syncing>>
        BY <1>0, <1>1, <2>0, <2>1, <2>2, <2>4, <2>5
        DEF SourceInv, RowKept, At, Looked, Apart, Runs, NothingLeftBehind,
            SyncingMeansUnderWay
    <2>6. CASE Purged(worker.site) /\ syncing' = syncing \ {worker.site}
        <3>1. \A s \in Source \ {worker.site} :
                 /\ row'[s] = row[s] /\ tree'[s] = tree[s]
                 /\ films'[s] = films[s]
                 /\ s \in overtaken' <=> s \in overtaken
            BY <1>0, <2>6 DEF Purged, TypeOK
        <3>2. tree'[worker.site] = None /\ films'[worker.site] = {}
            BY <1>0, <2>0, <2>6 DEF Purged, TypeOK
        <3>3. RowKept'
            <4> SUFFICES ASSUME NEW c \in Caller, At(c, "applies"),
                                caller[c].mutex = Looked(caller[c].site)
                         PROVE  row'[caller[c].site] # None
                BY <1>1, <2>0 DEF RowKept, At, Looked
            <4>1. caller[c].site \in Source
                BY <1>0, RequestShape DEF TypeOK, At
            <4> QED BY <1>0, <2>3, <3>1, <4>1 DEF RowKept
        <3>4. Apart'
            BY <1>0, <1>1, <2>0, <2>4, <3>1 DEF Apart, Runs
        <3>5. NothingLeftBehind'
            BY <1>0, <3>1, <3>2 DEF NothingLeftBehind
        <3>6. SyncingMeansUnderWay'
            BY <1>0, <1>1, <2>6 DEF SyncingMeansUnderWay
        <3> QED BY <1>1, <2>1, <2>2, <3>3, <3>4, <3>5, <3>6 DEF SourceInv
    <2> QED BY <1>7, <2>5, <2>6 DEF WorkerPurges, store
<1>8. CASE WorkerForgets
    <2>0. /\ worker.at = "forgets" /\ worker'.at = "ends"
          /\ worker.site \in Source
          /\ UNCHANGED <<row, tree, films, overtaken, syncing, active, held,
                         deletions>>
        BY <1>2, <1>8
        DEF WorkerForgets, Worker, WorkerLeaves, store, flags, counts
    <2>1. /\ \A s \in Source \ {worker.site} : gate'[s] = gate[s]
          /\ gate'[worker.site] = gate[worker.site] + 1
        BY <1>0, <1>8, <2>0 DEF WorkerForgets, ForgetGate, TypeOK
    <2>2. Counted'
        BY <1>0, <1>1, <2>0, <2>1 DEF Counted
    <2>3. ASSUME NEW c \in Caller, caller[c].at \in Bearing
          PROVE  /\ caller[c].site \in Source
                 /\ \E k \in 0 .. gate[caller[c].site] :
                       /\ caller[c].mutex = <<caller[c].site, k>>
                       /\ k \in 0 .. gate'[caller[c].site]
                       /\ caller[c].site = worker.site =>
                             k # gate'[caller[c].site]
        <3>1. caller[c].site \in Source
            BY <1>0, <2>3, RequestShape DEF TypeOK, Bearing
        <3>2. PICK k \in 0 .. gate[caller[c].site] :
                 caller[c].mutex = <<caller[c].site, k>>
            BY <1>0, <2>3 DEF LookedUp
        <3> QED BY <1>1, <2>1, <3>1, <3>2
    <2>4. LookedUp'
        BY <1>1, <2>0, <2>3 DEF LookedUp
    <2>5. RowKept'
        <3> SUFFICES ASSUME NEW c \in Caller, At(c, "applies"),
                            caller[c].mutex = <<caller[c].site,
                                                gate'[caller[c].site]>>
                     PROVE  row[caller[c].site] # None
            BY <1>1, <2>0 DEF RowKept, At, Looked
        <3>1. caller[c].site \in Source /\ caller[c].site # worker.site
            BY <2>3 DEF At, Bearing
        <3> QED BY <1>0, <2>1, <3>1 DEF RowKept, Looked
    <2>6. Exclusive' /\ Apart' /\ NothingLeftBehind' /\ SyncingMeansUnderWay'
        BY <1>0, <1>1, <2>0
        DEF Exclusive, Apart, NothingLeftBehind, SyncingMeansUnderWay, Inside,
            WorkerInside, Runs
    <2> QED BY <1>1, <2>2, <2>4, <2>5, <2>6 DEF SourceInv
<1>9. CASE WorkerEnds
    <2>1. /\ worker'.at = "idle"
          /\ UNCHANGED <<row, tree, films, overtaken, syncing, active, gate, held,
                         deletions>>
        BY <1>9 DEF WorkerEnds, Idle, store, mutex, counts
    <2>2. Counted' /\ LookedUp' /\ RowKept'
        BY <1>0, <1>1, <2>1 DEF Counted, LookedUp, RowKept, Looked, At
    <2>3. Exclusive' /\ Apart' /\ NothingLeftBehind' /\ SyncingMeansUnderWay'
        BY <1>0, <1>1, <2>1
        DEF Exclusive, Apart, NothingLeftBehind, SyncingMeansUnderWay, Inside,
            WorkerInside, Runs
    <2> QED BY <1>1, <2>2, <2>3 DEF SourceInv
<1> QED BY <1>3, <1>4, <1>5, <1>6, <1>7, <1>8, <1>9 DEF Delete

\* A collect run keeps it: it begins only on a source nobody occupies
\* (beginSource) and collects only once there are categories.
LEMMA RunKeeps ==
    ASSUME SourceInv, NEW s \in Source, Run(s)
    PROVE  SourceInv'
<1>0. /\ TypeOK /\ Counted /\ LookedUp /\ Exclusive /\ RowKept /\ Apart
      /\ NothingLeftBehind /\ SyncingMeansUnderWay
    BY DEF SourceInv
<1>1. /\ TypeOK' /\ run[s] \in Collecting
      /\ \A t \in Source \ {s} : run'[t] = run[t]
    BY <1>0, RunTypes DEF TypeOK
<1>2. UNCHANGED <<row, tree, overtaken, syncing, gate, held, caller, worker,
                  deletions>>
    BY DEF Run, RunClaims, RunLoads, RunBegins, RunReady, RunSaves, RunEnds,
           store, flags, mutex, counts
<1>3. Counted' /\ LookedUp' /\ RowKept'
    BY <1>0, <1>2 DEF Counted, LookedUp, RowKept, Looked, At
<1>4. Exclusive' /\ SyncingMeansUnderWay'
    BY <1>0, <1>2 DEF Exclusive, SyncingMeansUnderWay, Inside, WorkerInside
<1>5. NothingLeftBehind'
    <2>1. CASE RunSaves(s)
        <3>1. \A t \in Source \ {s} : films'[t] = films[t]
            BY <1>0, <2>1 DEF RunSaves, TypeOK
        <3>2. s \notin overtaken => row[s] # None
            BY <1>0, <2>1 DEF Apart, RunSaves
        <3> QED BY <1>0, <1>2, <3>1, <3>2 DEF NothingLeftBehind
    <2>2. CASE films' = films
        BY <1>0, <1>2, <2>2 DEF NothingLeftBehind
    <2> QED BY <2>1, <2>2 DEF Run, RunClaims, RunLoads, RunBegins, RunReady,
                              RunEnds, store
<1>6. Apart'
    <2>1. CASE run'[s].at \notin {"begun", "collects"} /\ active' = active
        BY <1>0, <1>1, <1>2, <2>1 DEF Apart, Runs
    <2>2. CASE RunBegins(s) /\ s \notin active
        <3>1. run'[s].at = "begun" /\ active' = active \cup {s}
            <4>1. run' = [run EXCEPT ![s] = [@ EXCEPT !.at = "begun"]]
                BY <2>2 DEF RunBegins
            <4>2. [run[s] EXCEPT !.at = "begun"].at = "begun"
                BY <1>1, <2>2, RunMoves DEF RunBegins, Runs
            <4> QED BY <1>0, <2>2, <4>1, <4>2 DEF RunBegins, TypeOK
        <3> QED BY <1>0, <1>1, <1>2, <2>2, <3>1 DEF Apart, Runs
    <2>3. CASE RunReady(s)
        <3>1. /\ run[s].at = "begun" /\ run'[s].at = "collects"
              /\ active' = active /\ tree[s] # None
            BY <1>0, <1>1, <2>3, RunMoves DEF RunReady, Runs, TypeOK
        <3>2. s \notin overtaken => row[s] # None
            BY <1>0, <3>1 DEF NothingLeftBehind
        <3> QED BY <1>0, <1>1, <1>2, <3>1, <3>2 DEF Apart, Runs
    <2>4. CASE RunSaves(s)
        BY <1>0, <1>2, <2>4 DEF Apart, Runs, RunSaves
    <2>5. CASE RunEnds(s)
        <3>1. /\ run[s].at \in {"begun", "collects"} /\ run'[s].at = "idle"
              /\ active' = active \ {s}
            BY <1>0, <2>5 DEF RunEnds, RunRests, Idle, TypeOK
        <3> QED BY <1>0, <1>1, <1>2, <3>1 DEF Apart, Runs
    <2>6. CASE RunClaims(s)
        <3>1. run'[s].at = "claimed" /\ active' = active
            BY <1>0, <1>1, <2>6, RunMoves DEF RunClaims, Runs, TypeOK
        <3> QED BY <2>1, <3>1
    <2>7. CASE RunLoads(s)
        <3>1. run'[s].at \in {"idle", "loaded"} /\ active' = active
            BY <1>0, <2>7 DEF RunLoads, RunRests, Idle, TypeOK
        <3> QED BY <2>1, <3>1
    <2>8. CASE RunBegins(s) /\ s \in active
        <3>1. run'[s].at = "idle" /\ active' = active
            BY <1>0, <2>8 DEF RunBegins, RunRests, Idle, TypeOK
        <3> QED BY <2>1, <3>1
    <2> QED BY <2>2, <2>3, <2>4, <2>5, <2>6, <2>7, <2>8 DEF Run
<1> QED BY <1>1, <1>3, <1>4, <1>5, <1>6 DEF SourceInv

\* The administration of the sources keeps its invariant in every state.
THEOREM SourceInvHolds == Spec => []SourceInv
<1>1. Init => SourceInv
    <2> SUFFICES ASSUME Init PROVE SourceInv
        OBVIOUS
    <2>1. TypeOK
        BY SourceAssumption DEF Init, TypeOK, Requests, Deleting, Collecting
    <2>2. Counted /\ LookedUp /\ Exclusive /\ RowKept /\ Apart
        BY DEF Init, Counted, LookedUp, Exclusive, RowKept, Apart, Idle, At,
               Runs, Inside, WorkerInside, Bearing
    <2>3. NothingLeftBehind /\ SyncingMeansUnderWay
        BY SourceAssumption DEF Init, NothingLeftBehind, SyncingMeansUnderWay
    <2> QED BY <2>1, <2>2, <2>3 DEF SourceInv
<1>2. SourceInv /\ [Next]_vars => SourceInv'
    <2> SUFFICES ASSUME SourceInv, [Next]_vars PROVE SourceInv'
        OBVIOUS
    <2>1. CASE UNCHANGED vars
        <3>1. TypeOK' /\ Counted' /\ LookedUp'
            BY <2>1 DEF SourceInv, vars, TypeOK, Counted, LookedUp, Looked
        <3>2. Exclusive' /\ RowKept' /\ Apart'
            BY <2>1 DEF SourceInv, vars, Exclusive, RowKept, Apart, Inside,
                        WorkerInside, At, Looked, Runs
        <3>3. NothingLeftBehind' /\ SyncingMeansUnderWay'
            BY <2>1 DEF SourceInv, vars, NothingLeftBehind, SyncingMeansUnderWay
        <3> QED BY <3>1, <3>2, <3>3 DEF SourceInv
    <2> QED BY <2>1, RequestKeeps, WorkerKeeps, RunKeeps DEF Next
<1> QED BY <1>1, <1>2, PTL DEF Spec

\* A source whose row is deleted leaves no categories and no films behind, for
\* any number of sources, requests and deletions.
THEOREM NothingLeftBehindHolds == Spec => []NothingLeftBehind
<1>1. SourceInv => NothingLeftBehind
    BY DEF SourceInv
<1> QED BY <1>1, SourceInvHolds, PTL

\* The registers keep their types, and a source shown as syncing is.
THEOREM RegistersTrueHolds == Spec => []RegistersTrue
<1>1. SourceInv => RegistersTrue
    BY DEF SourceInv, RegistersTrue
<1> QED BY <1>1, SourceInvHolds, PTL

-----------------------------------------------------------------------------
(* The poller of the notifications: the inductive invariant                *)

\* A poller, and a call of EnsureBotPoller.
Polled == [for : Address, live : BOOLEAN,
           at : {"loop", "asked", "batch", "ended"},
           offset : Nat, batch : SUBSET Nat]
Ensuring == {Bot!Idle} \cup [at : {"read"}]
                \cup [at : {"ensure", "wait"}, want : Address \cup {Off}]
                \cup [at : {"again"}, want : Address]

\* The calls that have not ended.
UnderWay == {c \in Caller : call[c] # Bot!Idle}

\* The values of the variables; a save starts one poller at most.
BotTyped ==
    /\ saved \in Address \cup {Off} /\ call \in [Caller -> Ensuring]
    /\ poller \in Seq(Polled)
    /\ polling \in [id : Nat, for : Address \cup {Off}]
    /\ polling.id <= Len(poller) /\ (polling.id = 0 <=> polling.for = Off)
    /\ pressed \in Nat /\ updates \subseteq 1 .. pressed
    /\ handled \subseteq 1 .. pressed
    /\ saves \in Nat /\ saves <= MaxSaves /\ crossed \in BOOLEAN
    /\ IsFiniteSet(UnderWay) /\ Len(poller) + Cardinality(UnderWay) <= saves
    /\ \A p \in DOMAIN poller :
          /\ poller[p].offset \in 1 .. pressed + 1
          /\ poller[p].batch \subseteq 1 .. pressed

\* A poller that has not been cancelled has dealt with what is older than its
\* offset; of what it has yet to deal with it skips nothing.
Deals(p, done, last) ==
    /\ p.at # "ended"
    /\ 1 .. p.offset - 1 \subseteq done
    /\ p.at = "batch" => \A w \in 1 .. last :
          w \in done \/ w \in p.batch \/ \A u \in p.batch : u < w
InTurn ==
    \A p \in DOMAIN poller : poller[p].live => Deals(poller[p], handled, pressed)

\* When no configuration was changed during another's call, all calls want
\* what is stored, and nothing else is polled for once one has begun to wait.
Alone ==
    ~crossed =>
       /\ {p \in DOMAIN poller : poller[p].live} = {polling.id} \ {0}
       /\ \A c \in Caller : call[c].at \in {"ensure", "wait", "again"} =>
             call[c].want = saved
       /\ \A c \in Caller : call[c].at \in {"wait", "again"} =>
             polling.for \in {Off, saved}
       /\ polling.for = saved \/ UnderWay # {}

\* The invariant.
BotInv == BotTyped /\ Bot!PressesHandled /\ InTurn /\ Alone

-----------------------------------------------------------------------------
(* The poller of the notifications: the steps                              *)

\* A poller's new state changes it alone.
LEMMA PollerMoves ==
    ASSUME poller \in Seq(Polled), NEW p \in DOMAIN poller, NEW new \in Polled,
           poller' = [poller EXCEPT ![p] = new]
    PROVE  /\ poller' \in Seq(Polled) /\ Len(poller') = Len(poller)
           /\ DOMAIN poller' = DOMAIN poller
           /\ \A o \in DOMAIN poller : poller'[o] = IF o = p THEN new ELSE poller[o]
           /\ DOMAIN poller = 1 .. Len(poller) /\ poller[p] \in Polled
OBVIOUS

\* A new poller comes after the others.
LEMMA PollerJoins ==
    ASSUME poller \in Seq(Polled), NEW new \in Polled,
           poller' = Append(poller, new)
    PROVE  /\ poller' \in Seq(Polled) /\ Len(poller') = Len(poller) + 1
           /\ DOMAIN poller' = DOMAIN poller \cup {Len(poller) + 1}
           /\ \A o \in DOMAIN poller : poller'[o] = poller[o]
           /\ poller'[Len(poller) + 1] = new
           /\ DOMAIN poller = 1 .. Len(poller) /\ Len(poller) \in Nat
OBVIOUS

\* A call's new state changes it alone, and the number of calls by one.
LEMMA CallMoves ==
    ASSUME call \in [Caller -> Ensuring], IsFiniteSet(UnderWay),
           NEW c \in Caller, NEW new \in Ensuring,
           call' = [call EXCEPT ![c] = new]
    PROVE  /\ call' \in [Caller -> Ensuring]
           /\ \A o \in Caller : call'[o] = IF o = c THEN new ELSE call[o]
           /\ IsFiniteSet(UnderWay') /\ Cardinality(UnderWay) \in Nat
           /\ Cardinality(UnderWay') \in Nat
           /\ UnderWay' = IF new = Bot!Idle THEN UnderWay \ {c} ELSE UnderWay \cup {c}
           /\ call[c] # Bot!Idle /\ new # Bot!Idle =>
                 Cardinality(UnderWay') = Cardinality(UnderWay)
           /\ call[c] = Bot!Idle /\ new # Bot!Idle =>
                 Cardinality(UnderWay') = Cardinality(UnderWay) + 1
           /\ call[c] # Bot!Idle /\ new = Bot!Idle =>
                 Cardinality(UnderWay') = Cardinality(UnderWay) - 1
<1>1. /\ call' \in [Caller -> Ensuring]
      /\ \A o \in Caller : call'[o] = IF o = c THEN new ELSE call[o]
  OBVIOUS
<1>2. UnderWay' = IF new = Bot!Idle THEN UnderWay \ {c} ELSE UnderWay \cup {c}
  BY <1>1 DEF UnderWay
<1>3. c \in UnderWay <=> call[c] # Bot!Idle
  BY DEF UnderWay
<1>4. /\ Cardinality(UnderWay) \in Nat
      /\ IsFiniteSet(UnderWay \cup {c}) /\ IsFiniteSet(UnderWay \ {c})
      /\ c \notin UnderWay => Cardinality(UnderWay \cup {c}) = Cardinality(UnderWay) + 1
      /\ c \in UnderWay => Cardinality(UnderWay \ {c}) = Cardinality(UnderWay) - 1
  BY FS_CardinalityType, FS_AddElement, FS_RemoveElement
<1>5. c \in UnderWay => UnderWay \cup {c} = UnderWay
  OBVIOUS
<1>6. Cardinality(UnderWay') \in Nat /\ IsFiniteSet(UnderWay')
  BY <1>2, <1>4, FS_CardinalityType
<1> HIDE DEF UnderWay
<1> QED
  BY <1>1, <1>2, <1>3, <1>4, <1>5, <1>6

\* Of any updates there is a first, the one the loop deals with next.
LEMMA FirstPress ==
    ASSUME NEW T, T \subseteq Nat, T # {}
    PROVE  \E n \in T : \A m \in T : n <= m
<1> DEFINE R == OpToRel(<, Nat)
<1>1. IsWellFoundedOn(R, Nat)
  BY NatLessThanWellFounded
<1>2. \A x, y \in Nat : <<x, y>> \in R <=> x < y
  BY DEF OpToRel
<1> HIDE DEF R
<1>3. \E n \in T : \A m \in T : ~(<<m, n>> \in R)
  <2>1. T \subseteq Nat /\ T # {}
    OBVIOUS
  <2> QED
    BY <1>1, <2>1, WFMin, Zenon
<1>4. PICK n \in T : \A m \in T : ~(<<m, n>> \in R)
  BY <1>3
<1>5. ASSUME NEW m \in T PROVE n <= m
  <2>1. m \in Nat /\ n \in Nat
    OBVIOUS
  <2>2. ~(m < n)
    BY <1>2, <1>4, <2>1
  <2> QED
    BY <2>1, <2>2
<1> QED
  BY <1>5

\* A poller that goes on stays where it is in the sequence and is cancelled by
\* nobody.
LEMMA WorksOn ==
    ASSUME BotInv, NEW p \in DOMAIN poller, NEW new \in Polled,
           poller' = [poller EXCEPT ![p] = new], new.live = poller[p].live,
           new.offset \in 1 .. pressed + 1, new.batch \subseteq 1 .. pressed,
           UNCHANGED <<saved, call, polling, pressed, saves, crossed>>,
           updates' \subseteq updates, handled \subseteq handled',
           handled' \subseteq 1 .. pressed,
           1 .. pressed \subseteq updates' \cup handled',
           new.live => Deals(new, handled', pressed)
    PROVE  BotInv'
<1>1. /\ poller' \in Seq(Polled) /\ Len(poller') = Len(poller)
      /\ DOMAIN poller' = DOMAIN poller
      /\ \A o \in DOMAIN poller : poller'[o] = IF o = p THEN new ELSE poller[o]
  BY PollerMoves DEF BotInv, BotTyped
<1>2. UnderWay' = UnderWay
  BY DEF UnderWay
<1>3. BotTyped'
  BY <1>1, <1>2 DEF BotInv, BotTyped
<1>4. InTurn'
  <2>1. ASSUME NEW o \in DOMAIN poller, o # p, poller[o].live
        PROVE  Deals(poller[o], handled', pressed)
    BY <2>1 DEF BotInv, InTurn, Deals
  <2> QED
    BY <1>1, <2>1 DEF InTurn
<1>5. Alone'
  <2>1. {o \in DOMAIN poller' : poller'[o].live}
           = {o \in DOMAIN poller : poller[o].live}
    BY <1>1
  <2> QED
    BY <1>2, <2>1 DEF BotInv, Alone
<1>6. Bot!PressesHandled'
  BY DEF Bot!PressesHandled
<1> QED
  BY <1>3, <1>4, <1>5, <1>6 DEF BotInv

\* The steps of a poller keep the invariant.
LEMMA PollsKeepBot ==
    ASSUME BotInv, NEW p \in DOMAIN poller, Bot!Polls(p)
    PROVE  BotInv'
<1>1. /\ poller \in Seq(Polled) /\ poller[p] \in Polled
      /\ pressed \in Nat /\ updates \subseteq 1 .. pressed
      /\ handled \subseteq 1 .. pressed
      /\ poller[p].offset \in 1 .. pressed + 1 /\ poller[p].batch \subseteq 1 .. pressed
      /\ 1 .. pressed \subseteq updates \cup handled
      /\ poller[p].live => Deals(poller[p], handled, pressed)
  BY PollerMoves DEF BotInv, BotTyped, InTurn, Bot!PressesHandled
<1>2. CASE Bot!Asks(p)
  <2> DEFINE new == [poller[p] EXCEPT !.at = "asked"]
  <2>1. /\ new \in Polled /\ new.live = poller[p].live /\ new.at = "asked"
        /\ new.offset = poller[p].offset /\ new.batch = poller[p].batch
    BY <1>1 DEF Polled
  <2>2. /\ poller[p].live /\ poller' = [poller EXCEPT ![p] = new]
        /\ updates' = {u \in updates : u >= poller[p].offset} /\ handled' = handled
        /\ UNCHANGED <<saved, call, polling, pressed, saves, crossed>>
    BY <1>2 DEF Bot!Asks, Bot!bounds
  <2> HIDE DEF new
  <2>3. Deals(new, handled', pressed)
    BY <1>1, <2>1, <2>2 DEF Deals
  <2>4. 1 .. pressed \subseteq updates' \cup handled'
    <3>1. ASSUME NEW u \in updates, ~(u >= poller[p].offset)
          PROVE  u \in 1 .. poller[p].offset - 1
      <4>1. u \in 1 .. pressed /\ poller[p].offset \in Nat
        BY <1>1
      <4> HIDE DEF BotInv
      <4> QED
        BY <3>1, <4>1
    <3> QED
      BY <1>1, <2>2, <3>1 DEF Deals
  <2> QED
    BY <1>1, <2>1, <2>2, <2>3, <2>4, WorksOn
<1>3. CASE Bot!Answered(p)
  <2> DEFINE new == [poller[p] EXCEPT !.at = "batch", !.batch = updates]
  <2>1. /\ new \in Polled /\ new.live = poller[p].live /\ new.at = "batch"
        /\ new.offset = poller[p].offset /\ new.batch = updates
    <3>1. updates \subseteq Nat
      BY <1>1
    <3> QED
      BY <1>1, <3>1 DEF Polled
  <2>2. /\ poller' = [poller EXCEPT ![p] = new]
        /\ UNCHANGED <<saved, call, polling, pressed, saves, crossed, updates, handled>>
    BY <1>3 DEF Bot!Answered, Bot!bounds
  <2> HIDE DEF new
  <2>3. new.live => Deals(new, handled', pressed)
    BY <1>1, <2>1, <2>2 DEF Deals
  <2> QED
    BY <1>1, <2>1, <2>2, <2>3, WorksOn
<1>4. CASE Bot!Refused(p)
  <2> DEFINE new == [poller[p] EXCEPT !.at = "loop"]
  <2>1. /\ new \in Polled /\ new.live = poller[p].live /\ new.at = "loop"
        /\ new.offset = poller[p].offset /\ new.batch = poller[p].batch
    BY <1>1 DEF Polled
  <2>2. /\ poller' = [poller EXCEPT ![p] = new]
        /\ UNCHANGED <<saved, call, polling, pressed, saves, crossed, updates, handled>>
    BY <1>4 DEF Bot!Refused
  <2> HIDE DEF new
  <2>3. new.live => Deals(new, handled', pressed)
    BY <1>1, <2>1, <2>2 DEF Deals
  <2> QED
    BY <1>1, <2>1, <2>2, <2>3, WorksOn
<1>5. CASE Bot!Handles(p)
  <2> DEFINE u == Bot!Min(poller[p].batch)
             new == [poller[p] EXCEPT !.batch = @ \ {u},
                                      !.offset = IF u >= @ THEN u + 1 ELSE @]
  <2>1. /\ u \in poller[p].batch /\ u \in 1 .. pressed
        /\ \A w \in poller[p].batch : u <= w
    <3>1. poller[p].batch # {} /\ poller[p].batch \subseteq Nat
      BY <1>1, <1>5 DEF Bot!Handles
    <3>2. PICK n \in poller[p].batch : \A w \in poller[p].batch : n <= w
      BY <3>1, FirstPress
    <3>3. u \in poller[p].batch /\ \A w \in poller[p].batch : u <= w
      BY <3>2 DEF Bot!Min
    <3> QED
      BY <1>1, <3>3
  <2> HIDE DEF u
  <2>2. /\ new \in Polled /\ new.live = poller[p].live /\ new.at = poller[p].at
        /\ new.offset = IF u >= poller[p].offset THEN u + 1 ELSE poller[p].offset
        /\ new.batch = poller[p].batch \ {u} /\ new.offset \in 1 .. pressed + 1
    <3>1. /\ new.live = poller[p].live /\ new.at = poller[p].at
          /\ new.offset = IF u >= poller[p].offset THEN u + 1 ELSE poller[p].offset
          /\ new.batch = poller[p].batch \ {u}
      BY <1>1 DEF Polled
    <3>2. new.offset \in 1 .. pressed + 1
      <4>1. u \in 1 .. pressed /\ poller[p].offset \in 1 .. pressed + 1
        BY <1>1, <2>1
      <4> HIDE DEF new
      <4> QED
        BY <1>1, <3>1, <4>1
    <3>3. new \in Polled
      <4>1. u + 1 \in Nat
        BY <1>1, <2>1
      <4> QED
        BY <1>1, <4>1 DEF Polled
    <3> QED
      BY <3>1, <3>2, <3>3
  <2>3. /\ poller' = [poller EXCEPT ![p] = new] /\ poller[p].at = "batch"
        /\ handled' = IF poller[p].live THEN handled \cup {u} ELSE handled
        /\ UNCHANGED <<saved, call, polling, pressed, saves, crossed, updates>>
    BY <1>5 DEF Bot!Handles, Bot!bounds, u
  <2> HIDE DEF new
  <2>4. ASSUME new.live PROVE Deals(new, handled', pressed)
    <3>1. /\ Deals(poller[p], handled, pressed) /\ handled' = handled \cup {u}
      BY <1>1, <2>2, <2>3, <2>4
    <3>2. ASSUME NEW w \in 1 .. new.offset - 1 PROVE w \in handled'
      <4>1. CASE w \in 1 .. poller[p].offset - 1
        BY <3>1, <4>1 DEF Deals
      <4>2. CASE w = u
        BY <3>1, <4>2
      <4>3. CASE w \notin 1 .. poller[p].offset - 1 /\ w # u
        <5>1. w \in 1 .. pressed /\ w < u
          BY <1>1, <2>1, <2>2, <3>2, <4>3
        <5>2. w \notin poller[p].batch /\ ~(u < w)
          BY <1>1, <2>1, <5>1
        <5> QED
          BY <2>1, <2>3, <3>1, <5>1, <5>2 DEF Deals
      <4> QED
        BY <4>1, <4>2, <4>3
    <3>3. \A w \in 1 .. pressed :
             w \in handled' \/ w \in new.batch \/ \A v \in new.batch : v < w
      BY <2>2, <2>3, <3>1 DEF Deals
    <3> QED
      BY <2>2, <2>3, <3>2, <3>3 DEF Deals
  <2>5. /\ new.batch \subseteq 1 .. pressed /\ handled' \subseteq 1 .. pressed
        /\ handled \subseteq handled' /\ 1 .. pressed \subseteq updates' \cup handled'
    BY <1>1, <2>1, <2>2, <2>3
  <2> QED
    BY <1>1, <2>2, <2>3, <2>4, <2>5, WorksOn
<1>6. CASE Bot!Loops(p)
  <2> DEFINE new == [poller[p] EXCEPT !.at = "loop"]
  <2>1. /\ new \in Polled /\ new.live = poller[p].live /\ new.at = "loop"
        /\ new.offset = poller[p].offset /\ new.batch = poller[p].batch
    BY <1>1 DEF Polled
  <2>2. /\ poller' = [poller EXCEPT ![p] = new]
        /\ UNCHANGED <<saved, call, polling, pressed, saves, crossed, updates, handled>>
    BY <1>6 DEF Bot!Loops, Bot!bounds
  <2> HIDE DEF new
  <2>3. new.live => Deals(new, handled', pressed)
    BY <1>1, <2>1, <2>2 DEF Deals
  <2> QED
    BY <1>1, <2>1, <2>2, <2>3, WorksOn
<1>7. CASE Bot!Ends(p)
  <2> DEFINE new == [poller[p] EXCEPT !.at = "ended"]
  <2>1. /\ new \in Polled /\ new.live = poller[p].live
        /\ new.offset = poller[p].offset /\ new.batch = poller[p].batch
    BY <1>1 DEF Polled
  <2>2. /\ poller' = [poller EXCEPT ![p] = new] /\ ~poller[p].live
        /\ UNCHANGED <<saved, call, polling, pressed, saves, crossed, updates, handled>>
    BY <1>7 DEF Bot!Ends, Bot!bounds
  <2> HIDE DEF new
  <2> QED
    BY <1>1, <2>1, <2>2, WorksOn
<1> QED
  BY <1>2, <1>3, <1>4, <1>5, <1>6, <1>7 DEF Bot!Polls

\* What a call leaves alone: the pollers that deal with updates.
LEMMA CallsLeave ==
    ASSUME BotInv, NEW c \in Caller, NEW new \in Ensuring,
           call' = [call EXCEPT ![c] = new],
           UNCHANGED <<updates, handled, pressed>>,
           saved' \in Address \cup {Off}, crossed' \in BOOLEAN,
           polling' \in [id : Nat, for : Address \cup {Off}],
           polling'.id <= Len(poller'), polling'.id = 0 <=> polling'.for = Off,
           saves' \in Nat, saves' <= MaxSaves,
           Len(poller') + Cardinality(UnderWay') <= saves',
           poller' \in Seq(Polled),
           \A p \in DOMAIN poller' :
              \/ p \in DOMAIN poller /\ poller'[p] = poller[p]
              \/ p \in DOMAIN poller /\ poller'[p] = [poller[p] EXCEPT !.live = FALSE]
              \/ \E a \in Address : poller'[p] = Bot!New(a)
    PROVE  BotTyped' /\ InTurn' /\ Bot!PressesHandled'
<1>1. call' \in [Caller -> Ensuring] /\ IsFiniteSet(UnderWay')
  BY CallMoves DEF BotInv, BotTyped
<1>2. \A p \in DOMAIN poller' : /\ poller'[p].offset \in 1 .. pressed' + 1
                                /\ poller'[p].batch \subseteq 1 .. pressed'
  <2> SUFFICES ASSUME NEW p \in DOMAIN poller'
               PROVE  /\ poller'[p].offset \in 1 .. pressed + 1
                      /\ poller'[p].batch \subseteq 1 .. pressed
    OBVIOUS
  <2>1. CASE p \in DOMAIN poller /\ poller'[p] = poller[p]
    BY <2>1 DEF BotInv, BotTyped
  <2>2. CASE p \in DOMAIN poller /\ poller'[p] = [poller[p] EXCEPT !.live = FALSE]
    <3>1. poller[p] \in Polled
      BY <2>2, PollerMoves DEF BotInv, BotTyped
    <3>2. poller'[p].offset = poller[p].offset /\ poller'[p].batch = poller[p].batch
      BY <2>2, <3>1 DEF Polled
    <3> QED
      BY <2>2, <3>2 DEF BotInv, BotTyped
  <2>3. CASE \E a \in Address : poller'[p] = Bot!New(a)
    BY <2>3 DEF BotInv, BotTyped, Bot!New
  <2> QED
    BY <2>1, <2>2, <2>3
<1>3. BotTyped'
  BY <1>1, <1>2 DEF BotInv, BotTyped
<1>4. InTurn'
  <2> SUFFICES ASSUME NEW p \in DOMAIN poller', poller'[p].live
               PROVE  Deals(poller'[p], handled, pressed)
    BY DEF InTurn
  <2>1. CASE p \in DOMAIN poller /\ poller'[p] = poller[p]
    BY <2>1 DEF BotInv, InTurn
  <2>2. CASE p \in DOMAIN poller /\ poller'[p] = [poller[p] EXCEPT !.live = FALSE]
    <3>1. poller[p] \in Polled
      BY <2>2, PollerMoves DEF BotInv, BotTyped
    <3>2. poller'[p].live = FALSE
      BY <2>2, <3>1 DEF Polled
    <3> QED
      BY <3>2
  <2>3. CASE \E a \in Address : poller'[p] = Bot!New(a)
    BY <2>3 DEF Bot!New, Deals
  <2> QED
    BY <2>1, <2>2, <2>3
<1>5. Bot!PressesHandled'
  BY DEF BotInv, Bot!PressesHandled
<1> QED
  BY <1>3, <1>4, <1>5

\* The same of a call that starts and cancels nobody.
LEMMA CallsOnly ==
    ASSUME BotInv, NEW c \in Caller, NEW new \in Ensuring,
           call' = [call EXCEPT ![c] = new],
           UNCHANGED <<updates, handled, pressed, polling, poller>>,
           saved' \in Address \cup {Off}, crossed' \in BOOLEAN,
           saves' \in Nat, saves' <= MaxSaves,
           Len(poller) + Cardinality(UnderWay') <= saves'
    PROVE  BotTyped' /\ InTurn' /\ Bot!PressesHandled'
<1>1. /\ polling' \in [id : Nat, for : Address \cup {Off}]
      /\ polling'.id <= Len(poller') /\ (polling'.id = 0 <=> polling'.for = Off)
      /\ poller' \in Seq(Polled) /\ Len(poller') + Cardinality(UnderWay') <= saves'
  BY DEF BotInv, BotTyped
<1>2. \A p \in DOMAIN poller' : p \in DOMAIN poller /\ poller'[p] = poller[p]
  OBVIOUS
<1> QED
  BY <1>1, <1>2, CallsLeave

\* The records of a call.
LEMMA CallShape ==
    ASSUME NEW q \in Ensuring
    PROVE  /\ q.at \in {"idle", "read", "ensure", "wait", "again"}
           /\ q = Bot!Idle <=> q.at = "idle"
           /\ q.at \in {"ensure", "wait", "again"} => q.want \in Address \cup {Off}
           /\ q.at = "again" => q.want \in Address
           /\ Bot!Idle \in Ensuring /\ [at |-> "read"] \in Ensuring
           /\ \A want \in Address \cup {Off} :
                 /\ [at |-> "ensure", want |-> want] \in Ensuring
                 /\ [at |-> "wait", want |-> want] \in Ensuring
           /\ \A want \in Address : [at |-> "again", want |-> want] \in Ensuring
BY DEF Ensuring, Bot!Idle

\* The steps of a call keep the invariant.
LEMMA CallsKeepBot ==
    ASSUME BotInv, NEW c \in Caller, Bot!Calls(c)
    PROVE  BotInv'
<1>1. /\ call \in [Caller -> Ensuring] /\ call[c] \in Ensuring
      /\ poller \in Seq(Polled) /\ Len(poller) \in Nat
      /\ saved \in Address \cup {Off} /\ crossed \in BOOLEAN
      /\ polling \in [id : Nat, for : Address \cup {Off}]
      /\ polling.id <= Len(poller) /\ (polling.id = 0 <=> polling.for = Off)
      /\ saves \in Nat /\ saves <= MaxSaves /\ MaxSaves \in Nat
      /\ IsFiniteSet(UnderWay) /\ Len(poller) + Cardinality(UnderWay) <= saves
      /\ \A p \in DOMAIN poller : poller[p] \in Polled
      /\ Bot!Nobody = [id |-> 0, for |-> Off] /\ DOMAIN poller = 1 .. Len(poller)
  BY PollerAssumption DEF BotInv, BotTyped, Bot!Nobody
<1>2. ASSUME NEW want \in Bot!Setting, Bot!Saves(c, want)
      PROVE  BotInv'
  <2> DEFINE new == [at |-> "read"]
  <2>1. /\ call[c] = Bot!Idle /\ new \in Ensuring /\ new # Bot!Idle
        /\ call' = [call EXCEPT ![c] = new] /\ new.at = "read"
        /\ saved' = want /\ want \in Address \cup {Off} /\ saves' = saves + 1
        /\ saves < MaxSaves
        /\ crossed' = \/ crossed
                      \/ want # saved /\ \E o \in Caller : call[o] # Bot!Idle
        /\ UNCHANGED <<polling, poller, updates, pressed, handled>>
    BY <1>1, <1>2, CallShape DEF Bot!Saves, Bot!Setting, Bot!Idle
  <2> HIDE DEF new
  <2>2. /\ \A o \in Caller : call'[o] = IF o = c THEN new ELSE call[o]
        /\ UnderWay' = UnderWay \cup {c}
        /\ Cardinality(UnderWay') = Cardinality(UnderWay) + 1
        /\ Cardinality(UnderWay) \in Nat
    BY <1>1, <2>1, CallMoves
  <2>3. BotTyped' /\ InTurn' /\ Bot!PressesHandled'
    <3>1. /\ Len(poller) + Cardinality(UnderWay') <= saves'
          /\ saves' \in Nat /\ saves' <= MaxSaves
      BY <1>1, <2>1, <2>2
    <3>2. saved' \in Address \cup {Off} /\ crossed' \in BOOLEAN
      BY <1>1, <2>1
    <3>3. UNCHANGED <<updates, handled, pressed, polling, poller>>
      BY <2>1
    <3> QED
      BY <2>1, <3>1, <3>2, <3>3, CallsOnly
  <2>4. Alone'
    <3>1. CASE want = saved
      BY <1>1, <2>1, <2>2, <3>1 DEF BotInv, Alone
    <3>2. CASE want # saved /\ ~crossed'
      <4>1. \A o \in Caller : call[o].at = "idle"
        <5>1. \A o \in Caller : call[o] = Bot!Idle
          BY <2>1, <3>2
        <5> QED
          BY <5>1 DEF Bot!Idle
      <4> QED
        BY <1>1, <2>1, <2>2, <3>2, <4>1 DEF BotInv, Alone
    <3> QED
      BY <3>1, <3>2 DEF Alone
  <2> QED
    BY <2>3, <2>4 DEF BotInv
<1>3. CASE Bot!Reads(c)
  <2> DEFINE new == [at |-> "ensure", want |-> saved]
  <2>1. /\ call[c].at = "read" /\ new \in Ensuring /\ new # Bot!Idle
        /\ call[c] # Bot!Idle
        /\ call' = [call EXCEPT ![c] = new] /\ new.at = "ensure" /\ new.want = saved
        /\ UNCHANGED <<saved, polling, poller, updates, pressed, handled, saves,
                       crossed>>
    BY <1>1, <1>3, CallShape DEF Bot!Reads, Bot!Idle, Bot!bounds
  <2> HIDE DEF new
  <2>2. /\ \A o \in Caller : call'[o] = IF o = c THEN new ELSE call[o]
        /\ UnderWay' = UnderWay \cup {c}
        /\ Cardinality(UnderWay') = Cardinality(UnderWay)
    BY <1>1, <2>1, CallMoves
  <2>3. BotTyped' /\ InTurn' /\ Bot!PressesHandled'
    <3>1. Len(poller) + Cardinality(UnderWay') <= saves'
      BY <1>1, <2>1, <2>2
    <3> QED
      BY <1>1, <2>1, <3>1, CallsOnly
  <2>4. Alone'
    BY <1>1, <2>1, <2>2 DEF BotInv, Alone
  <2> QED
    BY <2>3, <2>4 DEF BotInv
<1>4. CASE Bot!ReadFails(c)
  <2>1. /\ call[c] # Bot!Idle /\ Bot!Idle \in Ensuring
        /\ call' = [call EXCEPT ![c] = Bot!Idle] /\ crossed' = TRUE
        /\ UNCHANGED <<saved, polling, poller, updates, pressed, handled, saves>>
    BY <1>1, <1>4, CallShape DEF Bot!ReadFails, Bot!Idle
  <2>2. /\ Cardinality(UnderWay') = Cardinality(UnderWay) - 1
        /\ Cardinality(UnderWay) \in Nat
    BY <1>1, <2>1, CallMoves
  <2>3. BotTyped' /\ InTurn' /\ Bot!PressesHandled'
    <3>1. Len(poller) + Cardinality(UnderWay') <= saves'
      BY <1>1, <2>1, <2>2
    <3> QED
      BY <1>1, <2>1, <3>1, CallsOnly
  <2>4. Alone'
    BY <2>1 DEF Alone
  <2> QED
    BY <2>3, <2>4 DEF BotInv
<1>5. CASE Bot!Ensures(c)
  <2> DEFINE current == IF polling.id # 0 /\ Bot!Ended(polling.id)
                        THEN Bot!Nobody ELSE polling
  <2>1. /\ call[c].at = "ensure" /\ call[c].want \in Address \cup {Off}
        /\ call[c] # Bot!Idle
        /\ UNCHANGED <<saved, updates, pressed, handled, saves, crossed>>
    BY <1>1, <1>5, CallShape DEF Bot!Ensures, Bot!Idle, Bot!bounds
  <2>2. ~crossed => current = polling /\ call[c].want = saved
    <3>1. ASSUME ~crossed, polling.id # 0 PROVE ~Bot!Ended(polling.id)
      <4>1. polling.id \in DOMAIN poller /\ poller[polling.id].live
        BY <1>1, <3>1 DEF BotInv, Alone
      <4> QED
        BY <4>1 DEF BotInv, InTurn, Deals, Bot!Ended
    <3>2. ~crossed => call[c].want = saved
      BY <2>1 DEF BotInv, Alone
    <3> QED
      BY <3>1, <3>2
  <2>3. CASE current # Bot!Nobody /\ current.for = call[c].want
    <3>1. /\ call' = [call EXCEPT ![c] = Bot!Idle] /\ Bot!Idle \in Ensuring
          /\ UNCHANGED <<polling, poller>>
      BY <1>1, <1>5, <2>3, CallShape DEF Bot!Ensures
    <3>2. /\ \A o \in Caller : call'[o] = IF o = c THEN Bot!Idle ELSE call[o]
          /\ UnderWay' = UnderWay \ {c}
          /\ Cardinality(UnderWay') = Cardinality(UnderWay) - 1
          /\ Cardinality(UnderWay) \in Nat
      BY <1>1, <2>1, <3>1, CallMoves
    <3>3. BotTyped' /\ InTurn' /\ Bot!PressesHandled'
      <4>1. Len(poller) + Cardinality(UnderWay') <= saves'
        BY <1>1, <2>1, <3>2
      <4> QED
        BY <1>1, <2>1, <3>1, <4>1, CallsOnly
    <3>4. Alone'
      <4>1. ~crossed => polling.for = saved
        BY <2>2, <2>3
      <4> QED
        BY <1>1, <2>1, <3>1, <3>2, <4>1 DEF BotInv, Alone, Bot!Idle
    <3> QED
      BY <3>3, <3>4 DEF BotInv
  <2>4. CASE ~(current # Bot!Nobody /\ current.for = call[c].want)
    <3> DEFINE new == [at |-> "wait", want |-> call[c].want]
    <3>1. /\ call' = [call EXCEPT ![c] = new] /\ new \in Ensuring /\ new # Bot!Idle
          /\ polling' = Bot!Nobody /\ new.at = "wait" /\ new.want = call[c].want
          /\ poller' = IF current = Bot!Nobody THEN poller
                       ELSE [poller EXCEPT ![current.id] =
                                [poller[current.id] EXCEPT !.live = FALSE]]
      BY <1>1, <1>5, <2>1, <2>4, CallShape
         DEF Bot!Ensures, Bot!Cancelled, Bot!Idle
    <3> HIDE DEF new
    <3>2. /\ \A o \in Caller : call'[o] = IF o = c THEN new ELSE call[o]
          /\ UnderWay' = UnderWay \cup {c} /\ UnderWay' # {}
          /\ Cardinality(UnderWay') = Cardinality(UnderWay)
      BY <1>1, <2>1, <3>1, CallMoves
    <3>3. current # Bot!Nobody => current = polling /\ polling.id \in DOMAIN poller
      BY <1>1
    <3>4. /\ poller' \in Seq(Polled) /\ Len(poller') = Len(poller)
          /\ DOMAIN poller' = DOMAIN poller
          /\ \A p \in DOMAIN poller :
                poller'[p] = IF current # Bot!Nobody /\ p = polling.id
                             THEN [poller[p] EXCEPT !.live = FALSE] ELSE poller[p]
      <4>1. CASE current = Bot!Nobody
        BY <1>1, <3>1, <4>1
      <4>2. CASE current # Bot!Nobody
        <5>1. [poller[polling.id] EXCEPT !.live = FALSE] \in Polled
          BY <1>1, <3>3, <4>2 DEF Polled
        <5> HIDE DEF current
        <5> QED
          BY <1>1, <3>1, <3>3, <4>2, <5>1, PollerMoves
      <4> QED
        BY <4>1, <4>2
    <3>5. BotTyped' /\ InTurn' /\ Bot!PressesHandled'
      <4> HIDE DEF current
      <4>1. /\ polling' \in [id : Nat, for : Address \cup {Off}]
            /\ polling'.id <= Len(poller') /\ (polling'.id = 0 <=> polling'.for = Off)
            /\ Len(poller') + Cardinality(UnderWay') <= saves'
        BY <1>1, <2>1, <3>1, <3>2, <3>4
      <4>2. \A p \in DOMAIN poller' :
               \/ p \in DOMAIN poller /\ poller'[p] = poller[p]
               \/ p \in DOMAIN poller /\ poller'[p] = [poller[p] EXCEPT !.live = FALSE]
        BY <3>4
      <4> QED
        BY <1>1, <2>1, <3>1, <3>4, <4>1, <4>2, CallsLeave
    <3>6. Alone'
      <4> SUFFICES ASSUME ~crossed
                   PROVE  /\ {p \in DOMAIN poller' : poller'[p].live} = {}
                          /\ \A o \in Caller :
                                call'[o].at \in {"ensure", "wait", "again"} =>
                                   call'[o].want = saved
        BY <2>1, <3>1, <3>2 DEF Alone, Bot!Nobody
      <4>1. \A p \in DOMAIN poller : poller[p].live => p = polling.id /\ p # 0
        BY DEF BotInv, Alone
      <4>2. \A p \in DOMAIN poller : ~poller'[p].live
        <5> SUFFICES ASSUME NEW p \in DOMAIN poller PROVE ~poller'[p].live
          OBVIOUS
        <5>1. CASE ~poller[p].live
          BY <1>1, <3>4, <5>1 DEF Polled
        <5>2. CASE poller[p].live
          <6>1. p = polling.id /\ p # 0 /\ current # Bot!Nobody
            BY <1>1, <2>2, <4>1, <5>2
          <6>2. poller'[p] = [poller[p] EXCEPT !.live = FALSE] /\ poller[p] \in Polled
            BY <1>1, <3>4, <6>1
          <6> QED
            BY <6>2 DEF Polled
        <5> QED
          BY <5>1, <5>2
      <4>3. \A o \in Caller : call[o].at \in {"ensure", "wait", "again"} =>
               call[o].want = saved
        BY DEF BotInv, Alone
      <4> QED
        BY <2>1, <3>1, <3>2, <3>4, <4>2, <4>3
    <3> QED
      BY <3>5, <3>6 DEF BotInv
  <2> QED
    BY <2>3, <2>4
<1>6. CASE Bot!StopsWaiting(c)
  <2> DEFINE new == IF call[c].want = Off THEN Bot!Idle
                    ELSE [at |-> "again", want |-> call[c].want]
  <2>1. /\ call[c].at = "wait" /\ call[c].want \in Address \cup {Off}
        /\ call[c] # Bot!Idle /\ call' = [call EXCEPT ![c] = new]
        /\ UNCHANGED <<saved, polling, poller, updates, pressed, handled, saves,
                       crossed>>
    BY <1>1, <1>6, CallShape DEF Bot!StopsWaiting, Bot!Idle, Bot!bounds
  <2>2. /\ new \in Ensuring
        /\ call[c].want = Off => new = Bot!Idle /\ new.at = "idle"
        /\ call[c].want # Off => /\ new # Bot!Idle /\ new.at = "again"
                                 /\ new.want = call[c].want
    BY <1>1, <2>1, CallShape DEF Bot!Idle
  <2> HIDE DEF new
  <2>3. /\ \A o \in Caller : call'[o] = IF o = c THEN new ELSE call[o]
        /\ UnderWay' = IF new = Bot!Idle THEN UnderWay \ {c} ELSE UnderWay \cup {c}
        /\ Cardinality(UnderWay') <= Cardinality(UnderWay)
        /\ Cardinality(UnderWay) \in Nat /\ Cardinality(UnderWay') \in Nat
    <3>1. /\ \A o \in Caller : call'[o] = IF o = c THEN new ELSE call[o]
          /\ UnderWay' = IF new = Bot!Idle THEN UnderWay \ {c} ELSE UnderWay \cup {c}
          /\ Cardinality(UnderWay) \in Nat /\ Cardinality(UnderWay') \in Nat
          /\ new # Bot!Idle => Cardinality(UnderWay') = Cardinality(UnderWay)
          /\ new = Bot!Idle => Cardinality(UnderWay') = Cardinality(UnderWay) - 1
      BY <1>1, <2>1, <2>2, CallMoves
    <3> QED
      BY <3>1
  <2>4. BotTyped' /\ InTurn' /\ Bot!PressesHandled'
    <3>1. Len(poller) + Cardinality(UnderWay') <= saves'
      BY <1>1, <2>1, <2>3
    <3> QED
      BY <1>1, <2>1, <2>2, <3>1, CallsOnly
  <2>5. Alone'
    <3>1. CASE call[c].want = Off
      <4>1. ~crossed => polling.for = saved
        BY <2>1, <3>1 DEF BotInv, Alone
      <4> QED
        BY <1>1, <2>1, <2>2, <2>3, <3>1, <4>1 DEF BotInv, Alone
    <3>2. CASE call[c].want # Off
      BY <1>1, <2>1, <2>2, <2>3, <3>2 DEF BotInv, Alone
    <3> QED
      BY <3>1, <3>2
  <2> QED
    BY <2>4, <2>5 DEF BotInv
<1>7. CASE Bot!Launches(c)
  <2>1. /\ call[c].at = "again" /\ call[c].want \in Address /\ call[c] # Bot!Idle
        /\ call' = [call EXCEPT ![c] = Bot!Idle] /\ Bot!Idle \in Ensuring
        /\ UNCHANGED <<saved, updates, pressed, handled, saves, crossed>>
    BY <1>1, <1>7, CallShape DEF Bot!Launches, Bot!Idle, Bot!bounds
  <2>2. /\ \A o \in Caller : call'[o] = IF o = c THEN Bot!Idle ELSE call[o]
        /\ UnderWay' = UnderWay \ {c}
        /\ Cardinality(UnderWay') = Cardinality(UnderWay) - 1
        /\ Cardinality(UnderWay) \in Nat /\ Cardinality(UnderWay') \in Nat
    BY <1>1, <2>1, CallMoves
  <2>3. CASE polling # Bot!Nobody /\ polling.for = call[c].want
    <3>1. UNCHANGED <<polling, poller>>
      BY <1>7, <2>3 DEF Bot!Launches
    <3>2. BotTyped' /\ InTurn' /\ Bot!PressesHandled'
      <4>1. Len(poller) + Cardinality(UnderWay') <= saves'
        BY <1>1, <2>1, <2>2
      <4> QED
        BY <1>1, <2>1, <3>1, <4>1, CallsOnly
    <3>3. Alone'
      <4>1. ~crossed => polling.for = saved
        BY <2>1, <2>3 DEF BotInv, Alone
      <4> QED
        BY <1>1, <2>1, <2>2, <3>1, <4>1 DEF BotInv, Alone, Bot!Idle
    <3> QED
      BY <3>2, <3>3 DEF BotInv
  <2>4. CASE ~(polling # Bot!Nobody /\ polling.for = call[c].want)
    <3> DEFINE new == Bot!New(call[c].want)
    <3>1. /\ polling' = [id |-> Len(poller) + 1, for |-> call[c].want]
          /\ poller' = Append(poller, new)
      BY <1>7, <2>4 DEF Bot!Launches
    <3>2. new \in Polled /\ new.live = TRUE
      BY <2>1 DEF Bot!New, Polled
    <3> HIDE DEF new
    <3>3. /\ poller' \in Seq(Polled) /\ Len(poller') = Len(poller) + 1
          /\ DOMAIN poller' = DOMAIN poller \cup {Len(poller) + 1}
          /\ \A o \in DOMAIN poller : poller'[o] = poller[o]
          /\ poller'[Len(poller) + 1] = new
      BY <1>1, <3>1, <3>2, PollerJoins
    <3>4. /\ polling' \in [id : Nat, for : Address \cup {Off}]
          /\ polling'.id = Len(poller') /\ polling'.id # 0 /\ polling'.for \in Address
          /\ polling'.for # Off /\ polling'.for = call[c].want
      BY <1>1, <2>1, <3>1, <3>3, PollerAssumption
    <3>5. BotTyped' /\ InTurn' /\ Bot!PressesHandled'
      <4>1. \A p \in DOMAIN poller' :
               \/ p \in DOMAIN poller /\ poller'[p] = poller[p]
               \/ \E a \in Address : poller'[p] = Bot!New(a)
        BY <2>1, <3>3 DEF new
      <4>2. /\ Len(poller') + Cardinality(UnderWay') <= saves'
            /\ polling' \in [id : Nat, for : Address \cup {Off}]
            /\ polling'.id <= Len(poller') /\ (polling'.id = 0 <=> polling'.for = Off)
        BY <1>1, <2>1, <2>2, <3>3, <3>4
      <4> QED
        BY <1>1, <2>1, <3>3, <4>1, <4>2, CallsLeave
    <3>6. Alone'
      <4> SUFFICES ASSUME ~crossed
                   PROVE  /\ {p \in DOMAIN poller' : poller'[p].live}
                                = {polling'.id} \ {0}
                          /\ polling'.for = saved
                          /\ \A o \in Caller :
                                call'[o].at \in {"ensure", "wait", "again"} =>
                                   call'[o].want = saved
        BY <2>1, <2>2 DEF Alone
      <4>1. call[c].want = saved /\ polling.for \in {Off, saved}
        BY <2>1 DEF BotInv, Alone
      <4>2. polling.id = 0
        BY <1>1, <2>4, <4>1
      <4>3. \A p \in DOMAIN poller : ~poller[p].live
        BY <4>2 DEF BotInv, Alone
      <4>4. \A o \in Caller : call'[o].at \in {"ensure", "wait", "again"} =>
               call'[o].want = saved
        BY <2>1, <2>2 DEF BotInv, Alone, Bot!Idle
      <4>5. {p \in DOMAIN poller' : poller'[p].live} = {Len(poller) + 1}
        BY <1>1, <3>2, <3>3, <4>3
      <4> QED
        BY <3>3, <3>4, <4>1, <4>4, <4>5
    <3> QED
      BY <3>5, <3>6 DEF BotInv
  <2> QED
    BY <2>3, <2>4
<1> QED
  BY <1>2, <1>3, <1>4, <1>5, <1>6, <1>7 DEF Bot!Calls

-----------------------------------------------------------------------------
(* The poller of the notifications: the theorem                            *)

\* A button that is pressed waits with Telegram.
LEMMA PressKeepsBot ==
    ASSUME BotInv, Bot!Pressed
    PROVE  BotInv'
<1>1. /\ pressed \in Nat /\ pressed' = pressed + 1
      /\ updates' = updates \cup {pressed + 1}
      /\ UNCHANGED <<saved, call, polling, poller, saves, handled, crossed>>
  BY DEF BotInv, BotTyped, Bot!Pressed, Bot!bounds
<1>2. /\ 1 .. pressed \subseteq 1 .. pressed'
      /\ 1 .. pressed' = 1 .. pressed \cup {pressed + 1}
      /\ 1 .. pressed + 1 \subseteq 1 .. pressed' + 1
  BY <1>1
<1>3. UnderWay' = UnderWay
  BY <1>1 DEF UnderWay
<1>4. BotTyped'
  <2>1. \A p \in DOMAIN poller : /\ poller[p].offset \in 1 .. pressed' + 1
                                 /\ poller[p].batch \subseteq 1 .. pressed'
    BY <1>1, <1>2 DEF BotInv, BotTyped
  <2>2. updates' \subseteq 1 .. pressed' /\ handled' \subseteq 1 .. pressed'
    BY <1>1, <1>2 DEF BotInv, BotTyped
  <2> QED
    BY <1>1, <1>3, <2>1, <2>2 DEF BotInv, BotTyped
<1>5. InTurn'
  <2> SUFFICES ASSUME NEW p \in DOMAIN poller, poller[p].live
               PROVE  Deals(poller[p], handled, pressed + 1)
    BY <1>1 DEF InTurn
  <2>1. Deals(poller[p], handled, pressed) /\ poller[p].batch \subseteq 1 .. pressed
    BY DEF BotInv, BotTyped, InTurn
  <2>2. \A u \in poller[p].batch : u < pressed + 1
    BY <1>1, <2>1
  <2> QED
    BY <1>1, <1>2, <2>1, <2>2 DEF Deals
<1>6. Bot!PressesHandled'
  BY <1>1, <1>2 DEF BotInv, Bot!PressesHandled
<1>7. Alone'
  BY <1>1, <1>3 DEF BotInv, Alone
<1> QED
  BY <1>4, <1>5, <1>6, <1>7 DEF BotInv

\* At the start nothing is polled.
LEMMA BotBegins == Bot!Init => BotInv
<1> SUFFICES ASSUME Bot!Init PROVE BotInv
  OBVIOUS
<1>1. /\ saved = Off /\ call = [c \in Caller |-> Bot!Idle]
      /\ polling = [id |-> 0, for |-> Off]
      /\ poller = <<>> /\ updates = {} /\ pressed = 0 /\ saves = 0
      /\ handled = {} /\ crossed = FALSE
  BY DEF Bot!Init, Bot!Nobody
<1>2. UnderWay = {} /\ IsFiniteSet(UnderWay) /\ Cardinality(UnderWay) = 0
  BY <1>1, FS_EmptySet DEF UnderWay
<1>3. poller \in Seq(Polled) /\ Len(poller) = 0 /\ DOMAIN poller = {}
  BY <1>1
<1>4. BotTyped
  <2>1. Bot!Idle \in Ensuring
    BY DEF Ensuring
  <2>2. call \in [Caller -> Ensuring]
    BY <1>1, <2>1
  <2>3. /\ polling \in [id : Nat, for : Address \cup {Off}]
        /\ polling.id <= Len(poller) /\ (polling.id = 0 <=> polling.for = Off)
    BY <1>1, <1>3
  <2>4. Len(poller) + Cardinality(UnderWay) <= saves /\ saves <= MaxSaves
    BY <1>1, <1>2, <1>3, PollerAssumption
  <2> QED
    BY <1>1, <1>2, <1>3, <2>2, <2>3, <2>4 DEF BotTyped
<1>5. InTurn /\ Bot!PressesHandled
  BY <1>1, <1>3 DEF InTurn, Bot!PressesHandled
<1>6. Alone
  BY <1>1, <1>3 DEF Alone, Bot!Idle
<1> QED
  BY <1>4, <1>5, <1>6 DEF BotInv

\* Every step keeps the invariant.
LEMMA BotStep == BotInv /\ [Bot!Next]_(Bot!vars) => BotInv'
<1> SUFFICES ASSUME BotInv, [Bot!Next]_(Bot!vars) PROVE BotInv'
  OBVIOUS
<1>1. CASE UNCHANGED Bot!vars
  BY <1>1 DEF Bot!vars, Bot!bounds, BotInv, BotTyped, UnderWay, InTurn, Alone,
              Bot!PressesHandled
<1>2. CASE Bot!Next
  BY <1>2, CallsKeepBot, PollsKeepBot, PressKeepsBot DEF Bot!Next
<1> QED
  BY <1>1, <1>2

\* The invariant holds in every behaviour.
LEMMA BotHolds == Bot!Spec => []BotInv
BY BotBegins, BotStep, PTL DEF Bot!Spec

\* No press of a button is lost, whichever poller is replaced while it works
\* through its updates; and when no call is under way and none crossed another,
\* the one poller that goes on polls for what is stored (notify_poller.go).
THEOREM PollerSafeHolds == Bot!Spec => []PollerSafe
<1>1. BotInv => PollerSafe
  <2> SUFFICES ASSUME BotInv PROVE PollerSafe
    OBVIOUS
  <2>1. Bot!TypeOK
    <3>1. \A c \in Caller : call[c].at \in {"idle", "read", "ensure", "wait", "again"}
      BY CallShape DEF BotInv, BotTyped
    <3>2. \A p \in DOMAIN poller : poller[p] \in Polled
      BY PollerMoves DEF BotInv, BotTyped
    <3>3. Len(poller) <= MaxSaves /\ polling.id \in 0 .. Len(poller)
      <4>1. Cardinality(UnderWay) \in Nat /\ Len(poller) \in Nat
        BY FS_CardinalityType DEF BotInv, BotTyped
      <4> QED
        BY <4>1, PollerAssumption DEF BotInv, BotTyped
    <3> QED
      BY <3>1, <3>2, <3>3 DEF BotInv, BotTyped, Bot!TypeOK, Bot!Setting, Polled
  <2>2. Bot!OnePollerLeft
    BY DEF BotInv, Alone, UnderWay, Bot!OnePollerLeft
  <2> QED
    BY <2>1, <2>2 DEF BotInv, PollerSafe, Bot!PollerSafe
<1> QED
  BY <1>1, BotHolds, PTL
=============================================================================
