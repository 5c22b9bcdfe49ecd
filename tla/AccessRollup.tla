---------------------------- MODULE AccessRollup ----------------------------
(***************************************************************************)
(* The figures of the visitors (internal/access): events pass a channel    *)
(* that drops what does not fit, a worker counts them in the Redis bucket  *)
(* of the day they happened on, RunDailyRollup archives the days that are  *)
(* over in MySQL behind a watermark, and ClearAccessData deletes.          *)
(***************************************************************************)
EXTENDS Integers, Sequences, FiniteSets, FiniteSetsExt, TLC

CONSTANTS
    LastDay,    \* bound: days of a behaviour
    Room,       \* channelSize
    Ttl,        \* ttlDay, in days
    Retention,  \* values of retentionDays; 0 clears everything
    MaxEvents,  \* bound: events collected or dropped
    MaxClears,  \* bound: calls of ClearAccessData
    MaxFaults   \* bound: failures of Redis and of MySQL, and restarts

VARIABLES
    today, early,  \* the local day, and whether it is not yet 3 o'clock
    eventCh,       \* the days of the events that wait for the worker
    unsynced,      \* droppedUnsynced
    worker,        \* [day, taken]: the pipeline the worker has filled
    pv, dropped,   \* Redis: the events counted for a day, and those dropped
    watermark,     \* Redis: rolledDayKey, or 0 when there is none
    row,           \* MySQL: AccessDailyStats of a day, or NoRow
    roll,          \* RunDailyRollup
    clear,         \* ClearAccessData
    events, clears, faults,  \* bounds
    drops,    \* history: events dropped whose count has not been deleted
    written,  \* history: events counted for a day since its row was deleted
    closed    \* history: what Redis held of a day at its midnight, as far as
              \* it was still there to be archived

clock == <<today, early>>
redis == <<pv, dropped, watermark>>
bounds == <<events, clears, faults>>
history == <<drops, written, closed>>
vars == <<clock, eventCh, unsynced, worker, redis, row, roll, clear,
          bounds, history>>

Day == 1 .. LastDay
NoRow == [pv |-> 0, dropped |-> 0]
Idle == [at |-> "idle"]
Nothing == [day |-> 0, taken |-> 0]
NothingCounted == [d \in Day |-> 0]

\* rollupMu
MutexFree == roll.at = "idle" /\ clear.at = "idle"

TypeOK ==
    /\ today \in Day /\ early \in BOOLEAN
    /\ eventCh \in Seq(Day) /\ Len(eventCh) <= Room
    /\ unsynced \in Nat /\ drops \in Nat
    /\ worker.day \in 0 .. LastDay /\ worker.taken \in Nat
    /\ \A f \in {pv, dropped, written, closed} : f \in [Day -> Nat]
    /\ watermark \in 0 .. today - 1
    /\ \A d \in Day : DOMAIN row[d] = {"pv", "dropped"}
    /\ roll.at \in {"idle", "snapshot", "persist", "save"}
    /\ clear.at \in {"idle", "scan", "del", "rows"}

Init ==
    /\ today = 1 /\ early = TRUE
    /\ eventCh = <<>> /\ unsynced = 0 /\ worker = Nothing
    /\ pv = NothingCounted /\ dropped = NothingCounted /\ watermark = 0
    /\ row = [d \in Day |-> NoRow] /\ roll = Idle /\ clear = Idle
    /\ events = 0 /\ clears = 0 /\ faults = 0
    /\ drops = 0 /\ written = NothingCounted /\ closed = NothingCounted

-----------------------------------------------------------------------------
(* Events                                                                  *)

\* Collect: the request's goroutine never waits.  (While the analytics are
\* disabled, requests collect nothing and the archive does not run.)
Collect ==
    /\ events < MaxEvents /\ events' = events + 1
    /\ \/ /\ Len(eventCh) < Room /\ eventCh' = Append(eventCh, today)
          /\ UNCHANGED <<unsynced, drops>>
       \/ /\ Len(eventCh) = Room /\ UNCHANGED eventCh
          /\ unsynced' = unsynced + 1 /\ drops' = drops + 1
    /\ UNCHANGED <<clock, worker, redis, row, roll, clear, clears,
                   faults, written, closed>>

\* Mutant: the drops a pipeline carries stay with the collector.
FillsKeeping ==
    /\ worker = Nothing /\ eventCh # <<>>
    /\ worker' = [day |-> Head(eventCh), taken |-> unsynced]
    /\ eventCh' = Tail(eventCh)
    /\ UNCHANGED <<clock, unsynced, redis, row, roll, clear, bounds, history>>

\* writeEvent and writePageView fill a pipeline for the event's own day and
\* take the drops that no pipeline has carried yet ...
Fills ==
    /\ worker = Nothing /\ eventCh # <<>>
    /\ worker' = [day |-> Head(eventCh), taken |-> unsynced]
    /\ eventCh' = Tail(eventCh) /\ unsynced' = 0
    /\ UNCHANGED <<clock, redis, row, roll, clear, bounds, history>>

Counted ==
    /\ pv' = [pv EXCEPT ![worker.day] = @ + 1]
    /\ written' = [written EXCEPT ![worker.day] = @ + 1]
    /\ dropped' = [dropped EXCEPT ![worker.day] = @ + worker.taken]

\* ... execute it ...
Executes ==
    /\ worker # Nothing /\ worker' = Nothing /\ Counted
    /\ UNCHANGED <<clock, eventCh, unsynced, watermark, row, roll,
                   clear, bounds, drops, closed>>

\* ... and give the drops back when that fails, while others drop more.
\* Redis may have done its part before the failure: then they count twice.
ExecFails ==
    /\ worker # Nothing /\ faults < MaxFaults
    /\ worker' = Nothing /\ faults' = faults + 1
    /\ unsynced' = unsynced + worker.taken
    /\ \/ UNCHANGED <<pv, written, dropped, drops>>
       \/ Counted /\ drops' = drops + worker.taken
    /\ UNCHANGED <<clock, eventCh, watermark, row, roll, clear,
                   events, clears, closed>>

-----------------------------------------------------------------------------
(* The daily archive                                                       *)

\* loadRolledDay: the watermark, or the last day in MySQL, or the day before
\* yesterday.
Archived == {d \in Day : row[d] # NoRow}
RolledDay ==
    CASE watermark # 0 -> watermark
      [] watermark = 0 /\ Archived # {} -> Max(Archived)
      [] OTHER -> today - 2

LastClosed == today - 1

\* daysToRoll, and yesterday once more until 3 o'clock: an event of yesterday
\* may have reached Redis after midnight.
FirstToRoll ==
    IF RolledDay = LastClosed /\ early THEN LastClosed ELSE RolledDay + 1

\* safeDailyRollup, at the start and every hour.
RollBegins ==
    /\ MutexFree
    /\ roll' = IF 1 .. LastClosed \cap FirstToRoll .. LastClosed = {} THEN Idle
               ELSE [at |-> "snapshot", day |-> Max({1, FirstToRoll}),
                     last |-> LastClosed]
    /\ closed' = [d \in Day |->
                     IF Archived = {} /\ d < FirstToRoll THEN 0 ELSE closed[d]]
    /\ UNCHANGED <<clock, eventCh, unsynced, worker, redis, row,
                   clear, bounds, drops, written>>

\* snapshotDayFromRedis: one pipeline of reads.
RollSnapshots ==
    /\ roll.at = "snapshot"
    /\ roll' = [at |-> "persist", day |-> roll.day, last |-> roll.last,
                stats |-> [pv |-> pv[roll.day], dropped |-> dropped[roll.day]]]
    /\ UNCHANGED <<clock, eventCh, unsynced, worker, redis, row,
                   clear, bounds, history>>

\* persistDaily replaces the day's row and its tops; a day without any figure
\* leaves what there is.
RollPersists ==
    /\ roll.at = "persist"
    /\ row' = IF roll.stats = NoRow THEN row
              ELSE [row EXCEPT ![roll.day] = roll.stats]
    /\ roll' = [at |-> "save", day |-> roll.day, last |-> roll.last]
    /\ UNCHANGED <<clock, eventCh, unsynced, worker, redis, clear,
                   bounds, history>>

\* saveRolledDay, and on to the next day.
RollSaves ==
    /\ roll.at = "save" /\ watermark' = roll.day
    /\ roll' = IF roll.day = roll.last THEN Idle
               ELSE [at |-> "snapshot", day |-> roll.day + 1,
                     last |-> roll.last]
    /\ UNCHANGED <<clock, eventCh, unsynced, worker, pv, dropped,
                   row, clear, bounds, history>>

\* A read or a write that fails ends the call.
RollFails ==
    /\ roll.at # "idle" /\ faults < MaxFaults
    /\ roll' = Idle /\ faults' = faults + 1
    /\ UNCHANGED <<clock, eventCh, unsynced, worker, redis, row,
                   clear, events, clears, history>>

-----------------------------------------------------------------------------
(* The dashboard                                                           *)

\* QueryOverviewScope: a day that is over is read from MySQL, and from Redis
\* when MySQL has nothing of it.
Overview(d) == IF d # today /\ row[d] # NoRow THEN row[d].pv ELSE pv[d]

-----------------------------------------------------------------------------
(* Deletion                                                                *)

\* The sum of a count over all days, up to each day and then up to the last.
SumOver(count) ==
    LET sum[d \in 0 .. LastDay] == IF d = 0 THEN 0 ELSE sum[d - 1] + count[d]
    IN  sum[LastDay]
DropsOf(days) == SumOver([d \in Day |-> IF d \in days THEN dropped[d] ELSE 0])

\* The keys of these days are deleted, and the drops counted there with them.
DeletesDays(days) ==
    /\ pv' = [d \in Day |-> IF d \in days THEN 0 ELSE pv[d]]
    /\ dropped' = [d \in Day |-> IF d \in days THEN 0 ELSE dropped[d]]
    /\ drops' = drops - DropsOf(days)

\* What a deletion with this retention keeps (isAccessKeyOlderThan); the
\* watermark belongs to no day.
Older(keep) == {d \in Day : keep = 0 \/ d < today - keep}

ClearLocks(keep) ==
    /\ MutexFree /\ clears < MaxClears /\ clears' = clears + 1
    /\ clear' = [at |-> "scan", keep |-> keep, days |-> Older(keep),
                 passes |-> IF keep = 0 THEN 2 ELSE 1]
    /\ UNCHANGED <<clock, eventCh, unsynced, worker, redis, row,
                   roll, events, faults, history>>

\* deleteMatchingAccessRedisKeys: what SCAN finds ...
ClearScans ==
    /\ clear.at = "scan"
    /\ clear' = [clear EXCEPT
           !.at = "del", !.days = {d \in @ : pv[d] + dropped[d] > 0}]
    /\ UNCHANGED <<clock, eventCh, unsynced, worker, redis, row,
                   roll, bounds, history>>

\* ... is deleted; a full deletion goes over Redis twice.
ClearDels ==
    /\ clear.at = "del" /\ DeletesDays(clear.days)
    /\ closed' = [d \in Day |-> IF d \in clear.days THEN 0 ELSE closed[d]]
    /\ watermark' = IF clear.keep = 0 THEN 0 ELSE watermark
    /\ clear' = IF clear.passes = 2
                THEN [clear EXCEPT !.at = "scan", !.days = Day, !.passes = 1]
                ELSE [clear EXCEPT !.at = "rows"]
    /\ UNCHANGED <<clock, eventCh, unsynced, worker, row, roll,
                   bounds, written>>

\* The rows go last, older than a cutoff that is reckoned anew.
ClearRows ==
    /\ clear.at = "rows" /\ clear' = Idle
    /\ LET days == Older(clear.keep)
       IN  /\ row' = [d \in Day |-> IF d \in days THEN NoRow ELSE row[d]]
           /\ written' = [d \in Day |-> IF d \in days THEN pv[d]
                                        ELSE written[d]]
           /\ closed' = [d \in Day |-> IF d \in days THEN 0 ELSE closed[d]]
    /\ UNCHANGED <<clock, eventCh, unsynced, worker, redis, roll,
                   bounds, drops>>

\* An error ends the call; batches of keys may be gone by then.
ClearFails ==
    /\ clear.at # "idle" /\ faults < MaxFaults
    /\ clear' = Idle /\ faults' = faults + 1
    /\ \E gone \in SUBSET (IF clear.at = "del" THEN clear.days ELSE {}) :
           /\ DeletesDays(gone)
           /\ closed' = [d \in Day |-> IF d \in gone THEN 0 ELSE closed[d]]
    /\ UNCHANGED <<clock, eventCh, unsynced, worker, watermark, row,
                   roll, events, clears, written>>

-----------------------------------------------------------------------------
(* Time and restarts                                                       *)

ThreeOClock ==
    /\ early /\ early' = FALSE
    /\ UNCHANGED <<today, eventCh, unsynced, worker, redis, row, roll,
                   clear, bounds, history>>

Midnight ==
    /\ ~early /\ today < LastDay /\ today' = today + 1 /\ early' = TRUE
    /\ closed' = [closed EXCEPT ![today] = pv[today]]
    /\ UNCHANGED <<eventCh, unsynced, worker, redis, row, roll,
                   clear, bounds, drops, written>>

\* The buckets of a day end after ttlDay, and no call of RunDailyRollup goes
\* on for as long as that.
Expires(d) ==
    /\ today - d >= Ttl /\ pv[d] + dropped[d] > 0
    /\ roll.at \in {"snapshot", "persist", "save"} => roll.last >= today - 1
    /\ DeletesDays({d})
    /\ closed' = [closed EXCEPT ![d] = IF d > watermark THEN 0 ELSE @]
    /\ UNCHANGED <<clock, eventCh, unsynced, worker, watermark, row,
                   roll, clear, bounds, written>>

\* Redis comes back empty.  Yesterday, and what a call is at, may then be
\* archived anew from the few events that still arrive.
LosesRedis ==
    /\ faults < MaxFaults /\ faults' = faults + 1
    /\ DeletesDays(Day) /\ watermark' = 0
    /\ closed' = [d \in Day |->
           IF d > watermark \/ d >= today - 1 \/ roll.at # "idle" THEN 0
           ELSE closed[d]]
    /\ UNCHANGED <<clock, eventCh, unsynced, worker, row, roll,
                   clear, events, clears, written>>

\* The process restarts.
Restarts ==
    /\ faults < MaxFaults /\ faults' = faults + 1
    /\ eventCh' = <<>> /\ unsynced' = 0 /\ worker' = Nothing
    /\ roll' = Idle /\ clear' = Idle
    /\ drops' = drops - unsynced - worker.taken
    /\ UNCHANGED <<clock, redis, row, events, clears, written, closed>>

-----------------------------------------------------------------------------
Worker == Fills \/ Executes \/ ExecFails

Rollup ==
    RollBegins \/ RollSnapshots \/ RollPersists \/ RollSaves
        \/ RollFails

Clearing ==
    \/ \E keep \in Retention : ClearLocks(keep)
    \/ ClearScans \/ ClearDels \/ ClearRows \/ ClearFails

Time == ThreeOClock \/ Midnight \/ \E d \in Day : Expires(d)

Next ==
    \/ Collect \/ Worker \/ Rollup \/ Clearing
    \/ Time \/ LosesRedis \/ Restarts

Spec == Init /\ [][Next]_vars

-----------------------------------------------------------------------------
(* Properties                                                              *)

\* No dropped event is lost from the count of drops and none counts twice,
\* whoever drops while the worker gives back what it took.
DropsAccounted == drops = unsynced + worker.taken + DropsOf(Day)

\* Behind the watermark the archive has what Redis had of a day at midnight.
NoDaySkipped == \A d \in Day : d <= watermark => row[d].pv >= closed[d]

\* The archive has no event twice and none from before a deletion, and the
\* dashboard shows none.
NothingComesBack == \A d \in Day : Max({row[d].pv, Overview(d)}) <= written[d]

\* The count of drops, the archive behind its watermark and deletions agree
\* with what was counted, through failures, restarts and late events.
FiguresAddUp == TypeOK /\ DropsAccounted /\ NoDaySkipped /\ NothingComesBack
=============================================================================
