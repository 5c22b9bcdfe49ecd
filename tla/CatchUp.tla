------------------------------- MODULE CatchUp -------------------------------
(***************************************************************************)
(* How far back a scheduled collection of a source looks.  A run that      *)
(* succeeds leaves its start as last_collect_time (collect_hours.go,       *)
(* spider.go), through a buffer in memory (collect_stats_coalesce.go); the *)
(* next scheduled run asks the site for the whole hours since then and one *)
(* more.  Runs of the source follow each other, but the end of one, after  *)
(* its task is unregistered, interleaves with the next.                    *)
(***************************************************************************)
EXTENDS Integers

CONSTANTS
    Hour,       \* ticks of the clock per hour
    Requested,  \* the hours a scheduled task asks for
    MaxHours,   \* collectCatchUpMaxHours
    Delay,      \* bound: ticks from the choice of the hours to the last request
    MaxTime, MaxRuns, MaxFaults, MaxClears  \* bounds

RunId == 1 .. MaxRuns
Tick == 1 .. MaxTime
None == 0  \* no time

VARIABLES
    now,
    collected,  \* the changes of the site, by their time, that are stored
    anchor,     \* collect_source_stats.last_collect_time
    pending, suppressed,  \* collectStatsCoalescer
    run,
    faults, clears,       \* bounds
    since,   \* history: where the first window of the chain began
    anchors  \* history: the anchors of the chain

buffer == <<pending, suppressed>>
bounds == <<faults, clears>>
vars == <<now, collected, anchor, buffer, run, bounds, since, anchors>>

Idle == [at |-> "idle"]
Over == [at |-> "ended"]
Registered == {"suppress", "resolve", "fetch", "seal", "sealwrite", "leave"}
UnderWay(r) == run[r].at \notin {"idle", "queued", "ended"}

TypeOK ==
    /\ now \in Tick /\ collected \subseteq Tick /\ since \in Nat
    /\ {anchor, pending} \subseteq 0 .. now /\ suppressed \in BOOLEAN
    /\ anchor # None => anchor \in anchors
    /\ \A r \in RunId : run[r].at \in Registered \cup
        {"idle", "queued", "unsuppress", "note", "flush", "write", "ended"}
    /\ \A r, o \in RunId :
        run[r].at \in Registered /\ run[o].at \in Registered => r = o

Init ==
    /\ now = 1 /\ collected = {} /\ anchor = None
    /\ pending = None /\ suppressed = FALSE
    /\ run = [r \in RunId |-> Idle] /\ faults = 0 /\ clears = 0
    /\ since = 0 /\ anchors = {}

To(r, step) ==
    run' = [run EXCEPT ![r] = IF step = "ended" THEN Over
                                                ELSE [@ EXCEPT !.at = step]]

-----------------------------------------------------------------------------
(* A run                                                                   *)

\* resolveCollectHours: whole hours, as an int conversion truncates.
Larger(x, y) == IF x > y THEN x ELSE y
Smaller(x, y) == IF x < y THEN x ELSE y
ResolveHours(last, time) ==
    LET elapsed == (time - last) \div Hour + 1 IN
    Smaller(MaxHours, IF last = None THEN Requested
                                     ELSE Larger(Requested, elapsed))

\* The batch notes its start before the source gets its turn.
Queues(r, cron) ==
    /\ run[r] = Idle /\ \A o \in 1 .. r - 1 : run[o] # Idle
    /\ run' = [run EXCEPT ![r] =
                 [at |-> "queued", cron |-> cron, start |-> now, ok |-> FALSE,
                  taken |-> None]]
    /\ UNCHANGED <<now, collected, anchor, buffer, bounds, since, anchors>>

\* TryRegisterTask
Registers(r) ==
    /\ run[r].at = "queued" /\ \A o \in RunId : run[o].at \notin Registered
    /\ To(r, "suppress")
    /\ UNCHANGED <<now, collected, anchor, buffer, bounds, since, anchors>>

Suppresses(r) ==
    /\ run[r].at = "suppress" /\ To(r, "resolve") /\ suppressed' = TRUE
    /\ UNCHANGED <<now, collected, anchor, pending, bounds, since, anchors>>

\* A manual collection keeps the hours it was asked for.
Resolves(r) ==
    /\ run[r].at = "resolve"
    /\ LET hours == IF run[r].cron THEN ResolveHours(anchor, now)
                                   ELSE Requested IN
       run' = [run EXCEPT ![r] =
                 [at |-> "fetch", cron |-> @.cron, start |-> @.start,
                  ok |-> FALSE, taken |-> None, hours |-> hours,
                  last |-> anchor, resolved |-> now]]
    /\ UNCHANGED <<now, collected, anchor, buffer, bounds, since, anchors>>

\* A chain of windows begins with the first success, and again where the most
\* hours the code asks for do not reach back to the last start.
Anew(r) ==
    \/ run[r].last = None
    \/ run[r].resolved - run[r].last >= MaxHours * Hour

\* The site answers with what changed in the hours before the request.  Any
\* page that fails, a stop or a canceled context make the run a failed one,
\* which may have stored everything.
Asked(r) == {t \in Tick : now - run[r].hours * Hour <= t /\ t <= now}
Fetches(r) ==
    /\ run[r].at = "fetch"
    /\ \E ok \in BOOLEAN :
        /\ run' = [run EXCEPT ![r].at = "seal", ![r].ok = ok]
        /\ \/ collected' = collected \cup Asked(r)
           \/ ~ok /\ UNCHANGED collected
        /\ since' = IF ok /\ run[r].cron /\ Anew(r)
                    THEN Larger(since, now - run[r].hours * Hour) ELSE since
    /\ UNCHANGED <<now, anchor, buffer, bounds, anchors>>

\* FlushCollectSourceStats, from markSealing and from the end of the run:
\* what is pending is taken under the mutex and written without it.
After == [seal |-> "leave", sealwrite |-> "leave",
          flush |-> "ended", write |-> "ended"]
Takes(r) ==
    /\ run[r].at \in {"seal", "flush"} /\ pending' = None
    /\ IF pending = None THEN To(r, After[run[r].at])
       ELSE run' = [run EXCEPT
              ![r].at = IF @ = "seal" THEN "sealwrite" ELSE "write",
              ![r].taken = pending]
    /\ UNCHANGED <<now, collected, anchor, suppressed, bounds, since, anchors>>

Writes(r) ==
    /\ run[r].at \in {"sealwrite", "write"} /\ To(r, After[run[r].at])
    /\ anchor' = run[r].taken /\ anchors' = anchors \cup {run[r].taken}
    /\ UNCHANGED <<now, collected, buffer, bounds, since>>

\* What could not be written is put back unless something newer is there.
WriteFails(r) ==
    /\ run[r].at \in {"sealwrite", "write"} /\ To(r, After[run[r].at])
    /\ faults < MaxFaults /\ faults' = faults + 1
    /\ pending' = IF pending = None THEN run[r].taken ELSE pending
    /\ UNCHANGED <<now, collected, anchor, suppressed, clears, since, anchors>>

\* UnregisterTask: from here the next run may start.
Unregisters(r) ==
    /\ run[r].at = "leave" /\ To(r, "unsuppress")
    /\ UNCHANGED <<now, collected, anchor, buffer, bounds, since, anchors>>

Unsuppresses(r) ==
    /\ run[r].at = "unsuppress" /\ To(r, "note") /\ suppressed' = FALSE
    /\ UNCHANGED <<now, collected, anchor, pending, bounds, since, anchors>>

\* Mutant: the time of the run's end is noted.
NotesEnd(r) ==
    /\ run[r].at = "note" /\ To(r, "flush")
    /\ IF run[r].ok /\ run[r].cron
       THEN /\ pending' = IF suppressed THEN pending ELSE now
            /\ UNCHANGED suppressed
       ELSE pending' = None /\ suppressed' = FALSE
    /\ UNCHANGED <<now, collected, anchor, bounds, since, anchors>>

\* NoteCollectSourceStatsAt after a scheduled success, with the start of the
\* run, unless the next run has suppressed it; else the pending time is dropped.
Notes(r) ==
    /\ run[r].at = "note" /\ To(r, "flush")
    /\ IF run[r].ok /\ run[r].cron
       THEN /\ pending' = IF suppressed THEN pending ELSE run[r].start
            /\ UNCHANGED suppressed
       ELSE pending' = None /\ suppressed' = FALSE
    /\ UNCHANGED <<now, collected, anchor, bounds, since, anchors>>

Runs(r) ==
    \/ \E cron \in BOOLEAN : Queues(r, cron)
    \/ Registers(r) \/ Suppresses(r) \/ Resolves(r) \/ Fetches(r)
    \/ Takes(r) \/ Writes(r) \/ WriteFails(r)
    \/ Unregisters(r) \/ Unsuppresses(r) \/ Notes(r)

-----------------------------------------------------------------------------
(* The surroundings                                                        *)

\* ClearSpider, alone behind the gate: everything goes, the buffer too.
Clears ==
    /\ clears < MaxClears /\ clears' = clears + 1
    /\ \A r \in RunId : ~UnderWay(r)
    /\ collected' = {} /\ anchor' = None /\ anchors' = {} /\ since' = 0
    /\ pending' = None /\ suppressed' = FALSE
    /\ UNCHANGED <<now, run, faults>>

\* The process ends; runs and the buffer are gone.
Restarts ==
    /\ faults < MaxFaults /\ faults' = faults + 1
    /\ \E r \in RunId : run[r].at \notin {"idle", "ended"}
    /\ run' = [r \in RunId |-> IF run[r] = Idle THEN Idle ELSE Over]
    /\ pending' = None /\ suppressed' = FALSE
    /\ UNCHANGED <<now, collected, anchor, clears, since, anchors>>

\* Time passes, and the site changes with every tick.
Passes ==
    /\ now < MaxTime /\ now' = now + 1
    /\ \A r \in RunId : run[r].at = "fetch" => now - run[r].resolved < Delay
    /\ UNCHANGED <<collected, anchor, buffer, run, bounds, since, anchors>>

Next == (\E r \in RunId : Runs(r)) \/ Clears \/ Restarts \/ Passes

Spec == Init /\ [][Next]_vars

-----------------------------------------------------------------------------
\* Since the chain began, what a site changed before the anchor is
\* stored, whatever runs failed, were restarted or ended together.  Only what
\* changed right after the start of a successful run may be missing, for as
\* long as a later run takes between choosing its hours and asking: the hour
\* of overlap is cut to whole hours and does not always cover that.
AnchorSound ==
    anchor # None => \A t \in since .. anchor - 1 :
        \/ t = 0 \/ t \in collected
        \/ \E a \in anchors : a <= t /\ t < a + Delay

CatchUpSafe == TypeOK /\ AnchorSound
=============================================================================
