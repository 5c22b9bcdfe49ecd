------------------------------- MODULE Upgrade -------------------------------
(***************************************************************************)
(* The online upgrade (internal/service/upgrade).  The service replaces    *)
(* the container it runs in: it renames its own container, creates the new *)
(* one under the old name, starts a helper container and is stopped; the   *)
(* helper starts the new container and removes the old one, or undoes all. *)
(* Every call to the Docker engine may fail, or be done and reported as    *)
(* failed, and the deadline of an upgrade may pass inside any call.        *)
(***************************************************************************)
EXTENDS Integers, Sequences, FiniteSets

CONSTANTS
    Presses,    \* bound: upgrades started
    MaxFaults,  \* bound: calls to the engine that fail or whose reply is lost
    MaxCrashes  \* bound: crashes of the service, which the engine restarts

Press == 1 .. Presses
Box == 1 .. Presses + 1  \* the service's containers; press k creates k + 1

VARIABLES
    box,      \* a container: its state, and its name
    stopping, \* containers the engine has accepted to stop
    job,      \* runContainerUpgrade in the process of a container
    helper,   \* the helper of a press
    presses, faults, crashes,
    drifted,  \* history: a reply or a process was lost, a deadline passed, or
              \* an upgrade began while a helper was at work
    severed   \* history: a helper was started, and the engine said it was not

bounds == <<presses, faults, crashes>>
history == <<drifted, severed>>
vars == <<box, stopping, job, helper, bounds, history>>

Alive(c) == box[c].state = "running"
Exists(c) == box[c].state # "absent"
Working(k) == helper[k].state = "running"

\* The name the service was installed under is <<>>; a backup's name is that
\* of the container with the time of the upgrade, here the press, appended.
NoJob == [at |-> "idle", press |-> 0, name |-> <<>>, late |-> FALSE]
NoHelper == [state |-> "absent", at |-> "ended", old |-> 0, name |-> <<>>]
Absent == [state |-> "absent", name |-> <<>>]
Backup(c) == Append(job[c].name, job[c].press)
New(c) == job[c].press + 1

\* The steps of the two programs, and where their rollbacks begin.
JobStep == {"pull", "rename", "create", "clear", "hcreate", "hstart",
            "stop", "hdrop", "drop", "unname"}
HelperStep == {"stop", "sent", "wait", "look", "start", "clean", "keepdrop",
               "keepname", "undodrop", "undoname", "undostart"}

TypeOK ==
    /\ \A c \in Box : /\ box[c].state \in {"absent", "created", "running",
                                           "stopped"}
                      /\ box[c].name \in Seq(Press)
    /\ stopping \subseteq {c \in Box : Alive(c)}
    /\ \A c \in Box : /\ job[c].at \in JobStep \cup {"idle", "stopped"}
                      /\ job[c].at # "idle" => Alive(c)
    /\ \A k \in Press : /\ helper[k].state \in {"absent", "created", "running"}
                        /\ Working(k) => helper[k].at \in HelperStep

Init ==
    /\ box = [c \in Box |-> IF c = 1 THEN [state |-> "running", name |-> <<>>]
                                     ELSE Absent]
    /\ stopping = {} /\ job = [c \in Box |-> NoJob]
    /\ helper = [k \in Press |-> NoHelper]
    /\ presses = 0 /\ faults = 0 /\ crashes = 0
    /\ drifted = FALSE /\ severed = FALSE

-----------------------------------------------------------------------------
(* The Docker engine, as the code uses it                                  *)

\* The outcomes of a call: is it done, is it reported as done, what it costs.
\* A call whose context has expired does nothing and fails.
Attempts(can, late) ==
    IF late THEN {[done |-> FALSE, told |-> FALSE, cost |-> 0]}
    ELSE {[done |-> can, told |-> can, cost |-> 0]} \cup
         {r \in [done : {FALSE, can}, told : {FALSE}, cost : {1}] :
             faults < MaxFaults}

NameFree(n) == \A c \in Box : Exists(c) => box[c].name # n
CanRename(c, n) == Exists(c) /\ (box[c].name = n \/ NameFree(n))

\* The ports of the service are published: a second container cannot start.
CanStart(c) == Exists(c) /\ \A other \in Box \ {c} : ~Alive(other)

Named(b, c, n) == [b EXCEPT ![c].name = n]
Put(b, c, s) == [b EXCEPT ![c].state = s]

\* A container that is gone takes the process in it along.
Removed(c, r) ==
    /\ box' = IF r.done THEN [box EXCEPT ![c] = Absent] ELSE box
    /\ stopping' = IF r.done THEN stopping \ {c} ELSE stopping
    /\ job' = IF r.done THEN [job EXCEPT ![c] = NoJob] ELSE job

Exits(c) ==
    /\ c \in stopping /\ stopping' = stopping \ {c}
    /\ box' = Put(box, c, "stopped") /\ job' = [job EXCEPT ![c] = NoJob]
    /\ UNCHANGED <<helper, bounds, history>>

\* The service crashes and is restarted: upgrading is false again.
Crashes(c) ==
    /\ Alive(c) /\ c \notin stopping /\ job[c].at # "idle" /\ crashes < MaxCrashes
    /\ job' = [job EXCEPT ![c] = NoJob] /\ crashes' = crashes + 1
    /\ drifted' = TRUE
    /\ UNCHANGED <<box, stopping, helper, presses, faults, severed>>

-----------------------------------------------------------------------------
(* runContainerUpgrade, in the process of container c                      *)

\* StartUpgrade: one at a time in a process; the name is that of the moment.
Start(c) ==
    /\ Alive(c) /\ job[c].at = "idle" /\ presses < Presses
    /\ presses' = presses + 1
    /\ job' = [job EXCEPT ![c] = [at |-> "pull", press |-> presses + 1,
                                  name |-> box[c].name, late |-> FALSE]]
    /\ drifted' = (drifted \/ \E k \in Press : Working(k))
    /\ UNCHANGED <<box, stopping, helper, faults, crashes, severed>>

\* The 12 minutes are over: every later call of this upgrade fails.
Late(c) ==
    /\ job[c].at \in JobStep /\ ~job[c].late
    /\ job' = [job EXCEPT ![c].late = TRUE] /\ drifted' = TRUE
    /\ UNCHANGED <<box, stopping, helper, bounds, severed>>

\* What a call of an upgrade or of a helper leaves on the counters.
Spends(r) ==
    /\ faults' = faults + r.cost
    /\ drifted' = (drifted \/ r.done # r.told)
    /\ UNCHANGED <<presses, crashes>>
Costs(r) == Spends(r) /\ UNCHANGED severed

Goes(c, r, then, else) ==
    job' = [job EXCEPT ![c] = IF (IF r.told THEN then ELSE else) = "idle"
                              THEN NoJob
                              ELSE [@ EXCEPT !.at = IF r.told THEN then
                                                              ELSE else]]

Pulls(c) ==
    /\ job[c].at = "pull"
    /\ \E r \in Attempts(TRUE, job[c].late) :
        Costs(r) /\ Goes(c, r, "rename", "idle")
    /\ UNCHANGED <<box, stopping, helper>>

Renames(c) ==
    /\ job[c].at = "rename"
    /\ \E r \in Attempts(CanRename(c, Backup(c)), job[c].late) :
        /\ Costs(r) /\ Goes(c, r, "create", "idle")
        /\ box' = IF r.done THEN Named(box, c, Backup(c)) ELSE box
    /\ UNCHANGED <<stopping, helper>>

\* When the create is not reported as done, the new container is not removed.
Creates(c) ==
    /\ job[c].at = "create"
    /\ \E r \in Attempts(NameFree(job[c].name), job[c].late) :
        /\ Costs(r) /\ Goes(c, r, "clear", "unname")
        /\ box' = IF r.done THEN [box EXCEPT ![New(c)] =
                                    [state |-> "created", name |-> job[c].name]]
                            ELSE box
    /\ UNCHANGED <<stopping, helper>>

\* startUpgradeHelper: a helper of an earlier upgrade under this name goes.
SameName(c) == {k \in Press : /\ helper[k].state # "absent"
                              /\ helper[k].name = job[c].name}
Clears(c) ==
    /\ job[c].at = "clear"
    /\ \E r \in Attempts(SameName(c) # {}, job[c].late) :
        /\ Costs(r)
        /\ helper' = [k \in Press |-> IF r.done /\ k \in SameName(c)
                                      THEN NoHelper ELSE helper[k]]
    /\ job' = [job EXCEPT ![c].at = "hcreate"]
    /\ UNCHANGED <<box, stopping>>

HelperCreates(c) ==
    /\ job[c].at = "hcreate"
    /\ \E r \in Attempts(SameName(c) = {}, job[c].late) :
        /\ Costs(r) /\ Goes(c, r, "hstart", "drop")
        /\ helper' = IF r.done
                     THEN [helper EXCEPT ![job[c].press] =
                             [state |-> "created", at |-> "stop", old |-> c,
                              name |-> job[c].name]]
                     ELSE helper
    /\ UNCHANGED <<box, stopping>>

\* A start whose reply is lost because the deadline passes inside it ends in
\* a helper that the rollback cannot reach any more.
HelperStarts(c) ==
    /\ job[c].at = "hstart"
    /\ LET made == helper[job[c].press].state = "created"
           running == [helper EXCEPT ![job[c].press].state = "running"] IN
       \/ \E r \in Attempts(made, job[c].late) :
           /\ severed' = (severed \/ (r.done /\ ~r.told))
           /\ Spends(r) /\ Goes(c, r, "stop", "hdrop")
           /\ helper' = IF r.done THEN running ELSE helper
       \/ /\ made /\ ~job[c].late /\ helper' = running
          /\ job' = [job EXCEPT ![c].at = "hdrop", ![c].late = TRUE]
          /\ drifted' = TRUE /\ UNCHANGED <<bounds, severed>>
    /\ UNCHANGED <<box, stopping>>

\* The upgrade stops its own container; while the engine does, it waits.
Stops(c) ==
    /\ job[c].at = "stop"
    /\ \E r \in Attempts(TRUE, job[c].late) :
        /\ Costs(r) /\ Goes(c, r, "stopped", "idle")
        /\ stopping' = IF r.done THEN stopping \cup {c} ELSE stopping
    /\ UNCHANGED <<box, helper>>

\* The rollbacks, whose errors nobody looks at.
DropsHelper(c) ==
    /\ job[c].at = "hdrop"
    /\ \E r \in Attempts(helper[job[c].press].state # "absent", job[c].late) :
        /\ Costs(r)
        /\ helper' = IF r.done THEN [helper EXCEPT ![job[c].press] = NoHelper]
                               ELSE helper
    /\ job' = [job EXCEPT ![c].at = "drop"]
    /\ UNCHANGED <<box, stopping>>

DropsNew(c) ==
    /\ job[c].at = "drop"
    /\ \E r \in Attempts(Exists(New(c)), job[c].late) :
        /\ Costs(r)
        /\ box' = IF r.done THEN [box EXCEPT ![New(c)] = Absent] ELSE box
        /\ stopping' = IF r.done THEN stopping \ {New(c)} ELSE stopping
        /\ job' = [job EXCEPT ![c].at = "unname",
                              ![New(c)] = IF r.done THEN NoJob ELSE @]
    /\ UNCHANGED helper

Unnames(c) ==
    /\ job[c].at = "unname"
    /\ \E r \in Attempts(CanRename(c, job[c].name), job[c].late) :
        /\ Costs(r) /\ Goes(c, r, "idle", "idle")
        /\ box' = IF r.done THEN Named(box, c, job[c].name) ELSE box
    /\ UNCHANGED <<stopping, helper>>

Upgrades(c) ==
    \/ Pulls(c) \/ Renames(c) \/ Creates(c) \/ Clears(c)
    \/ HelperCreates(c) \/ HelperStarts(c) \/ Stops(c)
    \/ DropsHelper(c) \/ DropsNew(c) \/ Unnames(c)

-----------------------------------------------------------------------------
(* RunUpgradeHelper, in the helper of press k                              *)

Old(k) == helper[k].old
At(k, step) == Working(k) /\ helper[k].at = step
To(k, step) == helper' = [helper EXCEPT ![k].at = step]
Ends(k) == helper' = [helper EXCEPT ![k] = NoHelper]

\* The stop is sent in any case; its result is not looked at, but the call
\* returns when the engine is done with it.
Insists(k) ==
    /\ At(k, "stop")
    /\ \E r \in Attempts(Alive(Old(k)), FALSE) :
        /\ Costs(r) /\ To(k, IF r.told THEN "sent" ELSE "wait")
        /\ stopping' = IF r.done THEN stopping \cup {Old(k)} ELSE stopping
    /\ UNCHANGED <<box, job>>

Insisted(k) ==
    /\ At(k, "sent") /\ Old(k) \notin stopping /\ To(k, "wait")
    /\ UNCHANGED <<box, stopping, job, bounds, history>>

\* Waiting ends when the old container does not run, when nobody can tell, or
\* after three minutes.  The engine ends what it stops within three seconds,
\* and the upgrade does not sit on its own stop for three minutes.
Patient(k) == Old(k) \in stopping \/ job[Old(k)].at = "stop"
Waits(k) ==
    /\ At(k, "wait") /\ To(k, "look")
    /\ \E r \in Attempts(Exists(Old(k)), FALSE) :
        /\ Costs(r) /\ (r.told /\ Alive(Old(k)) => ~Patient(k))
    /\ UNCHANGED <<box, stopping, job>>

Looks(k) ==
    /\ At(k, "look")
    /\ \E r \in Attempts(Exists(Old(k)), FALSE) :
        /\ Costs(r)
        /\ To(k, IF r.told /\ Alive(Old(k)) THEN "keepdrop" ELSE "start")
    /\ UNCHANGED <<box, stopping, job>>

Starts(k) ==
    /\ At(k, "start")
    /\ \E r \in Attempts(CanStart(k + 1), FALSE) :
        /\ Costs(r) /\ To(k, IF r.told THEN "clean" ELSE "undodrop")
        /\ box' = IF r.done THEN Put(box, k + 1, "running") ELSE box
    /\ UNCHANGED <<stopping, job>>

Cleans(k) ==
    /\ At(k, "clean") /\ Ends(k)
    /\ \E r \in Attempts(Exists(Old(k)), FALSE) :
        Costs(r) /\ Removed(Old(k), r)

\* The old container kept running, or the new one did not start: the new one
\* is removed and the old one gets its name back; a stopped one is started.
Drops(k) ==
    /\ \/ At(k, "keepdrop") /\ To(k, "keepname")
       \/ At(k, "undodrop") /\ To(k, "undoname")
    /\ \E r \in Attempts(Exists(k + 1), FALSE) : Costs(r) /\ Removed(k + 1, r)

\* Mutant: the old container gets its name back and is not started.
RestoresOnly(k) ==
    /\ At(k, "keepname") \/ At(k, "undoname")
    /\ Ends(k)
    /\ \E r \in Attempts(CanRename(Old(k), helper[k].name), FALSE) :
        /\ Costs(r)
        /\ box' = IF r.done THEN Named(box, Old(k), helper[k].name) ELSE box
    /\ UNCHANGED <<stopping, job>>

Restores(k) ==
    /\ \/ At(k, "keepname") /\ Ends(k)
       \/ At(k, "undoname") /\ To(k, "undostart")
    /\ \E r \in Attempts(CanRename(Old(k), helper[k].name), FALSE) :
        /\ Costs(r)
        /\ box' = IF r.done THEN Named(box, Old(k), helper[k].name) ELSE box
    /\ UNCHANGED <<stopping, job>>

Revives(k) ==
    /\ At(k, "undostart") /\ Ends(k)
    /\ \E r \in Attempts(CanStart(Old(k)), FALSE) :
        /\ Costs(r)
        /\ box' = IF r.done THEN Put(box, Old(k), "running") ELSE box
    /\ UNCHANGED <<stopping, job>>

Helps(k) ==
    \/ Insists(k) \/ Insisted(k) \/ Waits(k) \/ Looks(k) \/ Starts(k)
    \/ Cleans(k) \/ Drops(k) \/ Restores(k) \/ Revives(k)

-----------------------------------------------------------------------------
Next ==
    \/ \E c \in Box : \/ Start(c) \/ Late(c) \/ Upgrades(c)
                      \/ Exits(c) \/ Crashes(c)
    \/ \E k \in Press : Helps(k)

Spec == Init /\ [][Next]_vars

-----------------------------------------------------------------------------
(* What an upgrade that meets one failure still promises                   *)

\* While no container of the service runs, a helper is there that has yet to
\* start one of those it knows: one failing call, a deadline that passes, a
\* crash or a second upgrade never leaves the site down for good.  Only a
\* helper whose start was reported as failed can do that: the upgrade removes
\* it when it may have stopped the service already.
SomebodyServes ==
    \/ severed
    \/ \E c \in Box : Alive(c)
    \/ \E k \in Press : /\ Working(k) /\ helper[k].at # "clean"
                        /\ Exists(Old(k)) \/ Exists(k + 1)

\* When nothing was lost, the site that is at rest runs under the name it was
\* installed with, whichever call failed.
Resting == (\A c \in Box : job[c].at = "idle") /\ (\A k \in Press : ~Working(k))
NameKept ==
    Resting /\ ~drifted =>
        \E c \in Box : Alive(c) /\ box[c].name = <<>>

UpgradeSafe == TypeOK /\ SomebodyServes /\ NameKept
=============================================================================
