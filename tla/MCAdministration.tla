-------------------------- MODULE MCAdministration --------------------------
(***************************************************************************)
(* What administrators do while the server works: they manage the sources  *)
(* (module SourceAdmin), upgrade the server (module Upgrade), and          *)
(* reconfigure the notifications (module BotPoller).  The components share *)
(* no variable, so a behaviour follows the one chosen at its start; the    *)
(* addresses are also the targets of the notifications, so that the same   *)
(* permutations make both symmetric.                                       *)
(*                                                                         *)
(* The sources are followed in two ways, to keep the states few: one       *)
(* deletion with changes of the address ("once"), and two deletions of a   *)
(* source that keeps its address and is added again ("twice").             *)
(***************************************************************************)
EXTENDS SourceAdmin, TLC

CONSTANTS
    Part,                                            \* the parts followed
    Presses, MaxFaults, MaxCrashes,                  \* Upgrade
    Off, MaxSaves, MaxPresses, MaxTroubles,          \* BotPoller
    s1, a1, a2, c1, c2

VARIABLES
    focus,
    box, stopping, job, helper, presses, faults, crashes, drifted,
    severed,                                         \* Upgrade
    saved, call, polling, poller, updates, pressed, saves, troubles, handled,
    crossed                                          \* BotPoller

Once == INSTANCE SourceAdmin WITH Deletions <- 1, Additions <- 0
Twice == INSTANCE SourceAdmin WITH Address <- {a1}
Site == INSTANCE Upgrade
Bot == INSTANCE BotPoller WITH
    Target <- Address, active <- polling, queue <- updates, presses <- pressed

\* Notifications that are disabled have no bot to poll with, and the bounds are
\* numbers.
ASSUME PollerAssumption ==
    /\ Off \notin Address
    /\ MaxSaves \in Nat /\ MaxPresses \in Nat /\ MaxTroubles \in Nat

siteVars == <<box, stopping, job, helper, presses, faults, crashes, drifted,
    severed>>
botVars == <<saved, call, polling, poller, updates, pressed, saves, troubles,
    handled, crossed>>

AdministrationInit ==
    /\ focus \in Part
    /\ IF focus = "twice" THEN Twice!Init ELSE Once!Init
    /\ Site!Init /\ Bot!Init

AdministrationNext ==
    /\ UNCHANGED focus
    /\ \/ focus = "once" /\ Once!Next /\ UNCHANGED <<siteVars, botVars>>
       \/ focus = "twice" /\ Twice!Next /\ UNCHANGED <<siteVars, botVars>>
       \/ focus = "site" /\ Site!Next /\ UNCHANGED <<vars, botVars>>
       \/ focus = "bot" /\ Bot!Next /\ UNCHANGED <<vars, siteVars>>

AdministrationSpec ==
    AdministrationInit /\ [][AdministrationNext]_<<focus, vars, siteVars, botVars>>

Alike == Permutations({a1, a2}) \cup Permutations({c1, c2})

\* One failing call, deadline, crash or second upgrade does not leave the site
\* down for good, and an upgrade that lost nothing leaves the name as it was.
UpgradeSafe == Site!UpgradeSafe

\* Whichever poller is replaced while it works, no press of a button is lost,
\* and what polls in the end polls for what is stored, alone.
PollerSafe == Bot!PollerSafe
=============================================================================
