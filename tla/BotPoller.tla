------------------------------ MODULE BotPoller ------------------------------
(***************************************************************************)
(* The goroutine that polls Telegram for the buttons pressed under the     *)
(* notifications (service/notify_poller.go), started and stopped by every  *)
(* call of EnsureBotPoller while others run, and the updates it confirms   *)
(* by asking for those after them.                                         *)
(***************************************************************************)
EXTENDS Integers, Sequences, FiniteSetsExt

CONSTANTS
    Caller,     \* goroutines that save a configuration and call EnsureBotPoller
    Target,     \* a bot token and proxy to poll with
    Off,        \* notifications are disabled
    MaxSaves, MaxPresses, MaxTroubles  \* bounds

Setting == Target \cup {Off}
Poller == 1 .. MaxSaves

VARIABLES
    saved,   \* the stored configuration
    call,    \* a call of EnsureBotPoller: what it read, the poller it waits for
    active,  \* activePoller with activeBotToken and activeProxyURL
    poller,  \* the pollers started so far
    queue,   \* Telegram: the updates not confirmed
    presses, saves, troubles,  \* bounds
    handled, \* history: the updates that handleNotifyCallback has dealt with
    crossed  \* history: a call could not read the configuration, or it was
             \* changed while another call was under way

bounds == <<saves, troubles>>
vars == <<saved, call, active, poller, queue, presses, bounds, handled,
          crossed>>

Idle == [at |-> "idle"]
Nobody == [id |-> 0, for |-> Off]
Ended(p) == poller[p].at = "ended"

TypeOK ==
    /\ saved \in Setting /\ Len(poller) <= MaxSaves
    /\ \A c \in Caller :
        call[c].at \in {"idle", "read", "ensure", "wait", "again"}
    /\ active.id \in 0 .. Len(poller) /\ active.for \in Setting
    /\ active.id = 0 <=> active.for = Off
    /\ \A p \in DOMAIN poller :
        /\ poller[p].at \in {"loop", "asked", "batch", "ended"}
        /\ poller[p].live \in BOOLEAN
        /\ poller[p].offset \in 1 .. presses + 1
    /\ queue \subseteq 1 .. presses /\ handled \subseteq 1 .. presses

Init ==
    /\ saved = Off /\ call = [c \in Caller |-> Idle] /\ active = Nobody
    /\ poller = <<>> /\ queue = {}
    /\ presses = 0 /\ saves = 0 /\ troubles = 0
    /\ handled = {} /\ crossed = FALSE

-----------------------------------------------------------------------------
(* EnsureBotPoller                                                         *)

\* UpdateConfig and the other callers save before they call.
Saves(c, new) ==
    /\ call[c] = Idle /\ saves < MaxSaves /\ saves' = saves + 1
    /\ saved' = new /\ call' = [call EXCEPT ![c] = [at |-> "read"]]
    /\ crossed' = \/ crossed
                  \/ new # saved /\ \E o \in Caller : call[o] # Idle
    /\ UNCHANGED <<active, poller, queue, presses, troubles, handled>>

Reads(c) ==
    /\ call[c].at = "read"
    /\ call' = [call EXCEPT ![c] = [at |-> "ensure", want |-> saved]]
    /\ UNCHANGED <<saved, active, poller, queue, presses, bounds, handled,
                   crossed>>

\* A configuration that cannot be read leaves the poller as it is.
ReadFails(c) ==
    /\ call[c].at = "read" /\ troubles < MaxTroubles
    /\ troubles' = troubles + 1 /\ call' = [call EXCEPT ![c] = Idle]
    /\ crossed' = TRUE  \* the poller keeps to the configuration before
    /\ UNCHANGED <<saved, active, poller, queue, presses, saves, handled>>

Cancelled(p) == [poller EXCEPT ![p].live = FALSE]

\* Under pollerMu: the poller stays when it polls for this already, else it is
\* cancelled and forgotten.
Ensures(c) ==
    /\ call[c].at = "ensure"
    /\ LET current == IF active.id # 0 /\ Ended(active.id) THEN Nobody
                                                           ELSE active IN
       IF current # Nobody /\ current.for = call[c].want
       THEN /\ call' = [call EXCEPT ![c] = Idle]
            /\ UNCHANGED <<active, poller>>
       ELSE /\ call' = [call EXCEPT ![c] = [at |-> "wait", want |-> @.want]]
            /\ active' = Nobody
            /\ poller' = IF current = Nobody THEN poller
                                             ELSE Cancelled(current.id)
    /\ UNCHANGED <<saved, queue, presses, bounds, handled, crossed>>

\* Without the mutex it waits until the old poller has ended, or 3 seconds.
StopsWaiting(c) ==
    /\ call[c].at = "wait"
    /\ call' = [call EXCEPT ![c] = IF @.want = Off THEN Idle
                                   ELSE [at |-> "again", want |-> @.want]]
    /\ UNCHANGED <<saved, active, poller, queue, presses, bounds, handled,
                   crossed>>

\* Under pollerMu again: another call may have started the same poller.
New(want) == [for |-> want, live |-> TRUE, at |-> "loop", offset |-> 1,
              batch |-> {}]
Launches(c) ==
    /\ call[c].at = "again" /\ call' = [call EXCEPT ![c] = Idle]
    /\ IF active # Nobody /\ active.for = call[c].want
       THEN UNCHANGED <<active, poller>>
       ELSE /\ active' = [id |-> Len(poller) + 1, for |-> call[c].want]
            /\ poller' = Append(poller, New(call[c].want))
    /\ UNCHANGED <<saved, queue, presses, bounds, handled, crossed>>

Calls(c) ==
    \/ \E new \in Setting : Saves(c, new)
    \/ Reads(c) \/ ReadFails(c) \/ Ensures(c) \/ StopsWaiting(c) \/ Launches(c)

-----------------------------------------------------------------------------
(* runTelegramPoller                                                       *)

\* A button is pressed under a message.
Pressed ==
    /\ presses < MaxPresses /\ presses' = presses + 1
    /\ queue' = queue \cup {presses + 1}
    /\ UNCHANGED <<saved, call, active, poller, bounds, handled, crossed>>

\* Mutant: the loop asks before it looks whether it was cancelled.
AsksOn(p) ==
    /\ poller[p].at = "loop"
    /\ poller' = [poller EXCEPT ![p].at = "asked"]
    /\ queue' = {u \in queue : u >= poller[p].offset}
    /\ UNCHANGED <<saved, call, active, presses, bounds, handled, crossed>>

\* getUpdates confirms what is older than the offset when it arrives ...
Asks(p) ==
    /\ poller[p].at = "loop" /\ poller[p].live
    /\ poller' = [poller EXCEPT ![p].at = "asked"]
    /\ queue' = {u \in queue : u >= poller[p].offset}
    /\ UNCHANGED <<saved, call, active, presses, bounds, handled, crossed>>

\* ... and answers with the others; a request that is refused (409 when two
\* pollers ask), times out or is cancelled is repeated with the same offset.
Answered(p) ==
    /\ poller[p].at = "asked"
    /\ poller' = [poller EXCEPT ![p].at = "batch", ![p].batch = queue]
    /\ UNCHANGED <<saved, call, active, queue, presses, bounds, handled,
                   crossed>>

Refused(p) ==
    /\ poller[p].at = "asked" /\ (poller[p].live => troubles < MaxTroubles)
    /\ troubles' = IF poller[p].live THEN troubles + 1 ELSE troubles
    /\ poller' = [poller EXCEPT ![p].at = "loop"]
    /\ UNCHANGED <<saved, call, active, queue, presses, saves, handled, crossed>>

\* handleNotifyCallback, for the updates of an answer in the order of their ids:
\* with a cancelled context it reaches nobody, but the loop goes on.
Handles(p) ==
    /\ poller[p].at = "batch" /\ poller[p].batch # {}
    /\ LET u == Min(poller[p].batch) IN
       /\ poller' = [poller EXCEPT ![p].batch = @ \ {u},
                                   ![p].offset = IF u >= @ THEN u + 1 ELSE @]
       /\ handled' = IF poller[p].live THEN handled \cup {u} ELSE handled
    /\ UNCHANGED <<saved, call, active, queue, presses, bounds, crossed>>

Loops(p) ==
    /\ poller[p].at = "batch" /\ poller[p].batch = {}
    /\ poller' = [poller EXCEPT ![p].at = "loop"]
    /\ UNCHANGED <<saved, call, active, queue, presses, bounds, handled,
                   crossed>>

Ends(p) ==
    /\ poller[p].at = "loop" /\ ~poller[p].live
    /\ poller' = [poller EXCEPT ![p].at = "ended"]
    /\ UNCHANGED <<saved, call, active, queue, presses, bounds, handled,
                   crossed>>

Polls(p) ==
    \/ Asks(p) \/ Answered(p) \/ Refused(p) \/ Handles(p) \/ Loops(p)
    \/ Ends(p)

-----------------------------------------------------------------------------
Next ==
    \/ \E c \in Caller : Calls(c)
    \/ \E p \in DOMAIN poller : Polls(p)
    \/ Pressed

Spec == Init /\ [][Next]_vars

-----------------------------------------------------------------------------
\* Telegram forgets no press of a button that nobody has dealt with, whichever
\* poller is replaced while it works through its updates.
PressesHandled == 1 .. presses \subseteq queue \cup handled

\* When the calls are over, and no configuration was changed during another's
\* call, the one poller that has not been cancelled polls for what is stored.
OnePollerLeft ==
    ~crossed /\ (\A c \in Caller : call[c] = Idle) =>
        /\ active.for = saved
        /\ {p \in DOMAIN poller : poller[p].live} = {active.id} \ {0}

PollerSafe == TypeOK /\ PressesHandled /\ OnePollerLeft
=============================================================================
