--------------------------- MODULE PipelineProofs ---------------------------
(***************************************************************************)
(* Proofs about the stream publisher, for every set of films and of runs   *)
(* and for every limit; about the hours of the scheduled runs, for every   *)
(* length of the hour, every delay and any number of runs; and about the   *)
(* search index, for every set of films and whatever the tables say.       *)
(***************************************************************************)
EXTENDS MCPipeline, Sequences, FiniteSetTheorems, WellFoundedInduction, TLAPS

\* Who settles keeps publishMu from its first window to its unlock, and never
\* drains as those do who take the mutex for one window; the ticker is soft.
Owned ==
    /\ \A p \in Proc :
        /\ InMutex(p) /\ at[p] \in {"take", "more"} => publisher = p
        /\ at[p] \in {"wait", "again"} => ~InMutex(p)
        /\ at[p] \in {"schedule", "unlock"} => InMutex(p)
    /\ mode[Ticker] = "soft" /\ at[Ticker] \in Draining \cup {"tick"}

\* A page is in a run's hands only until it is buffered.
PageInHand ==
    \A r \in Run :
        /\ page[r] # {} => at[r] \in {"add", "buffer"}
        /\ Cardinality(page[r]) <= PageSize

Typed == TypeOK /\ Owned /\ PageInHand

\* NoFilmForgotten, run by run: another run's page does not stand in for it.
Followed ==
    \A m \in Film : \A r \in unlisted[m] :
        \/ buf[m] # "none"
        \/ m \in page[r]
        \/ \E p \in Proc : window[p][m] # "none"

\* Who is about to hand its films over has left none behind in the buffer.
Flushed ==
    \A r \in Run : at[r] = "schedule" =>
        \A m \in affected[r] : r \in unlisted[m] =>
            \E p \in Proc \ {r} : window[p][m] # "none"

\* The runs that added a page and have not seen the pressure gone since.
Pushing == {r \in Run : at[r] \in Draining \cup {"pressure"} /\ ~InMutex(r)}

\* Only they hold the buffer above its backlog.
PushedUp ==
    fails = 0 => Cardinality(Kept(buf)) < Backlog + PageSize * Cardinality(Pushing)

StreamInv == Typed /\ Followed /\ PreferredKept /\ Flushed /\ PushedUp

USE DEF Draining, Places

-----------------------------------------------------------------------------
(* What the steps of a drain do to the buffer and the window.               *)

\* A window takes some of the films kept out of the buffer, with their flags.
Takes(p) ==
    \E G \in SUBSET Kept(buf) :
        /\ G # {}
        /\ window' = [window EXCEPT ![p] =
                [m \in Film |-> IF m \in G THEN buf[m] ELSE "none"]]
        /\ buf' = [m \in Film |-> IF m \in G THEN "none" ELSE buf[m]]

LEMMA WindowTaken ==
    ASSUME NEW p, NEW pref, NEW back, TakeWindow(p, pref, back)
    PROVE  Takes(p)
<1>1. PICK S \in SUBSET Flagged(buf, "preferred"),
           T \in SUBSET Flagged(buf, "backup") :
        /\ S \cup T # {}
        /\ window' = [window EXCEPT ![p] =
                [m \in Film |-> IF m \in S \cup T THEN buf[m] ELSE "none"]]
        /\ buf' = [m \in Film |-> IF m \in S \cup T THEN "none" ELSE buf[m]]
  BY DEF TakeWindow
<1>2. S \cup T \in SUBSET Kept(buf)
  BY DEF Flagged, Kept
<1>. QED
  BY <1>1, <1>2 DEF Takes

\* Take, and TakeAgain when it takes.
LEMMA TakeTakes ==
    ASSUME NEW p, Take(p)
    PROVE  Takes(p)
BY WindowTaken DEF Take

\* The types of what a taken window leaves.
LEMMA TakesTypes ==
    ASSUME TypeOK, NEW p \in Proc, Takes(p)
    PROVE  /\ buf' \in [Film -> Flag]
           /\ window' \in [Proc -> [Film -> Flag]]
           /\ \E m \in Film : window'[p][m] # "none"
           /\ \A q \in Proc \ {p} : window'[q] = window[q]
<1>1. PICK G \in SUBSET Kept(buf) :
        /\ G # {}
        /\ window' = [window EXCEPT ![p] =
                [m \in Film |-> IF m \in G THEN buf[m] ELSE "none"]]
        /\ buf' = [m \in Film |-> IF m \in G THEN "none" ELSE buf[m]]
  BY DEF Takes
<1>2. buf \in [Film -> Flag] /\ window \in [Proc -> [Film -> Flag]]
  BY DEF TypeOK
<1>3. buf' \in [Film -> Flag]
  BY <1>1, <1>2 DEF Flag
<1>4. [m \in Film |-> IF m \in G THEN buf[m] ELSE "none"] \in [Film -> Flag]
  BY <1>2 DEF Flag
<1>5. window' \in [Proc -> [Film -> Flag]]
  BY <1>1, <1>2, <1>4
<1>6. PICK m \in G : TRUE
  BY <1>1
<1>7. window'[p][m] # "none" /\ m \in Film
  BY <1>1, <1>2, <1>6 DEF Kept
<1>8. \A q \in Proc \ {p} : window'[q] = window[q]
  BY <1>1, <1>2
<1>. QED
  BY <1>3, <1>5, <1>7, <1>8

\* Merging keeps every film that either side keeps, and prefers.
LEMMA MergedKeeps ==
    ASSUME NEW old \in [Film -> Flag], NEW new \in [Film -> Flag]
    PROVE  /\ Merged(old, new) \in [Film -> Flag]
           /\ Kept(Merged(old, new)) = Kept(old) \cup Kept(new)
           /\ \A m \in Film : Merged(old, new)[m] = "preferred"
                <=> old[m] = "preferred" \/ new[m] = "preferred"
BY DEF Merged, Kept, Flag

LEMMA EmptyWindow ==
    /\ Empty \in [Film -> Flag]
    /\ \A m \in Film : Empty[m] = "none"
BY DEF Empty, Flag

-----------------------------------------------------------------------------
(* Types, the holder of the mutex and the pages in hand.                    *)

LEMMA TypedSteps ==
    ASSUME Typed
    PROVE  /\ Tick => Typed'
           /\ \A r \in Run : Works(r) => Typed'
           /\ \A p \in Proc : Drains(p) => Typed'
           /\ \A r \in Run, films \in SUBSET Film : WritePage(r, films) => Typed'
<1>. USE StreamAssumption, EmptyWindow, FS_EmptySet
<1>1. ASSUME Tick
      PROVE  Typed'
  BY <1>1 DEF Typed, TypeOK, Owned, PageInHand, dataVars, Go, Proc,
     InMutex, Tick
<1>2. ASSUME NEW r \in Run, AddAffected(r)
      PROVE  Typed'
  BY <1>2 DEF Typed, TypeOK, Owned, PageInHand, dataVars, Go, Proc,
     InMutex, AddAffected
<1>3. ASSUME NEW r \in Run, Buffer(r)
      PROVE  Typed'
  <2>. DEFINE added == [m \in Film |-> IF m \in page[r]
                THEN IF r \in Preferred THEN "preferred" ELSE "backup" ELSE "none"]
  <2>1. added \in [Film -> Flag]
    BY DEF Flag
  <2>2. buf' = Merged(buf, added)
    BY <1>3 DEF Buffer
  <2>3. buf' \in [Film -> Flag]
    BY <2>1, <2>2, MergedKeeps DEF Typed, TypeOK
  <2>4. urgent' \subseteq Film
    BY <1>3 DEF Buffer, Typed, TypeOK
  <2>. HIDE DEF added
  <2>. QED
    BY <1>3, <2>3, <2>4 DEF Typed, TypeOK, Owned, PageInHand, dataVars, Go, Proc,
     InMutex, Buffer
<1>4. ASSUME NEW r \in Run, Relieved(r)
      PROVE  Typed'
  <2>1. CASE Pressed
    <3>1. /\ at[r] = "pressure" /\ at' = [at EXCEPT ![r] = "take"]
          /\ mode' = [mode EXCEPT ![r] = "hard"]
          /\ UNCHANGED <<dataVars, buf, window, publisher, resealed, urgent, fails>>
      BY <1>4, <2>1 DEF Relieved, Go
    <3>. QED
      BY <3>1 DEF Typed, TypeOK, Owned, PageInHand, dataVars, Go, Proc,
     InMutex
  <2>2. CASE ~Pressed
    <3>1. /\ at[r] = "pressure" /\ at' = [at EXCEPT ![r] = "fetch"]
          /\ UNCHANGED <<dataVars, buf, window, mode, publisher, resealed, urgent,
                         fails>>
      BY <1>4, <2>2 DEF Relieved, Go
    <3>. QED
      BY <3>1 DEF Typed, TypeOK, Owned, PageInHand, dataVars, Go, Proc,
     InMutex
  <2>. QED
    BY <2>1, <2>2
<1>5. ASSUME NEW r \in Run, SourceEnds(r)
      PROVE  Typed'
  BY <1>5 DEF Typed, TypeOK, Owned, PageInHand, dataVars, Go, Proc,
     InMutex, SourceEnds
<1>6. ASSUME NEW r \in Run, Settle(r)
      PROVE  Typed'
  BY <1>6 DEF Typed, TypeOK, Owned, PageInHand, dataVars, Go, Proc,
     InMutex, Settle
<1>7. ASSUME NEW r \in Run, NothingLeft(r)
      PROVE  Typed'
  BY <1>7 DEF Typed, TypeOK, Owned, PageInHand, dataVars, Go, Proc,
     InMutex, NothingLeft
<1>8. ASSUME NEW r \in Run, Schedule(r)
      PROVE  Typed'
  BY <1>8 DEF Typed, TypeOK, Owned, PageInHand, dataVars, Go, Proc,
     InMutex, Schedule
<1>9. ASSUME NEW r \in Run, UnlockPublish(r)
      PROVE  Typed'
  BY <1>9 DEF Typed, TypeOK, Owned, PageInHand, dataVars, Go, Proc,
     InMutex, UnlockPublish
<1>10. ASSUME NEW p \in Proc, Take(p)
      PROVE  Typed'
  <2>1. /\ buf' \in [Film -> Flag] /\ window' \in [Proc -> [Film -> Flag]]
        /\ \E m \in Film : window'[p][m] # "none"
        /\ \A q \in Proc \ {p} : window'[q] = window[q]
    BY <1>10, TakeTakes, TakesTypes DEF Typed
  <2>2. /\ at[p] = "take"
        /\ at' = [at EXCEPT ![p] = IF InMutex(p) THEN "publish" ELSE "wait"]
        /\ UNCHANGED <<unlisted, page, pages, affected, mode, publisher, resealed,
                       urgent, fails>>
    BY <1>10 DEF Take, Go, dataVars
  <2>3. \A q \in Proc :
            (\E m \in Film : window'[q][m] # "none") <=> at'[q] \in {"wait", "publish"}
    BY <2>1, <2>2 DEF Typed, TypeOK
  <2>4. InMutex(p) => publisher = p
    BY <2>2 DEF Typed, Owned
  <2>5. /\ at' \in [Proc -> Places] /\ \A q \in Proc \ {p} : at'[q] = at[q]
        /\ at'[p] = IF InMutex(p) THEN "publish" ELSE "wait"
    BY <2>2 DEF Typed, TypeOK
  <2>6. TypeOK'
    BY <2>1, <2>2, <2>3, <2>4, <2>5 DEF Typed, TypeOK
  <2>7. Owned' /\ PageInHand'
    BY <2>2, <2>5 DEF Typed, TypeOK, Owned, PageInHand, Proc, InMutex
  <2>. QED
    BY <2>6, <2>7 DEF Typed
<1>11. ASSUME NEW p \in Proc, TakeNothing(p)
      PROVE  Typed'
  <2>1. CASE Forced(p)
    <3>1. CASE InMutex(p)
      BY <1>11, <2>1, <3>1 DEF Typed, TypeOK, Owned, PageInHand, dataVars, Go, Proc,
     InMutex, TakeNothing, Return, Forced
    <3>2. CASE ~InMutex(p)
      BY <1>11, <2>1, <3>2 DEF Typed, TypeOK, Owned, PageInHand, dataVars, Go, Proc,
     InMutex, TakeNothing, Return, Forced
    <3>. QED
      BY <3>1, <3>2
  <2>2. CASE ~Forced(p)
    BY <1>11, <2>2 DEF Typed, TypeOK, Owned, PageInHand, dataVars, Go, Proc,
     InMutex, TakeNothing, Forced
  <2>. QED
    BY <2>1, <2>2
<1>12. ASSUME NEW p \in Proc, TakeAgain(p)
      PROVE  Typed'
  <2>1. ASSUME TakeWindow(p, TRUE, TRUE), Go(p, "wait")
        PROVE  Typed'
    <3>1. /\ buf' \in [Film -> Flag] /\ window' \in [Proc -> [Film -> Flag]]
          /\ \E m \in Film : window'[p][m] # "none"
          /\ \A q \in Proc \ {p} : window'[q] = window[q]
      BY <2>1, WindowTaken, TakesTypes DEF Typed
    <3>. QED
      BY <1>12, <2>1, <3>1 DEF Typed, TypeOK, Owned, PageInHand, dataVars, Go, Proc,
     InMutex, TakeAgain
  <2>2. ASSUME Go(p, Return(p)), UNCHANGED <<buf, window>>
        PROVE  Typed'
    <3>1. Return(p) = IF p = Ticker THEN "tick" ELSE "pressure"
      BY <1>12 DEF Typed, TypeOK, Owned, PageInHand, dataVars, Go, Proc,
     InMutex, TakeAgain, Return
    <3>. QED
      BY <1>12, <2>2, <3>1 DEF Typed, TypeOK, Owned, PageInHand, dataVars, Go, Proc,
     InMutex, TakeAgain
  <2>. QED
    BY <1>12, <2>1, <2>2 DEF TakeAgain
<1>13. ASSUME NEW p \in Proc, LockPublish(p)
      PROVE  Typed'
  BY <1>13 DEF Typed, TypeOK, Owned, PageInHand, dataVars, Go, Proc,
     InMutex, LockPublish
<1>14. ASSUME NEW p \in Proc, Publish(p)
      PROVE  Typed'
  BY <1>14 DEF Typed, TypeOK, Owned, PageInHand, dataVars, Go, Proc,
     InMutex, Publish
<1>15. ASSUME NEW p \in Proc, PublishFails(p)
      PROVE  Typed'
  BY <1>15, MergedKeeps DEF Typed, TypeOK, Owned, PageInHand, dataVars, Go, Proc,
     InMutex, PublishFails, ReturnError
<1>16. ASSUME NEW p \in Proc, More(p)
      PROVE  Typed'
  BY <1>16 DEF Typed, TypeOK, Owned, PageInHand, dataVars, Go, Proc,
     InMutex, More, Return, Forced
<1>17. ASSUME NEW r \in Run, NEW films \in SUBSET Film, WritePage(r, films)
       PROVE  Typed'
  BY <1>17 DEF Typed, TypeOK, Owned, PageInHand, dataVars, Go, Proc,
     InMutex, WritePage
<1>. QED
  BY <1>1, <1>2, <1>3, <1>4, <1>5, <1>6, <1>7, <1>8, <1>9, <1>10, <1>11,
     <1>12, <1>13, <1>14, <1>15, <1>16, <1>17 DEF Works, Drains

-----------------------------------------------------------------------------
(* No film is lost on its way.                                              *)

\* Who does not hold a window has an empty one.
LEMMA NoWindow ==
    ASSUME TypeOK, NEW p \in Proc, at[p] \notin {"wait", "publish"}, NEW m \in Film
    PROVE  window[p][m] = "none"
BY DEF TypeOK, Flag

\* Taking a window moves films, and flags with them.
LEMMA TakesKeeps ==
    ASSUME TypeOK, NEW p \in Proc, Takes(p), at[p] \in {"take", "again"}, NEW m \in Film
    PROVE  /\ \A q \in Proc : window[q][m] # "none" => window'[q][m] = window[q][m]
           /\ buf'[m] = buf[m] \/ window'[p][m] = buf[m]
<1>1. \A q \in Proc \ {p} : window'[q] = window[q]
  BY TakesTypes
<1>2. window[p][m] = "none"
  BY NoWindow
<1>3. buf'[m] = buf[m] \/ window'[p][m] = buf[m]
  BY DEF Takes, TypeOK
<1>. QED
  BY <1>1, <1>2, <1>3

LEMMA TakeAgainKeeps ==
    ASSUME TypeOK, NEW p \in Proc, TakeAgain(p), NEW m \in Film
    PROVE  /\ \A q \in Proc : window[q][m] # "none" => window'[q][m] = window[q][m]
           /\ buf'[m] = buf[m] \/ window'[p][m] = buf[m]
<1>1. CASE TakeWindow(p, TRUE, TRUE)
  BY <1>1, WindowTaken, TakesKeeps DEF TakeAgain
<1>2. CASE UNCHANGED <<buf, window>>
  BY <1>2
<1>. QED
  BY <1>1, <1>2 DEF TakeAgain

\* What each other step of a drain leaves alone.
LEMMA FollowedSteps ==
    ASSUME Typed, Followed, Next
    PROVE  Followed'
<1>1. ASSUME UNCHANGED <<unlisted, page, buf, window>>
      PROVE  Followed'
  BY <1>1 DEF Followed
<1>2. ASSUME NEW p \in Proc, Take(p) \/ TakeAgain(p)
      PROVE  Followed'
  <2>1. UNCHANGED <<unlisted, page>>
    BY <1>2 DEF Take, TakeAgain, dataVars
  <2>2. ASSUME NEW m \in Film
        PROVE  /\ \A q \in Proc :
                    window[q][m] # "none" => window'[q][m] = window[q][m]
               /\ buf'[m] = buf[m] \/ window'[p][m] = buf[m]
    <3>1. CASE Take(p)
      BY <3>1, TakeTakes, TakesKeeps DEF Take, Typed
    <3>2. CASE TakeAgain(p)
      BY <3>2, TakeAgainKeeps DEF Typed
    <3>. QED
      BY <1>2, <3>1, <3>2
  <2>. QED
    BY <2>1, <2>2 DEF Followed
<1>3. ASSUME NEW p \in Proc, Publish(p)
      PROVE  Followed'
  <2>1. \A q \in Proc \ {p} : window'[q] = window[q]
    BY <1>3 DEF Publish, Typed, TypeOK
  <2>2. ASSUME NEW m \in Film, unlisted'[m] # {}
        PROVE  unlisted'[m] = unlisted[m] /\ window[p][m] = "none"
    BY <1>3, <2>2 DEF Publish, Typed, TypeOK, Kept
  <2>. QED
    BY <1>3, <2>1, <2>2 DEF Publish, Followed
<1>4. ASSUME NEW p \in Proc, PublishFails(p)
      PROVE  Followed'
  <2>1. \A q \in Proc \ {p} : window'[q] = window[q]
    BY <1>4 DEF PublishFails, Typed, TypeOK
  <2>2. Kept(buf') = Kept(buf) \cup Kept(window[p])
    BY <1>4, MergedKeeps DEF PublishFails, Typed, TypeOK
  <2>. QED
    BY <1>4, <2>1, <2>2 DEF PublishFails, Followed, dataVars, Kept
<1>5. ASSUME NEW r \in Run, Buffer(r)
      PROVE  Followed'
  <2>. DEFINE added == [m \in Film |-> IF m \in page[r]
                THEN IF r \in Preferred THEN "preferred" ELSE "backup" ELSE "none"]
  <2>1. added \in [Film -> Flag] /\ page[r] \subseteq Kept(added)
    BY DEF Flag, Kept, Typed, TypeOK
  <2>2. buf' = Merged(buf, added)
    BY <1>5 DEF Buffer
  <2>. HIDE DEF added
  <2>3. Kept(buf') = Kept(buf) \cup Kept(added)
    BY <2>1, <2>2, MergedKeeps DEF Typed, TypeOK
  <2>4. \A x \in Run \ {r} : page'[x] = page[x]
    BY <1>5 DEF Buffer, Typed, TypeOK
  <2>5. UNCHANGED <<unlisted, window>>
    BY <1>5 DEF Buffer
  <2>. QED
    BY <2>1, <2>3, <2>4, <2>5 DEF Followed, Kept, Typed, TypeOK
<1>6. ASSUME NEW r \in Run, NEW films \in SUBSET Film, WritePage(r, films)
      PROVE  Followed'
  <2>1. \A x \in Run \ {r} : page'[x] = page[x]
    BY <1>6 DEF WritePage, Typed, TypeOK
  <2>2. page'[r] = films /\ page[r] = {}
    BY <1>6 DEF WritePage, Typed, TypeOK, PageInHand
  <2>3. \A m \in Film : unlisted'[m] =
            IF m \in films THEN unlisted[m] \cup {r} ELSE unlisted[m]
    BY <1>6 DEF WritePage
  <2>4. UNCHANGED <<buf, window>>
    BY <1>6 DEF WritePage
  <2>. QED
    <3>1. SUFFICES ASSUME NEW m \in Film, NEW x \in unlisted'[m]
          PROVE  \/ buf'[m] # "none"
                 \/ m \in page'[x]
                 \/ \E p \in Proc : window'[p][m] # "none"
      BY DEF Followed
    <3>2. CASE x = r /\ m \in films
      BY <3>2, <2>2
    <3>3. CASE ~(x = r /\ m \in films)
      <4>0. x \in unlisted[m]
        BY <3>3, <2>3
      <4>1. x \in unlisted[m] /\ x \in Run
        BY <4>0 DEF Typed, TypeOK
      <4>2. page[x] \subseteq page'[x]
        BY <4>1, <2>1, <2>2
      <4>. QED
        BY <4>1, <4>2, <2>4 DEF Followed
    <3>. QED
      BY <3>2, <3>3
<1>7. ASSUME NEW p \in Proc, TakeNothing(p) \/ LockPublish(p) \/ More(p)
      PROVE  UNCHANGED <<unlisted, page, buf, window>>
  BY <1>7 DEF TakeNothing, LockPublish, More, dataVars
<1>8. ASSUME NEW r \in Run, Works(r), ~Buffer(r)
      PROVE  UNCHANGED <<unlisted, page, buf, window>>
  BY <1>8 DEF Works, AddAffected, Relieved, SourceEnds, Settle, NothingLeft,
     Schedule, UnlockPublish, dataVars
<1>9. Tick => UNCHANGED <<unlisted, page, buf, window>>
  BY DEF Tick, dataVars
<1>. QED
  BY <1>1, <1>2, <1>3, <1>4, <1>5, <1>6, <1>7, <1>8, <1>9 DEF Next, Drains

\* A step that buffers, takes, publishes or puts back keeps the precedence of
\* the preferred source's films.
LEMMA PreferredSteps ==
    ASSUME Typed, PreferredKept, Next
    PROVE  PreferredKept'
<1>1. ASSUME UNCHANGED <<urgent, buf, window>>
      PROVE  PreferredKept'
  BY <1>1 DEF PreferredKept
<1>2. ASSUME NEW p \in Proc, Take(p) \/ TakeAgain(p)
      PROVE  PreferredKept'
  <2>1. UNCHANGED urgent
    BY <1>2 DEF Take, TakeAgain
  <2>2. ASSUME NEW m \in Film
        PROVE  /\ \A q \in Proc :
                    window[q][m] # "none" => window'[q][m] = window[q][m]
               /\ buf'[m] = buf[m] \/ window'[p][m] = buf[m]
    <3>1. CASE Take(p)
      BY <3>1, TakeTakes, TakesKeeps DEF Take, Typed
    <3>2. CASE TakeAgain(p)
      BY <3>2, TakeAgainKeeps DEF Typed
    <3>. QED
      BY <1>2, <3>1, <3>2
  <2>3. urgent \subseteq Film
    BY DEF Typed, TypeOK
  <2>. QED
    BY <2>1, <2>2, <2>3 DEF PreferredKept
<1>3. ASSUME NEW p \in Proc, Publish(p)
      PROVE  PreferredKept'
  <2>1. \A q \in Proc \ {p} : window'[q] = window[q]
    BY <1>3 DEF Publish, Typed, TypeOK
  <2>2. urgent' \subseteq urgent /\ urgent \subseteq Film /\ buf' = buf
    BY <1>3 DEF Publish, Typed, TypeOK
  <2>3. \A m \in urgent' : window[p][m] # "preferred"
    BY <1>3, <2>2 DEF Publish, Flagged
  <2>. QED
    BY <2>1, <2>2, <2>3 DEF PreferredKept
<1>4. ASSUME NEW p \in Proc, PublishFails(p)
      PROVE  PreferredKept'
  <2>1. \A q \in Proc \ {p} : window'[q] = window[q]
    BY <1>4 DEF PublishFails, Typed, TypeOK
  <2>2. \A m \in Film : buf'[m] = "preferred"
            <=> buf[m] = "preferred" \/ window[p][m] = "preferred"
    BY <1>4, MergedKeeps DEF PublishFails, Typed, TypeOK
  <2>3. UNCHANGED urgent /\ urgent \subseteq Film
    BY <1>4 DEF PublishFails, Typed, TypeOK
  <2>. QED
    BY <2>1, <2>2, <2>3 DEF PreferredKept
<1>5. ASSUME NEW r \in Run, Buffer(r)
      PROVE  PreferredKept'
  <2>. DEFINE added == [m \in Film |-> IF m \in page[r]
                THEN IF r \in Preferred THEN "preferred" ELSE "backup" ELSE "none"]
  <2>1. added \in [Film -> Flag]
    BY DEF Flag
  <2>2. r \in Preferred => \A m \in page[r] : added[m] = "preferred"
    BY DEF Typed, TypeOK
  <2>3. buf' = Merged(buf, added)
    BY <1>5 DEF Buffer
  <2>. HIDE DEF added
  <2>4. \A m \in Film : buf'[m] = "preferred"
            <=> buf[m] = "preferred" \/ added[m] = "preferred"
    BY <2>1, <2>3, MergedKeeps DEF Typed, TypeOK
  <2>5. urgent' = IF r \in Preferred THEN urgent \cup page[r] ELSE urgent
    BY <1>5 DEF Buffer
  <2>6. urgent \subseteq Film /\ page[r] \subseteq Film /\ window' = window
    BY <1>5 DEF Buffer, Typed, TypeOK
  <2>. QED
    BY <2>2, <2>4, <2>5, <2>6 DEF PreferredKept
<1>6. ASSUME NEW r \in Run, NEW films \in SUBSET Film, WritePage(r, films)
      PROVE  UNCHANGED <<urgent, buf, window>>
  BY <1>6 DEF WritePage
<1>7. ASSUME NEW p \in Proc, TakeNothing(p) \/ LockPublish(p) \/ More(p)
      PROVE  UNCHANGED <<urgent, buf, window>>
  BY <1>7 DEF TakeNothing, LockPublish, More
<1>8. ASSUME NEW r \in Run, Works(r), ~Buffer(r)
      PROVE  UNCHANGED <<urgent, buf, window>>
  BY <1>8 DEF Works, AddAffected, Relieved, SourceEnds, Settle, NothingLeft,
     Schedule, UnlockPublish
<1>9. Tick => UNCHANGED <<urgent, buf, window>>
  BY DEF Tick
<1>. QED
  BY <1>1, <1>2, <1>3, <1>4, <1>5, <1>6, <1>7, <1>8, <1>9 DEF Next, Drains

-----------------------------------------------------------------------------
(* What a settling run hands over.                                          *)

\* A step of a process moves nobody else.
LEMMA DrainsMoves ==
    ASSUME TypeOK, NEW p \in Proc, Drains(p)
    PROVE  \A q \in Proc \ {p} : at'[q] = at[q]
<1>1. \E there : at' = [at EXCEPT ![p] = there]
  <2>1. CASE Take(p) \/ TakeNothing(p) \/ More(p)
    BY <2>1, Zenon DEF Take, TakeNothing, More, Go
  <2>2. CASE TakeAgain(p)
    BY <2>2, Zenon DEF TakeAgain, Go
  <2>3. CASE LockPublish(p) \/ Publish(p) \/ PublishFails(p)
    BY <2>3, Zenon DEF LockPublish, Publish, PublishFails, Go
  <2>. QED
    BY <2>1, <2>2, <2>3 DEF Drains
<1>. QED
  BY <1>1 DEF TypeOK

\* Only a run in the mutex comes to hand over, with an empty buffer, and its
\* own page and window empty.
LEMMA ComesToSchedule ==
    ASSUME Typed, Next, NEW r \in Run, at'[r] = "schedule", at[r] # "schedule"
    PROVE  /\ Kept(buf) = {}
           /\ UNCHANGED <<dataVars, buf, window>>
           /\ at[r] \in {"take", "more"}
<1>. r \in Proc /\ r # Ticker
  BY StreamAssumption DEF Proc
<1>1. ASSUME NEW p \in Proc, Drains(p)
      PROVE  /\ Kept(buf) = {}
             /\ UNCHANGED <<dataVars, buf, window>>
             /\ at[r] \in {"take", "more"}
  <2>1. p = r
    BY <1>1, DrainsMoves DEF Typed
  <2>2. CASE TakeNothing(r)
    <3>1. at[r] = "take" /\ at'[r] = IF Forced(r) THEN Return(r) ELSE "again"
      BY <2>2 DEF TakeNothing, Go, Typed, TypeOK
    <3>2. Forced(r)
      BY <3>1
    <3>. QED
      BY <2>2, <3>1, <3>2 DEF TakeNothing
  <2>3. CASE More(r)
    <3>1. at[r] = "more" /\ UNCHANGED <<dataVars, buf, window>>
      BY <2>3 DEF More
    <3>2. at'[r] = IF IF Forced(r) THEN Kept(buf) = {} ELSE ~Pressed
                   THEN Return(r) ELSE "take"
      BY <2>3 DEF More, Go, Typed, TypeOK
    <3>3. Forced(r) /\ Kept(buf) = {}
      BY <3>2 DEF Return, Forced, InMutex
    <3>. QED
      BY <3>1, <3>3
  <2>4. CASE TakeAgain(r)
    BY <2>4 DEF TakeAgain, Go, Return, Typed, TypeOK, Owned
  <2>5. ~(Take(r) \/ LockPublish(r) \/ Publish(r) \/ PublishFails(r))
    BY DEF Take, LockPublish, Publish, PublishFails, ReturnError, Go, Typed, TypeOK
  <2>. QED
    BY <1>1, <2>1, <2>2, <2>3, <2>4, <2>5 DEF Drains
<1>2. ~Tick
  BY DEF Tick, Go, Typed, TypeOK
<1>3. ASSUME NEW x \in Run, Works(x)
      PROVE  FALSE
  BY <1>3 DEF Works, AddAffected, Buffer, Relieved, SourceEnds, Settle,
     NothingLeft, Schedule, UnlockPublish, Go, Typed, TypeOK
<1>4. ASSUME NEW x \in Run, NEW films \in SUBSET Film, WritePage(x, films)
      PROVE  FALSE
  BY <1>4 DEF WritePage, Go, Typed, TypeOK
<1>. QED
  BY <1>1, <1>2, <1>3, <1>4 DEF Next

LEMMA FlushedSteps ==
    ASSUME Typed, Followed, Flushed, Next
    PROVE  Flushed'
<1>1. SUFFICES ASSUME NEW r \in Run, at'[r] = "schedule",
                      NEW m \in affected'[r], r \in unlisted'[m]
      PROVE  \E p \in Proc \ {r} : window'[p][m] # "none"
  BY DEF Flushed
<1>. r \in Proc
  BY DEF Proc
<1>2. CASE at[r] # "schedule"
  <2>1. Kept(buf) = {} /\ at[r] \in {"take", "more"}
    BY <1>1, <1>2, ComesToSchedule
  <2>2. UNCHANGED <<unlisted, affected, window>>
    BY <1>1, <1>2, ComesToSchedule DEF dataVars
  <2>3. m \in Film /\ r \in unlisted[m]
    BY <1>1, <2>2 DEF Typed, TypeOK
  <2>4. buf[m] = "none" /\ page[r] = {}
    BY <2>1, <2>3 DEF Kept, Typed, PageInHand
  <2>5. PICK p \in Proc : window[p][m] # "none"
    BY <2>3, <2>4 DEF Followed
  <2>6. p # r
    BY <2>1, <2>3, <2>5, NoWindow DEF Typed
  <2>. QED
    BY <2>2, <2>5, <2>6
<1>3. CASE at[r] = "schedule"
  <2>1. publisher = r
    BY <1>3 DEF Typed, TypeOK
  <2>2. ASSUME NEW x \in Run, Works(x) \/ \E films \in SUBSET Film : WritePage(x, films)
        PROVE  affected'[r] = affected[r] /\ window' = window /\ r \in unlisted[m]
    <3>1. x # r
      BY <1>1, <1>3, <2>2 DEF Works, AddAffected, Buffer, Relieved, SourceEnds,
         Settle, NothingLeft, Schedule, UnlockPublish, WritePage, Go, Typed, TypeOK
    <3>2. CASE Works(x)
      BY <3>1, <3>2, <1>1 DEF Works, AddAffected, Buffer, Relieved, SourceEnds,
         Settle, NothingLeft, Schedule, UnlockPublish, dataVars, Typed, TypeOK
    <3>3. CASE \E films \in SUBSET Film : WritePage(x, films)
      <4>1. affected' = affected /\ window' = window
        BY <3>3 DEF WritePage
      <4>2. m \in Film
        BY <4>1, <1>1 DEF Typed, TypeOK
      <4>. QED
        BY <3>1, <3>3, <4>1, <4>2, <1>1 DEF WritePage
    <3>. QED
      BY <2>2, <3>2, <3>3
  <2>3. Tick => affected'[r] = affected[r] /\ window' = window /\ r \in unlisted[m]
    BY <1>1 DEF Tick, dataVars
  <2>4. ASSUME NEW p \in Proc, Drains(p)
        PROVE  /\ affected' = affected /\ unlisted' = unlisted
               /\ \A q \in Proc : window[q][m] # "none" => window'[q][m] # "none"
    <3>1. affected' = affected
      BY <2>4 DEF Drains, Take, TakeNothing, TakeAgain, LockPublish, Publish,
         PublishFails, More, dataVars
    <3>2. m \in Film
      BY <3>1, <1>1 DEF Typed, TypeOK
    <3>3. ~Publish(p) /\ ~PublishFails(p)
      BY <2>1, <1>3 DEF Publish, PublishFails, Typed, TypeOK
    <3>4. CASE Take(p)
      <4>1. \A q \in Proc : window[q][m] # "none" => window'[q][m] = window[q][m]
        BY <3>2, <3>4, TakeTakes, TakesKeeps DEF Take, Typed
      <4>. QED
        BY <3>1, <3>4, <4>1 DEF Take, dataVars
    <3>5. CASE TakeAgain(p)
      <4>1. \A q \in Proc : window[q][m] # "none" => window'[q][m] = window[q][m]
        BY <3>2, <3>5, TakeAgainKeeps DEF Typed
      <4>. QED
        BY <3>1, <3>5, <4>1 DEF TakeAgain, dataVars
    <3>6. CASE TakeNothing(p) \/ LockPublish(p) \/ More(p)
      BY <3>6 DEF TakeNothing, LockPublish, More, dataVars
    <3>. QED
      BY <2>4, <3>3, <3>4, <3>5, <3>6 DEF Drains
  <2>5. CASE \E p \in Proc : Drains(p)
    BY <1>1, <1>3, <2>4, <2>5 DEF Flushed
  <2>6. CASE ~\E p \in Proc : Drains(p)
    BY <1>1, <1>3, <2>2, <2>3, <2>6 DEF Flushed, Next
  <2>. QED
    BY <2>5, <2>6
<1>. QED
  BY <1>2, <1>3

-----------------------------------------------------------------------------
(* The bound of the buffer.                                                 *)

LEMMA PushingFinite ==
    /\ Pushing \subseteq Run /\ IsFiniteSet(Pushing)
    /\ Cardinality(Pushing) \in Nat
    /\ Cardinality(Pushing) <= Cardinality(Run) /\ Cardinality(Run) \in Nat
<1>1. Pushing \in SUBSET Run
  BY DEF Pushing
<1>. QED
  BY <1>1, StreamAssumption, FS_Subset, FS_CardinalityType

LEMMA KeptFinite ==
    ASSUME NEW flags
    PROVE  /\ Kept(flags) \subseteq Film /\ IsFiniteSet(Kept(flags))
           /\ Cardinality(Kept(flags)) \in Nat
<1>1. Kept(flags) \in SUBSET Film
  BY DEF Kept
<1>. QED
  BY <1>1, StreamAssumption, FS_Subset, FS_CardinalityType

\* One run more, one page more.
LEMMA OneMore ==
    ASSUME NEW a \in Nat, NEW b \in Nat, NEW c \in Nat, b <= c
    PROVE  /\ a * (b + 1) = a * b + a
           /\ a * b \in Nat /\ a * c \in Nat
           /\ a * b <= a * c
<1>1. a * (b + 1) = a * b + a /\ a * b \in Nat /\ a * c \in Nat
  OBVIOUS
<1>2. PICK d \in Nat : c = b + d
  <2>1. c - b \in Nat /\ c = b + (c - b)
    OBVIOUS
  <2>. QED
    BY <2>1
<1>3. a * c = a * b + a * d /\ a * d \in Nat
  BY <1>2
<1>. QED
  BY <1>1, <1>3

\* While the set of those who push does not shrink, a buffer that does not grow
\* stays in its bound.
LEMMA PushedUpKeeps ==
    ASSUME PushedUp, fails' = fails, Kept(buf') \subseteq Kept(buf),
           Pushing \subseteq Pushing'
    PROVE  PushedUp'
<1>1. Cardinality(Kept(buf')) <= Cardinality(Kept(buf))
  BY KeptFinite, FS_Subset
<1>2. IsFiniteSet(Pushing')
  <2>1. Pushing' \in SUBSET Run
    BY DEF Pushing
  <2>. QED
    BY <2>1, StreamAssumption, FS_Subset
<1>3. Cardinality(Pushing) <= Cardinality(Pushing') /\ Cardinality(Pushing') \in Nat
  BY <1>2, FS_Subset, FS_CardinalityType
<1>4. /\ PageSize * Cardinality(Pushing) \in Nat
      /\ PageSize * Cardinality(Pushing') \in Nat
      /\ PageSize * Cardinality(Pushing) <= PageSize * Cardinality(Pushing')
  BY <1>3, PushingFinite, OneMore, StreamAssumption
<1>5. Cardinality(Kept(buf)) \in Nat /\ Cardinality(Kept(buf')) \in Nat
  BY KeptFinite
<1>. QED
  BY <1>1, <1>4, <1>5, StreamAssumption DEF PushedUp

LEMMA PushedUpDrains ==
    ASSUME Typed, PushedUp, NEW p \in Proc, Drains(p)
    PROVE  PushedUp'
<1>1. CASE PublishFails(p)
  <2>1. fails' # 0
    BY <1>1 DEF PublishFails, Typed, TypeOK
  <2>. QED
    BY <2>1 DEF PushedUp
<1>2. CASE ~PublishFails(p)
  <2>1. UNCHANGED <<mode, fails>>
    BY <1>2 DEF Drains, Take, TakeNothing, TakeAgain, LockPublish, Publish, More
  <2>2. Kept(buf') \subseteq Kept(buf)
    <3>1. ASSUME Takes(p)
          PROVE  Kept(buf') \subseteq Kept(buf)
      BY <3>1 DEF Takes, Kept
    <3>2. CASE Take(p)
      BY <3>1, <3>2, TakeTakes
    <3>3. CASE TakeAgain(p)
      BY <3>1, <3>3, WindowTaken DEF TakeAgain
    <3>4. CASE TakeNothing(p) \/ LockPublish(p) \/ Publish(p) \/ More(p)
      BY <3>4 DEF TakeNothing, LockPublish, Publish, More
    <3>. QED
      BY <1>2, <3>2, <3>3, <3>4 DEF Drains
  <2>3. ASSUME p \in Run, ~InMutex(p)
        PROVE  at'[p] \in Draining \cup {"pressure"}
    <3>1. Return(p) = "pressure"
      BY <2>3, StreamAssumption DEF Return
    <3>. HIDE DEF Return
    <3>2. CASE Take(p)
      BY <2>3, <3>2 DEF Take, Go, Typed, TypeOK
    <3>3. CASE TakeNothing(p)
      BY <3>1, <3>3 DEF TakeNothing, Go, Typed, TypeOK
    <3>4. CASE TakeAgain(p)
      BY <3>1, <3>4 DEF TakeAgain, Go, Typed, TypeOK
    <3>5. CASE LockPublish(p) \/ Publish(p)
      BY <3>5 DEF LockPublish, Publish, Go, Typed, TypeOK
    <3>6. CASE More(p)
      BY <3>1, <3>6 DEF More, Go, Typed, TypeOK
    <3>. QED
      BY <1>2, <3>2, <3>3, <3>4, <3>5, <3>6 DEF Drains
  <2>4. Pushing \subseteq Pushing'
    <3>1. SUFFICES ASSUME NEW r \in Pushing
          PROVE  r \in Pushing'
      OBVIOUS
    <3>2. r \in Run /\ r \in Proc /\ ~InMutex(r)
      BY <3>1 DEF Pushing, Proc
    <3>3. at'[r] \in Draining \cup {"pressure"}
      <4>1. CASE r = p
        BY <2>3, <3>2, <4>1
      <4>2. CASE r # p
        <5>1. at'[r] = at[r]
          BY <3>2, <4>2, DrainsMoves DEF Typed
        <5>. QED
          BY <3>1, <5>1 DEF Pushing
      <4>. QED
        BY <4>1, <4>2
    <3>. QED
      BY <2>1, <3>2, <3>3 DEF Pushing, InMutex
  <2>. QED
    BY <2>1, <2>2, <2>4, PushedUpKeeps
<1>. QED
  BY <1>1, <1>2

LEMMA PushedUpBuffer ==
    ASSUME Typed, PushedUp, NEW r \in Run, Buffer(r)
    PROVE  PushedUp'
<1>. DEFINE added == [m \in Film |-> IF m \in page[r]
                THEN IF r \in Preferred THEN "preferred" ELSE "backup" ELSE "none"]
<1>1. added \in [Film -> Flag] /\ Kept(added) = page[r]
  BY DEF Flag, Kept, Typed, TypeOK
<1>2. buf' = Merged(buf, added)
  BY DEF Buffer
<1>. HIDE DEF added
<1>3. Kept(buf') = Kept(buf) \cup page[r]
  BY <1>1, <1>2, MergedKeeps DEF Typed, TypeOK
<1>4. Cardinality(page[r]) <= PageSize /\ Cardinality(page[r]) \in Nat
  BY <1>1, KeptFinite DEF Typed, PageInHand
<1>5. Cardinality(Kept(buf')) <= Cardinality(Kept(buf)) + PageSize
  <2>1. IsFiniteSet(Kept(buf)) /\ IsFiniteSet(page[r])
    BY <1>1, KeptFinite
  <2>2. /\ Cardinality(Kept(buf) \cup page[r]) = Cardinality(Kept(buf))
                + Cardinality(page[r]) - Cardinality(Kept(buf) \cap page[r])
        /\ Cardinality(Kept(buf) \cap page[r]) \in Nat
    BY <2>1, FS_Union, FS_Intersection, FS_CardinalityType
  <2>. QED
    BY <1>3, <1>4, <2>2, KeptFinite, StreamAssumption
<1>6. r \notin Pushing /\ Pushing' = Pushing \cup {r}
  <2>1. /\ at[r] = "buffer" /\ at'[r] = "take" /\ mode'[r] = "soft"
        /\ \A x \in Run \ {r} : at'[x] = at[x] /\ mode'[x] = mode[x]
    BY DEF Buffer, Go, Typed, TypeOK, Proc
  <2>. QED
    BY <2>1 DEF Pushing, InMutex
<1>7. Cardinality(Pushing') = Cardinality(Pushing) + 1
  BY <1>6, PushingFinite, FS_AddElement
<1>8. /\ PageSize * Cardinality(Pushing') = PageSize * Cardinality(Pushing) + PageSize
      /\ PageSize * Cardinality(Pushing) \in Nat
  BY <1>7, PushingFinite, OneMore, StreamAssumption
<1>9. fails' = fails
  BY DEF Buffer
<1>10. Cardinality(Kept(buf)) \in Nat /\ Cardinality(Kept(buf')) \in Nat
  BY KeptFinite
<1>. QED
  BY <1>5, <1>8, <1>9, <1>10, StreamAssumption DEF PushedUp

LEMMA PushedUpRelieved ==
    ASSUME Typed, PushedUp, NEW r \in Run, Relieved(r)
    PROVE  PushedUp'
<1>1. UNCHANGED <<buf, fails>> /\ at[r] = "pressure"
  BY DEF Relieved
<1>2. CASE Pressed
  <2>1. /\ at'[r] = "take" /\ mode'[r] = "hard"
        /\ \A x \in Run \ {r} : at'[x] = at[x] /\ mode'[x] = mode[x]
    BY <1>2 DEF Relieved, Go, Typed, TypeOK, Proc
  <2>2. Pushing \subseteq Pushing'
    BY <2>1 DEF Pushing, InMutex
  <2>. QED
    BY <1>1, <2>2, PushedUpKeeps
<1>3. CASE ~Pressed
  <2>1. Cardinality(Kept(buf)) < Backlog
    BY <1>3, KeptFinite, StreamAssumption DEF Pressed
  <2>2. Cardinality(Pushing') \in Nat
    <3>1. Pushing' \in SUBSET Run
      BY DEF Pushing
    <3>. QED
      BY <3>1, StreamAssumption, FS_Subset, FS_CardinalityType
  <2>3. PageSize * Cardinality(Pushing') \in Nat
    BY <2>2, OneMore, StreamAssumption
  <2>. QED
    BY <1>1, <2>1, <2>3, KeptFinite, StreamAssumption DEF PushedUp
<1>. QED
  BY <1>2, <1>3

LEMMA PushedUpSteps ==
    ASSUME Typed, PushedUp, Next
    PROVE  PushedUp'
<1>1. CASE \E p \in Proc : Drains(p)
  BY <1>1, PushedUpDrains
<1>2. ASSUME NEW r \in Run, Buffer(r)
      PROVE  PushedUp'
  BY <1>2, PushedUpBuffer
<1>3. ASSUME NEW r \in Run, Relieved(r)
      PROVE  PushedUp'
  BY <1>3, PushedUpRelieved
<1>4. ASSUME NEW r \in Run, \/ Works(r) /\ ~Buffer(r) /\ ~Relieved(r)
                           \/ \E films \in SUBSET Film : WritePage(r, films)
      PROVE  PushedUp'
  <2>1. /\ at[r] \notin Draining \cup {"pressure"} /\ UNCHANGED <<buf, fails>>
        /\ \A x \in Run \ {r} : at'[x] = at[x] /\ mode'[x] = mode[x]
    BY <1>4 DEF Works, AddAffected, SourceEnds, Settle, NothingLeft, Schedule,
       UnlockPublish, WritePage, Go, Typed, TypeOK, Proc
  <2>2. Pushing \subseteq Pushing'
    BY <2>1 DEF Pushing, InMutex
  <2>. QED
    BY <2>1, <2>2, PushedUpKeeps
<1>5. CASE Tick
  <2>1. UNCHANGED <<buf, fails, mode>> /\ \A x \in Run : at'[x] = at[x]
    BY <1>5, StreamAssumption DEF Tick, Go, Typed, TypeOK, Proc
  <2>2. Pushing \subseteq Pushing'
    BY <2>1 DEF Pushing, InMutex
  <2>. QED
    BY <2>1, <2>2, PushedUpKeeps
<1>. QED
  BY <1>1, <1>2, <1>3, <1>4, <1>5 DEF Next

-----------------------------------------------------------------------------
(* The theorems.                                                            *)

LEMMA InitInv == Init => StreamInv
<1>. SUFFICES ASSUME Init
     PROVE  StreamInv
  OBVIOUS
<1>. USE StreamAssumption
<1>1. TypeOK
  BY EmptyWindow DEF Init, TypeOK, Proc
<1>2. Owned
  BY DEF Init, Owned, InMutex, Proc
<1>3. PageInHand
  BY FS_EmptySet DEF Init, PageInHand
<1>4. Followed /\ PreferredKept /\ Flushed
  BY DEF Init, Followed, PreferredKept, Flushed, Proc
<1>5. PushedUp
  <2>1. Kept(buf) = {}
    BY EmptyWindow DEF Init, Kept
  <2>2. PageSize * Cardinality(Pushing) \in Nat
    BY PushingFinite, OneMore
  <2>. QED
    BY <2>1, <2>2, FS_EmptySet DEF PushedUp
<1>. QED
  BY <1>1, <1>2, <1>3, <1>4, <1>5 DEF StreamInv, Typed

LEMMA NextInv == StreamInv /\ [Next]_vars => StreamInv'
<1>1. CASE Next
  <2>1. StreamInv => Typed'
    BY <1>1, TypedSteps DEF Next, StreamInv
  <2>. QED
    BY <1>1, <2>1, FollowedSteps, PreferredSteps, FlushedSteps, PushedUpSteps
    DEF StreamInv
<1>2. CASE UNCHANGED vars
  BY <1>2 DEF vars, dataVars, StreamInv, Typed, TypeOK, Owned, PageInHand,
     InMutex, Followed, PreferredKept, Flushed, PushedUp, Kept, Pushing
<1>. QED
  BY <1>1, <1>2

\* Throughout every behaviour the buffer, the windows and the mutex are those
\* of the steps the processes are at.
THEOREM StreamInvHolds == Spec => []StreamInv
BY InitInv, NextInv, PTL DEF Spec

\* For any films, runs and limits: whatever is taken, put back and settled by
\* several processes at once, each film a run wrote is on the run's page, in
\* the buffer, in a window or in the list.
THEOREM NoFilmForgottenHolds == Spec => []NoFilmForgotten
<1>1. StreamInv => NoFilmForgotten
  BY DEF StreamInv, Followed, NoFilmForgotten, Typed, TypeOK
<1>. QED
  BY <1>1, StreamInvHolds, PTL

\* For any films, runs and limits the buffer keeps every film at its priority
\* and, while no publication fails, holds less than the backlog and a page of
\* each run.
THEOREM StreamKeepsHolds == Spec => []StreamKeeps
<1>1. StreamInv => NoFilmForgotten
  BY DEF StreamInv, Followed, NoFilmForgotten, Typed, TypeOK
<1>2. StreamInv => BufferBounded
  <2>1. PageSize * Cardinality(Pushing) <= PageSize * Cardinality(Run)
    BY PushingFinite, OneMore, StreamAssumption
  <2>2. /\ PageSize * Cardinality(Pushing) \in Nat
        /\ PageSize * Cardinality(Run) \in Nat
    BY PushingFinite, OneMore, StreamAssumption
  <2>. QED
    BY <2>1, <2>2, KeptFinite, StreamAssumption DEF StreamInv, PushedUp, BufferBounded
<1>3. StreamInv => StreamKeeps
  BY <1>1, <1>2 DEF StreamInv, StreamKeeps, FilmsKept, Typed
<1>. QED
  BY <1>3, StreamInvHolds, PTL

\* For any films, runs and limits, a settling run hands over only films that
\* are in the list or in a window of another process.
THEOREM SealAfterFlushHolds == Spec => SealAfterFlush
<1>1. StreamInv => [\A r \in Run : at[r] = "schedule" /\ at'[r] = "unlock" =>
            \A m \in affected[r] : r \in unlisted[m] =>
                \E p \in Proc \ {r} : window[p][m] # "none"]_vars
  BY DEF StreamInv, Flushed
<1>. QED
  BY <1>1, StreamInvHolds, PTL DEF SealAfterFlush

-----------------------------------------------------------------------------
(* The hours of a scheduled run (module CatchUp)                           *)

\* What a run knows before and after it chose its hours.
Waiting == {"queued", "suppress", "resolve"}
Working == {"fetch", "seal", "sealwrite", "leave", "unsuppress", "note",
            "flush", "write"}
Early == [at : Waiting, cron : BOOLEAN, start : Nat, ok : {FALSE}, taken : {0}]
Late == [at : Working, cron : BOOLEAN, start : Nat, ok : BOOLEAN, taken : Nat,
         hours : Nat, last : Nat, resolved : Nat]

Figures ==
    /\ now \in Nat /\ now >= 1 /\ now <= MaxTime
    /\ collected \subseteq Stats!Tick /\ since \in Nat
    /\ anchor \in Nat /\ anchor <= now /\ pending \in Nat /\ pending <= now
    /\ anchors \subseteq Nat
    /\ anchor # 0 => anchor \in anchors
Runs == turn \in [Stats!RunId -> {Stats!Idle, Stats!Over} \cup Early \cup Late]
Single ==
    \A r, o \in Stats!RunId :
        turn[r].at \in Stats!Registered /\ turn[o].at \in Stats!Registered => r = o

StatsTyped ==
    /\ Figures /\ Runs /\ suppressed \in BOOLEAN
    /\ \A r \in Stats!RunId :
        /\ turn[r].at \in Waiting \cup Working => turn[r].start <= now
        /\ turn[r].at \in Working => turn[r].taken <= now
    /\ Single

\* What changed from a time on and before another is stored, as AnchorSound
\* says it.
Reach(from, stored, chain, to) ==
    \A t \in from .. to - 1 :
        \/ t = 0 \/ t \in stored
        \/ \E a \in chain : a <= t /\ t < a + Delay
Reached(to) == Reach(since, collected, anchors, to)

\* The hours a scheduled run has chosen reach back to the start it saw.
Chosen(x) ==
    /\ x.last <= x.resolved /\ x.resolved <= now /\ now - x.resolved <= Delay
    /\ x.cron /\ x.last # 0 =>
        /\ x.last \in anchors /\ Reached(x.last)
        /\ \/ x.hours * Hour > x.resolved - x.last
           \/ x.resolved - x.last >= MaxHours * Hour

\* Whatever is or may become the last start is one behind which nothing is
\* missing.
Behind == {"seal", "sealwrite", "leave", "unsuppress", "note"}
Sound(x) ==
    /\ x.at \in {"sealwrite", "write"} => Reached(x.taken)
    /\ x.at = "fetch" => Chosen(x)
    /\ x.at \in Behind /\ x.ok /\ x.cron => Reached(x.start)
Chain ==
    /\ Reached(anchor) /\ Reached(pending)
    /\ \A r \in Stats!RunId : Sound(turn[r])

StatsInv == StatsTyped /\ Chain

LEMMA ReachGrows ==
    ASSUME NEW f \in Nat, NEW g \in Nat, f <= g, NEW c, NEW d, c \subseteq d,
           NEW x, NEW y, x \subseteq y, NEW t \in Nat, Reach(f, c, x, t)
    PROVE  Reach(g, d, y, t)
BY StatsAssumption DEF Reach

LEMMA HoursReachBack ==
    ASSUME NEW d \in Nat
    PROVE  /\ d \div Hour \in Nat
           /\ (d \div Hour + 1) * Hour > d
           /\ (d \div Hour) * Hour <= d
BY StatsAssumption

LEMMA MoreHours ==
    ASSUME NEW h \in Nat, NEW k \in Nat, h >= k
    PROVE  h * Hour >= k * Hour
BY StatsAssumption

USE DEF Stats!vars, Stats!buffer, Stats!bounds, Stats!Idle, Stats!Over, Stats!None,
        Stats!Registered, Waiting, Working, Early, Late

LEMMA StatsStarts == Stats!Init => StatsInv
<1> SUFFICES ASSUME Stats!Init PROVE StatsInv
  OBVIOUS
<1> USE StatsAssumption DEF Stats!Init
<1>1. Figures
  BY DEF Figures
<1>2. Runs
  BY DEF Runs
<1>3. \A r \in Stats!RunId : turn[r].at = "idle"
  OBVIOUS
<1>6. suppressed \in BOOLEAN
  OBVIOUS
<1>4. StatsTyped
  BY <1>1, <1>2, <1>3, <1>6 DEF StatsTyped, Single
<1>5. Chain
  BY <1>3 DEF Chain, Sound, Reached, Reach, Stats!Smaller,
                 Stats!Larger, Behind
<1> QED
  BY <1>4, <1>5 DEF StatsInv

\* The store and the chain of starts only grow but for a clear.
LEMMA Grown ==
    ASSUME StatsInv, since' \in Nat, since <= since',
           collected \subseteq collected', anchors \subseteq anchors'
    PROVE  \A t \in Nat : Reached(t) => Reached(t)'
BY ReachGrows DEF StatsInv, StatsTyped, Figures, Reached

\* A run goes on with what it knows.
LEMMA Onward ==
    ASSUME NEW x \in Early \cup Late, NEW step,
           x \in Early => step \in Waiting, x \in Late => step \in Working
    PROVE  LET y == [x EXCEPT !.at = step]
           IN  /\ y \in Early \cup Late /\ y.at = step
               /\ y.start = x.start /\ y.cron = x.cron /\ y.ok = x.ok
               /\ y.taken = x.taken
               /\ x \in Late =>
                    y.hours = x.hours /\ y.last = x.last /\ y.resolved = x.resolved
<1>1. CASE x \in Early
  BY <1>1
<1>2. CASE x \in Late
  BY <1>2
<1> QED
  BY <1>1, <1>2

LEMMA Told ==
    ASSUME Runs, NEW r \in Stats!RunId
    PROVE  /\ turn[r].at \in Waiting => turn[r] \in Early
           /\ turn[r].at \in Working => turn[r] \in Late
           /\ turn[r].at \in Waiting \cup Working \cup {"idle", "ended"}
<1>1. turn[r] \in {Stats!Idle, Stats!Over} \cup Early \cup Late
  BY DEF Runs
<1>2. CASE turn[r] \in {Stats!Idle, Stats!Over}
  <2>1. turn[r].at \in {"idle", "ended"}
    BY <1>2
  <2> QED
    BY <2>1
<1>3. CASE turn[r] \in Early
  <2>1. turn[r].at \in Waiting
    BY <1>3
  <2> QED
    BY <1>3, <2>1
<1>4. CASE turn[r] \in Late
  <2>1. turn[r].at \in Working
    BY <1>4
  <2> QED
    BY <1>4, <2>1
<1> QED
  BY <1>1, <1>2, <1>3, <1>4

\* What a step of one run leaves of the others.
LEMMA Steps ==
    ASSUME StatsTyped, NEW r \in Stats!RunId, NEW step,
           turn[r].at \in Waiting \cup Working,
           Stats!To(r, step),
           \/ step = "ended"
           \/ turn[r].at \in Waiting /\ step \in Waiting
           \/ turn[r].at \in Working /\ step \in Working
    PROVE  /\ Runs'
           /\ turn'[r].at = step
           /\ \A o \in Stats!RunId \ {r} : turn'[o] = turn[o]
           /\ step # "ended" =>
                /\ turn'[r].start = turn[r].start /\ turn'[r].cron = turn[r].cron
                /\ turn'[r].ok = turn[r].ok /\ turn'[r].taken = turn[r].taken
                /\ turn[r].at \in Working =>
                    /\ turn'[r].hours = turn[r].hours
                    /\ turn'[r].last = turn[r].last
                    /\ turn'[r].resolved = turn[r].resolved
<1> DEFINE y == [turn[r] EXCEPT !.at = step]
<1>0. Runs
  BY DEF StatsTyped
<1>1. turn' = [turn EXCEPT ![r] = IF step = "ended" THEN Stats!Over ELSE y]
  BY DEF Stats!To
<1>2. turn'[r] = (IF step = "ended" THEN Stats!Over ELSE y)
      /\ \A o \in Stats!RunId \ {r} : turn'[o] = turn[o]
  BY <1>0, <1>1 DEF Runs
<1>3. CASE step = "ended"
  <2>1. turn'[r] = Stats!Over
    BY <1>2, <1>3
  <2> QED
    BY <1>0, <1>1, <1>2, <1>3, <2>1 DEF Runs
<1>4. CASE step # "ended"
  <2>1. turn'[r] = y
    BY <1>2, <1>4
  <2>2. turn[r] \in Early \cup Late
        /\ (turn[r] \in Early => step \in Waiting)
        /\ (turn[r] \in Late => step \in Working)
        /\ (turn[r].at \in Working => turn[r] \in Late)
    BY <1>0, <1>4, Told
  <2>3. /\ y \in Early \cup Late /\ y.at = step
        /\ y.start = turn[r].start /\ y.cron = turn[r].cron /\ y.ok = turn[r].ok
        /\ y.taken = turn[r].taken
        /\ turn[r] \in Late => /\ y.hours = turn[r].hours /\ y.last = turn[r].last
                              /\ y.resolved = turn[r].resolved
    BY <2>2, Onward
  <2> HIDE DEF y
  <2>4. Runs'
    BY <1>0, <1>1, <1>4, <2>3 DEF Runs
  <2> QED
    BY <1>2, <1>4, <2>1, <2>2, <2>3, <2>4
<1> QED
  BY <1>3, <1>4

\* The data grow and the clock stands still: what was sound stays so.
Grows ==
    /\ since' \in Nat /\ since <= since' /\ now' = now
    /\ collected \subseteq collected' /\ anchors \subseteq anchors'

LEMMA SoundStays ==
    ASSUME StatsInv, Grows, NEW r \in Stats!RunId, turn'[r] = turn[r]
    PROVE  Sound(turn[r])'
<1>1. \A t \in Nat : Reached(t) => Reached(t)'
  BY Grown DEF Grows
<1>2. Sound(turn[r])
  BY DEF StatsInv, Chain
<1>3. turn[r].at \in Working => turn[r] \in Late
  BY Told DEF StatsInv, StatsTyped
<1>4. turn[r].at \in Waiting => turn[r] \in Early
  BY Told DEF StatsInv, StatsTyped
<1>5. turn[r].at \in {"sealwrite", "write"} => Reached(turn[r].taken)'
  BY <1>1, <1>2, <1>3 DEF Sound
<1>6. turn[r].at = "fetch" => Chosen(turn[r])'
  BY <1>1, <1>2, <1>3 DEF Sound, Chosen, Grows
<1>7. turn[r].at \in Behind /\ turn[r].ok /\ turn[r].cron => Reached(turn[r].start)'
  BY <1>1, <1>2, <1>3 DEF Sound, Behind
<1> QED
  BY <1>5, <1>6, <1>7 DEF Sound

\* A step of one run: what is to be shown of the data and of the run.
LEMMA OneRun ==
    ASSUME StatsInv, Grows, NEW r \in Stats!RunId,
           Runs', \A o \in Stats!RunId \ {r} : turn'[o] = turn[o],
           Figures', suppressed' \in BOOLEAN,
           turn'[r].at \in Waiting \cup Working => turn'[r].start <= now,
           turn'[r].at \in Working => turn'[r].taken <= now,
           turn'[r].at \in Stats!Registered =>
               \/ turn[r].at \in Stats!Registered
               \/ \A o \in Stats!RunId : turn[o].at \notin Stats!Registered,
           Reached(anchor)', Reached(pending)',
           Sound(turn[r])'
    PROVE  StatsInv'
<1>1. Single'
  BY DEF StatsInv, StatsTyped, Single
<1>2. StatsTyped'
  BY <1>1 DEF StatsInv, StatsTyped, Grows
<1>3. \A o \in Stats!RunId : Sound(turn[o])'
  BY SoundStays
<1>4. Chain'
  BY <1>3 DEF Chain
<1> QED
  BY <1>2, <1>4 DEF StatsInv

\* The steps that only lead on, with or without a change of the buffer.
LEMMA StatsOnwardKeeps ==
    ASSUME StatsInv, NEW r \in Stats!RunId, NEW step,
           turn[r].at \in Waiting \cup Working, Stats!To(r, step),
           \/ step = "ended"
           \/ turn[r].at \in Waiting /\ step \in Waiting
           \/ /\ turn[r].at \in Working
              /\ step \in Working \ {"fetch", "sealwrite", "write"},
           step \in Stats!Registered =>
               \/ turn[r].at \in Stats!Registered
               \/ \A o \in Stats!RunId : turn[o].at \notin Stats!Registered,
           step \in Behind => turn[r].at \in Behind,
           now' = now, collected' = collected, since' = since,
           suppressed' \in BOOLEAN,
           anchors \subseteq anchors', anchors' \subseteq Nat,
           anchor' \in Nat, anchor' <= now, anchor' # 0 => anchor' \in anchors',
           pending' \in Nat, pending' <= now,
           Reached(anchor'), Reached(pending')
    PROVE  StatsInv'
<1>1. StatsTyped
  BY DEF StatsInv
<1>2. /\ Runs'
      /\ turn'[r].at = step
      /\ \A o \in Stats!RunId \ {r} : turn'[o] = turn[o]
      /\ step # "ended" =>
           /\ turn'[r].start = turn[r].start /\ turn'[r].cron = turn[r].cron
           /\ turn'[r].ok = turn[r].ok /\ turn'[r].taken = turn[r].taken
  BY <1>1, Steps
<1>3. Grows /\ Figures'
  BY <1>1 DEF Grows, StatsTyped, Figures
<1>4. \A t \in Nat : Reached(t) => Reached(t)'
  BY <1>3, Grown DEF Grows
<1>5. Reached(anchor)' /\ Reached(pending)'
  <2>1. \A t \in Nat : Reached(t) => Reach(since', collected', anchors', t)
    BY <1>4 DEF Reached
  <2> QED
    BY <2>1 DEF Reached
<1>7. /\ turn[r].at \in Waiting \cup Working => turn[r].start <= now
      /\ turn[r].at \in Working => turn[r].taken <= now /\ turn[r] \in Late
  BY <1>1, Told DEF StatsTyped
<1>8. Sound(turn[r])'
  <2>1. CASE step \in Behind /\ turn'[r].ok /\ turn'[r].cron
    <3>1. Reached(turn[r].start) /\ turn[r].start \in Nat
      BY <1>2, <1>7, <2>1 DEF StatsInv, Chain, Sound, Behind
    <3>2. Reached(turn[r].start)'
      BY <1>4, <3>1, <1>2, <2>1 DEF Behind, Reached
    <3> QED
      BY <1>2, <3>2 DEF Sound, Behind, Reached
  <2>2. CASE ~(step \in Behind /\ turn'[r].ok /\ turn'[r].cron)
    BY <1>2, <2>2 DEF Sound
  <2> QED
    BY <2>1, <2>2
<1>9. /\ turn'[r].at \in Waiting \cup Working => turn'[r].start <= now
      /\ turn'[r].at \in Working => turn'[r].taken <= now
  BY <1>2, <1>7
<1> QED
  BY <1>1, <1>2, <1>3, <1>5, <1>8, <1>9, OneRun

\* What the invariant says of the data.
LEMMA Data ==
    ASSUME StatsInv
    PROVE  /\ Figures /\ suppressed \in BOOLEAN
           /\ Reached(anchor) /\ Reached(pending) /\ Reached(0)
           /\ \A r \in Stats!RunId :
                /\ Sound(turn[r])
                /\ turn[r].at \in Waiting => turn[r] \in Early
                /\ turn[r].at \in Working => turn[r] \in Late /\ turn[r].taken <= now
                /\ turn[r].at \in Waiting \cup Working => turn[r].start <= now
<1>1. Reached(0)
  BY DEF StatsInv, StatsTyped, Figures, Reached, Reach
<1> QED
  BY <1>1, Told DEF StatsInv, StatsTyped, Chain

LEMMA StatsRegistersKeeps ==
    ASSUME StatsInv, NEW r \in Stats!RunId, Stats!Registers(r) PROVE StatsInv'
BY Data, StatsOnwardKeeps DEF Stats!Registers, Figures, Behind

LEMMA StatsSuppressesKeeps ==
    ASSUME StatsInv, NEW r \in Stats!RunId, Stats!Suppresses(r) PROVE StatsInv'
<1>1. suppressed' \in BOOLEAN
  BY DEF Stats!Suppresses
<1> QED
  BY <1>1, Data, StatsOnwardKeeps DEF Stats!Suppresses, Figures, Behind

LEMMA StatsUnregistersKeeps ==
    ASSUME StatsInv, NEW r \in Stats!RunId, Stats!Unregisters(r) PROVE StatsInv'
BY Data, StatsOnwardKeeps DEF Stats!Unregisters, Figures, Behind

LEMMA StatsUnsuppressesKeeps ==
    ASSUME StatsInv, NEW r \in Stats!RunId, Stats!Unsuppresses(r) PROVE StatsInv'
<1>1. suppressed' \in BOOLEAN
  BY DEF Stats!Unsuppresses
<1> QED
  BY <1>1, Data, StatsOnwardKeeps DEF Stats!Unsuppresses, Figures, Behind

LEMMA StatsWritesKeeps ==
    ASSUME StatsInv, NEW r \in Stats!RunId, Stats!Writes(r) PROVE StatsInv'
<1>1. Stats!After[turn[r].at] =
        (IF turn[r].at = "sealwrite" THEN "leave" ELSE "ended")
  BY DEF Stats!Writes, Stats!After
<1>2. turn[r].at \in {"sealwrite", "write"} /\ Reached(turn[r].taken)
      /\ turn[r].taken \in Nat /\ turn[r].taken <= now
  BY Data DEF Stats!Writes, Sound
<1> QED
  BY <1>1, <1>2, Data, StatsOnwardKeeps DEF Stats!Writes, Figures, Behind

LEMMA StatsWriteFailsKeeps ==
    ASSUME StatsInv, NEW r \in Stats!RunId, Stats!WriteFails(r) PROVE StatsInv'
<1>1. Stats!After[turn[r].at] =
        (IF turn[r].at = "sealwrite" THEN "leave" ELSE "ended")
  BY DEF Stats!WriteFails, Stats!After
<1>2. turn[r].at \in {"sealwrite", "write"} /\ Reached(turn[r].taken)
      /\ turn[r].taken \in Nat /\ turn[r].taken <= now
  BY Data DEF Stats!WriteFails, Sound
<1>3. pending' \in {pending, turn[r].taken}
  BY DEF Stats!WriteFails
<1> QED
  BY <1>1, <1>2, <1>3, Data, StatsOnwardKeeps DEF Stats!WriteFails, Figures, Behind

LEMMA StatsNotesKeeps ==
    ASSUME StatsInv, NEW r \in Stats!RunId, Stats!Notes(r) PROVE StatsInv'
<1>1. suppressed' \in BOOLEAN
  BY Data DEF Stats!Notes
<1>2. turn[r].at = "note" /\ turn[r].start \in Nat /\ turn[r].start <= now
      /\ (turn[r].ok /\ turn[r].cron => Reached(turn[r].start))
  BY Data DEF Stats!Notes, Sound, Behind
<1>3. \/ pending' \in {pending, 0}
      \/ turn[r].ok /\ turn[r].cron /\ pending' = turn[r].start
  BY DEF Stats!Notes
<1>4. pending' \in Nat /\ pending' <= now /\ Reached(pending')
  <2>1. CASE pending' \in {pending, 0}
    BY <2>1, Data DEF Figures
  <2>2. CASE turn[r].ok /\ turn[r].cron /\ pending' = turn[r].start
    BY <1>2, <2>2
  <2> QED
    BY <1>3, <2>1, <2>2
<1> QED
  BY <1>1, <1>2, <1>4, Data, StatsOnwardKeeps DEF Stats!Notes, Figures, Behind

LEMMA StatsQueuesKeeps ==
    ASSUME StatsInv, NEW r \in Stats!RunId, NEW cron \in BOOLEAN,
           Stats!Queues(r, cron) PROVE StatsInv'
<1> DEFINE x == [at |-> "queued", cron |-> cron, start |-> now, ok |-> FALSE,
                 taken |-> Stats!None]
<1>1. x \in Early /\ x.at = "queued" /\ x.start = now
  BY Data DEF Figures
<1>2. turn' = [turn EXCEPT ![r] = x]
  BY DEF Stats!Queues
<1> HIDE DEF x
<1>3. turn'[r] = x /\ Runs' /\ \A o \in Stats!RunId \ {r} : turn'[o] = turn[o]
  BY <1>1, <1>2 DEF StatsInv, StatsTyped, Runs
<1>4. Sound(turn[r])'
  BY <1>1, <1>3 DEF Sound, Behind
<1>5. Grows /\ Figures' /\ suppressed' = suppressed
  BY Data DEF Grows, Stats!Queues, Figures
<1>6. Reached(anchor)' /\ Reached(pending)'
  BY Data DEF Reached, Stats!Queues
<1> QED
  BY <1>1, <1>3, <1>4, <1>5, <1>6, Data, OneRun DEF Figures

LEMMA StatsTakesKeeps ==
    ASSUME StatsInv, NEW r \in Stats!RunId, Stats!Takes(r) PROVE StatsInv'
<1>1. turn[r].at \in {"seal", "flush"} /\ turn[r] \in Late
  BY Data DEF Stats!Takes
<1>2. CASE pending = 0
  <2>1. Stats!After[turn[r].at] = (IF turn[r].at = "seal" THEN "leave" ELSE "ended")
    BY <1>1 DEF Stats!After
  <2> QED
    BY <1>1, <1>2, <2>1, Data, StatsOnwardKeeps DEF Stats!Takes, Figures, Behind
<1>3. CASE pending # 0
  <2> DEFINE step == IF turn[r].at = "seal" THEN "sealwrite" ELSE "write"
             x == [turn[r] EXCEPT !.at = step, !.taken = pending]
  <2>1. turn' = [turn EXCEPT ![r] = x]
    BY <1>3 DEF Stats!Takes, StatsInv, StatsTyped, Runs
  <2>2. /\ x \in Late /\ x.at = step /\ x.taken = pending /\ x.start = turn[r].start
        /\ x.ok = turn[r].ok /\ x.cron = turn[r].cron
    BY <1>1, Data DEF Figures
  <2> HIDE DEF x
  <2>3. turn'[r] = x /\ Runs' /\ \A o \in Stats!RunId \ {r} : turn'[o] = turn[o]
    BY <2>1, <2>2 DEF StatsInv, StatsTyped, Runs
  <2>4. Grows /\ Figures' /\ suppressed' = suppressed
    BY Data DEF Grows, Stats!Takes, Figures
  <2>5. Reached(anchor)' /\ Reached(pending)' /\ Reached(pending)
    BY Data DEF Reached, Stats!Takes
  <2>6. \A t \in Nat : Reached(t) => Reached(t)'
    BY <2>4, Grown DEF Grows
  <2>7. Sound(turn[r])'
    <3>1. \A t \in Nat : Reached(t) => Reach(since', collected', anchors', t)
      BY <2>6 DEF Reached
    <3>2. Reach(since', collected', anchors', x.taken)
      BY <2>2, <2>5, <3>1, Data DEF Figures
    <3>3. step \in Behind /\ x.ok /\ x.cron => Reached(x.start)
      BY <1>1, <2>2, Data DEF Sound, Behind
    <3>4. step \in Behind /\ x.ok /\ x.cron =>
              Reach(since', collected', anchors', x.start)
      BY <1>1, <2>2, <3>1, <3>3
    <3>5. step # "fetch"
      OBVIOUS
    <3> HIDE DEF step
    <3> QED
      BY <2>2, <2>3, <3>2, <3>4, <3>5 DEF Sound, Reached
  <2>8. x.start <= now /\ x.taken <= now
    BY <1>1, <2>2, Data DEF Figures
  <2> QED
    BY <1>1, <2>2, <2>3, <2>4, <2>5, <2>7, <2>8, Data, OneRun DEF Figures
<1> QED
  BY <1>2, <1>3

\* The hours chosen reach back to the last start, unless it lies further back
\* than the most hours the code asks for.
LEMMA HoursSound ==
    ASSUME StatsInv, anchor # 0
    PROVE  LET h == Stats!ResolveHours(anchor, now)
           IN  \/ h * Hour > now - anchor
               \/ now - anchor >= MaxHours * Hour
<1> DEFINE whole == (now - anchor) \div Hour
           h == Stats!ResolveHours(anchor, now)
<1>1. now - anchor \in Nat
  BY Data DEF Figures
<1>2. /\ whole \in Nat /\ (whole + 1) * Hour > now - anchor
      /\ whole * Hour <= now - anchor
  BY <1>1, HoursReachBack
<1> HIDE DEF whole
<1>3. h = Stats!Smaller(MaxHours, Stats!Larger(Requested, whole + 1))
  BY DEF Stats!ResolveHours, whole
<1>4. h \in Nat /\ (h >= whole + 1 \/ whole >= MaxHours)
  BY <1>2, <1>3, StatsAssumption DEF Stats!Smaller, Stats!Larger
<1> HIDE DEF h
<1>5. CASE whole >= MaxHours
  <2>1. whole * Hour >= MaxHours * Hour
    BY <1>2, <1>5, MoreHours, StatsAssumption
  <2>2. whole * Hour \in Int /\ MaxHours * Hour \in Int
    BY <1>2, StatsAssumption
  <2>3. now - anchor >= MaxHours * Hour
    BY <1>1, <1>2, <2>1, <2>2
  <2> QED
    BY <2>3 DEF h
<1>6. CASE h >= whole + 1
  <2>1. h * Hour >= (whole + 1) * Hour
    BY <1>2, <1>4, <1>6, MoreHours
  <2>2. h * Hour \in Int /\ (whole + 1) * Hour \in Int
    BY <1>2, <1>4, StatsAssumption
  <2>3. h * Hour > now - anchor
    BY <1>1, <1>2, <2>1, <2>2
  <2> QED
    BY <2>3 DEF h
<1> QED
  BY <1>4, <1>5, <1>6

LEMMA StatsResolvesKeeps ==
    ASSUME StatsInv, NEW r \in Stats!RunId, Stats!Resolves(r) PROVE StatsInv'
<1> DEFINE h == IF turn[r].cron THEN Stats!ResolveHours(anchor, now) ELSE Requested
           x == [at |-> "fetch", cron |-> turn[r].cron, start |-> turn[r].start,
                 ok |-> FALSE, taken |-> Stats!None, hours |-> h,
                 last |-> anchor, resolved |-> now]
<1>1. turn[r].at = "resolve" /\ turn[r] \in Early /\ turn[r].start <= now
  BY Data DEF Stats!Resolves
<1>2. turn' = [turn EXCEPT ![r] = x]
  BY DEF Stats!Resolves, StatsInv, StatsTyped, Runs
<1>5. h \in Nat
  <2>1. CASE turn[r].cron /\ anchor # 0
    <3>1. (now - anchor) \div Hour \in Nat
      BY HoursReachBack, Data DEF Figures
    <3> QED
      BY <2>1, <3>1, StatsAssumption
         DEF Stats!ResolveHours, Stats!Smaller, Stats!Larger
  <2>2. CASE ~(turn[r].cron /\ anchor # 0)
    BY <2>2, StatsAssumption DEF Stats!ResolveHours, Stats!Smaller
  <2> QED
    BY <2>1, <2>2
<1>6. turn[r].cron /\ anchor # 0 =>
        \/ h * Hour > now - anchor
        \/ now - anchor >= MaxHours * Hour
  BY HoursSound
<1> HIDE DEF h
<1>7. /\ x \in Late /\ x.at = "fetch"
      /\ x.cron = turn[r].cron /\ x.start = turn[r].start
      /\ x.taken = 0 /\ x.hours = h /\ x.last = anchor /\ x.resolved = now
  BY <1>1, <1>5, Data DEF Figures
<1> HIDE DEF x
<1>8. turn'[r] = x /\ Runs' /\ \A o \in Stats!RunId \ {r} : turn'[o] = turn[o]
  BY <1>2, <1>7 DEF StatsInv, StatsTyped, Runs
<1>9. Grows /\ Figures' /\ suppressed' = suppressed
  BY Data DEF Grows, Stats!Resolves, Figures
<1>10. Reached(anchor)' /\ Reached(pending)'
  BY Data DEF Reached, Stats!Resolves
<1>11. Sound(turn[r])'
  <2>1. x.last <= x.resolved /\ x.resolved <= now' /\ now' - x.resolved <= Delay
    BY <1>7, <1>9, Data, StatsAssumption DEF Grows, Figures
  <2>2. anchor # 0 =>
            anchor \in anchors' /\ Reach(since', collected', anchors', anchor)
    BY Data DEF Figures, Reached, Stats!Resolves
  <2>3. turn'[r].cron /\ turn'[r].last # 0 =>
            /\ turn'[r].last \in anchors'
            /\ Reach(since', collected', anchors', turn'[r].last)
            /\ \/ turn'[r].hours * Hour > turn'[r].resolved - turn'[r].last
               \/ turn'[r].resolved - turn'[r].last >= MaxHours * Hour
    BY <1>6, <1>7, <1>8, <2>2
  <2>4. Chosen(turn[r])'
    BY <1>7, <1>8, <2>1, <2>3 DEF Chosen, Reached
  <2> QED
    BY <1>7, <1>8, <2>4 DEF Sound, Behind
<1> QED
  BY <1>1, <1>7, <1>8, <1>9, <1>10, <1>11, Data, OneRun DEF Figures

\* What a run that succeeds asked for covers what changed before its start.
LEMMA AnswerCovers ==
    ASSUME StatsInv, NEW r \in Stats!RunId, turn[r].at = "fetch", turn[r].cron,
           collected' = collected \cup Stats!Asked(r), anchors' = anchors,
           since' = IF Stats!Anew(r)
                    THEN Stats!Larger(since, now - turn[r].hours * Hour) ELSE since
    PROVE  Reach(since', collected', anchors', turn[r].start)
<1> DEFINE p == turn[r].hours * Hour
           last == turn[r].last
           resolved == turn[r].resolved
<1>1. /\ turn[r] \in Late /\ turn[r].start \in Nat /\ turn[r].start <= now
      /\ last \in Nat /\ resolved \in Nat /\ turn[r].hours \in Nat
      /\ Chosen(turn[r])
  BY Data DEF Sound
<1>2. p \in Int
  BY <1>1, StatsAssumption
<1>3. /\ last <= resolved /\ resolved <= now /\ now - resolved <= Delay
      /\ last # 0 => /\ last \in anchors /\ Reached(last)
                     /\ p > resolved - last \/ resolved - last >= MaxHours * Hour
  BY <1>1 DEF Chosen
<1>4. \A t \in Nat : /\ t # 0 /\ t < turn[r].start /\ now - p <= t
                     => t \in collected'
  <2>1. \A t \in Nat : t # 0 /\ t <= now => t \in Stats!Tick
    BY Data, StatsAssumption DEF Figures, Stats!Tick
  <2> QED
    BY <1>1, <1>2, <2>1, Data DEF Stats!Asked, Figures
<1> HIDE DEF p, last, resolved
<1>5. CASE Stats!Anew(r)
  <2>1. since' \in Nat /\ since' >= now - p
    BY <1>2, <1>5, Data DEF Stats!Larger, p, Figures
  <2> QED
    BY <1>1, <1>2, <1>4, <2>1, Data DEF Reach, Figures
<1>6. CASE ~Stats!Anew(r)
  <2>0. last # 0 /\ p > resolved - last
    <3>1. last # 0 /\ ~(resolved - last >= MaxHours * Hour)
      BY <1>6 DEF Stats!Anew, last, resolved
    <3> QED
      BY <1>3, <3>1
  <2>1. since' = since /\ since \in Nat
    BY <1>6, Data DEF Figures
  <2>2. ASSUME NEW t \in since .. turn[r].start - 1, t # 0, t \notin collected'
        PROVE  \E a \in anchors : a <= t /\ t < a + Delay
    <3>0. t \in Nat /\ t < turn[r].start /\ t >= since
      BY <1>1, <2>1
    <3>1. CASE t < last
      <4>1. t \in since .. last - 1
        BY <1>1, <2>1, <3>0, <3>1
      <4>2. t \notin collected
        BY <2>2
      <4> QED
        BY <1>3, <2>0, <2>2, <4>1, <4>2 DEF Reached, Reach
    <3>2. CASE t >= last
      <4>1. t < now - p
        BY <1>2, <1>4, <2>2, <3>0, Data DEF Figures
      <4>2. t < last + Delay
        BY <1>1, <1>2, <1>3, <2>0, <3>0, <4>1, StatsAssumption, Data DEF Figures
      <4> QED
        BY <1>3, <2>0, <3>2, <4>2
    <3> QED
      BY <1>1, <3>0, <3>1, <3>2
  <2> QED
    BY <2>1, <2>2 DEF Reach
<1> QED
  BY <1>5, <1>6

LEMMA StatsFetchesKeeps ==
    ASSUME StatsInv, NEW r \in Stats!RunId, Stats!Fetches(r) PROVE StatsInv'
<1>1. turn[r].at = "fetch" /\ turn[r] \in Late /\ Chosen(turn[r])
      /\ turn[r].start <= now /\ turn[r].taken <= now
  BY Data DEF Stats!Fetches, Sound
<1>2. PICK ok \in BOOLEAN :
        /\ turn' = [turn EXCEPT ![r].at = "seal", ![r].ok = ok]
        /\ \/ collected' = collected \cup Stats!Asked(r)
           \/ ~ok /\ UNCHANGED collected
        /\ since' = IF ok /\ turn[r].cron /\ Stats!Anew(r)
                    THEN Stats!Larger(since, now - turn[r].hours * Hour) ELSE since
  BY DEF Stats!Fetches
<1> DEFINE x == [turn[r] EXCEPT !.at = "seal", !.ok = ok]
<1>3. turn' = [turn EXCEPT ![r] = x]
  BY <1>2 DEF StatsInv, StatsTyped, Runs
<1>4. /\ x \in Late /\ x.at = "seal"
      /\ x.taken = turn[r].taken /\ x.start = turn[r].start
      /\ x.ok = ok /\ x.cron = turn[r].cron
  BY <1>1
<1> HIDE DEF x
<1>5. turn'[r] = x /\ Runs' /\ \A o \in Stats!RunId \ {r} : turn'[o] = turn[o]
  BY <1>3, <1>4 DEF StatsInv, StatsTyped, Runs
<1>6. since' \in Nat /\ since <= since'
  <2>1. turn[r].hours * Hour \in Int
    BY <1>1, StatsAssumption
  <2>2. since' = since \/ since' = Stats!Larger(since, now - turn[r].hours * Hour)
    BY <1>2
  <2> QED
    BY <2>1, <2>2, Data DEF Figures, Stats!Larger
<1>8. collected \subseteq collected' /\ collected' \subseteq Stats!Tick
  BY <1>2, Data DEF Figures, Stats!Asked
<1>9. Grows /\ Figures' /\ suppressed' = suppressed
  BY <1>6, <1>8, Data DEF Grows, Stats!Fetches, Figures
<1>10. \A t \in Nat : Reached(t) => Reach(since', collected', anchors', t)
  BY <1>9, Grown DEF Grows, Reached
<1>11. Reached(anchor)' /\ Reached(pending)'
  BY <1>10, Data DEF Reached, Stats!Fetches, Figures
<1>12. Sound(turn[r])'
  <2>1. CASE ok /\ turn[r].cron
    <3>1. Reach(since', collected', anchors', turn[r].start)
      BY <1>1, <1>2, <2>1, AnswerCovers DEF Stats!Fetches
    <3> QED
      BY <1>4, <1>5, <3>1 DEF Sound, Reached
  <2>2. CASE ~(ok /\ turn[r].cron)
    BY <1>4, <1>5, <2>2 DEF Sound
  <2> QED
    BY <2>1, <2>2
<1> QED
  BY <1>1, <1>4, <1>5, <1>9, <1>11, <1>12, Data, OneRun DEF Figures

\* A clear finds no run that has chosen its hours.
LEMMA StatsClearsKeeps == ASSUME StatsInv, Stats!Clears PROVE StatsInv'
<1>1. \A r \in Stats!RunId :
        turn'[r] = turn[r] /\ turn[r].at \in {"idle", "queued", "ended"}
  BY DEF Stats!Clears, Stats!UnderWay
<1>2. suppressed' \in BOOLEAN
  BY DEF Stats!Clears
<1>3. Figures' /\ Runs'
  <2>1. Figures'
    BY Data DEF Stats!Clears, Figures
  <2>2. Runs'
    BY DEF Stats!Clears, StatsInv, StatsTyped, Runs
  <2> QED
    BY <2>1, <2>2
<1>4. StatsTyped'
  BY <1>1, <1>2, <1>3, Data DEF StatsTyped, Single, Stats!Clears
<1>5. \A r \in Stats!RunId : Sound(turn[r])'
  BY <1>1 DEF Sound, Behind
<1>6. Reached(anchor)' /\ Reached(pending)'
  BY DEF Stats!Clears, Reached, Reach
<1> QED
  BY <1>4, <1>5, <1>6 DEF StatsInv, Chain

\* A restart ends every run.
LEMMA StatsRestartsKeeps == ASSUME StatsInv, Stats!Restarts PROVE StatsInv'
<1>1. suppressed' \in BOOLEAN
  BY DEF Stats!Restarts
<1>2. Figures' /\ Runs'
  BY Data DEF Stats!Restarts, Figures, Runs
<1>3. \A r \in Stats!RunId : turn'[r] \in {Stats!Idle, Stats!Over}
  BY DEF Stats!Restarts
<1>4. \A r \in Stats!RunId : turn'[r].at \in {"idle", "ended"}
  BY <1>3
<1>5. StatsTyped'
  BY <1>1, <1>2, <1>4 DEF StatsTyped, Single
<1>6. Chain'
  <2>1. \A r \in Stats!RunId : Sound(turn[r])'
    BY <1>4 DEF Sound, Behind
  <2>2. Reached(anchor)' /\ Reached(pending)'
    BY Data DEF Stats!Restarts, Reached
  <2> QED
    BY <2>1, <2>2 DEF Chain
<1> QED
  BY <1>5, <1>6 DEF StatsInv

\* The clock waits for a run that has chosen its hours, as long as Delay says.
LEMMA StatsPassesKeeps == ASSUME StatsInv, Stats!Passes PROVE StatsInv'
<1>1. now' = now + 1 /\ now < MaxTime /\ now \in Nat
  BY Data DEF Stats!Passes, Figures
<1>2. suppressed' = suppressed /\ turn' = turn
  BY DEF Stats!Passes
<1>3. StatsTyped'
  <2>1. Figures'
    BY <1>1, Data, StatsAssumption DEF Stats!Passes, Figures
  <2>2. Runs' /\ Single'
    BY <1>2 DEF StatsInv, StatsTyped, Runs, Single
  <2>3. \A r \in Stats!RunId :
            /\ turn'[r].at \in Waiting \cup Working => turn'[r].start <= now'
            /\ turn'[r].at \in Working => turn'[r].taken <= now'
    <3>1. ASSUME NEW r \in Stats!RunId
          PROVE  /\ turn[r].at \in Waiting \cup Working => turn[r].start <= now + 1
                 /\ turn[r].at \in Working => turn[r].taken <= now + 1
      <4>1. turn[r].at \in Waiting \cup Working =>
                turn[r].start \in Nat /\ turn[r].start <= now
        BY Data
      <4>2. turn[r].at \in Working => turn[r].taken \in Nat /\ turn[r].taken <= now
        BY Data
      <4> HIDE DEF Waiting, Working
      <4> QED
        BY <1>1, <4>1, <4>2
    <3> QED
      BY <1>1, <1>2, <3>1
  <2>4. suppressed' \in BOOLEAN
    BY <1>2, Data
  <2> QED
    BY <2>1, <2>2, <2>3, <2>4 DEF StatsTyped
<1>4. \A t : Reached(t)' <=> Reached(t)
  BY DEF Stats!Passes, Reached
<1>6. ASSUME NEW r \in Stats!RunId PROVE Sound(turn[r])'
  <2>1. Sound(turn[r]) /\ turn'[r] = turn[r]
    BY <1>2, Data
  <2>2. CASE turn[r].at = "fetch"
    <3>1. /\ now' - turn[r].resolved <= Delay /\ turn[r].resolved <= now'
          /\ turn[r] \in Late
      <4>1. now - turn[r].resolved < Delay /\ turn[r].resolved <= now
        <5>1. now - turn[r].resolved < Delay
          BY <2>2 DEF Stats!Passes
        <5>2. turn[r].resolved <= now
          BY <2>1, <2>2 DEF Sound, Chosen
        <5> QED
          BY <5>1, <5>2
      <4>2. turn[r] \in Late
        BY <2>2, Data
      <4>3. turn[r].resolved \in Nat
        BY <4>2
      <4> HIDE DEF Late
      <4> QED
        BY <1>1, <4>1, <4>2, <4>3, StatsAssumption
    <3>2. Chosen(turn[r])'
      BY <1>2, <2>1, <2>2, <3>1 DEF Sound, Chosen, Stats!Passes, Reached
    <3> QED
      BY <2>1, <2>2, <3>2 DEF Sound, Behind
  <2>3. CASE turn[r].at # "fetch"
    BY <2>1, <2>3 DEF Sound, Stats!Passes, Reached
  <2> QED
    BY <2>2, <2>3
<1>7. Reached(anchor)' /\ Reached(pending)'
  BY Data DEF Stats!Passes, Reached
<1> QED
  BY <1>3, <1>6, <1>7 DEF StatsInv, Chain

\* Nothing in StatsInv depends on the bounds of failures and clears.
LEMMA StatsStutter == ASSUME StatsInv, UNCHANGED Stats!vars PROVE StatsInv'
<1>1. StatsTyped'
  BY DEF StatsInv, StatsTyped, Figures, Runs, Single
<1>2. Chain'
  BY DEF StatsInv, Chain, Sound, Chosen, Reached
<1> QED
  BY <1>1, <1>2 DEF StatsInv

LEMMA StatsStep == ASSUME StatsInv, [Stats!Next]_Stats!vars PROVE StatsInv'
<1>1. CASE UNCHANGED Stats!vars
  BY <1>1, StatsStutter
<1>2. ASSUME NEW r \in Stats!RunId, Stats!Runs(r) PROVE StatsInv'
  BY <1>2, StatsQueuesKeeps, StatsRegistersKeeps, StatsSuppressesKeeps,
     StatsResolvesKeeps, StatsFetchesKeeps, StatsTakesKeeps, StatsWritesKeeps,
     StatsWriteFailsKeeps, StatsUnregistersKeeps, StatsUnsuppressesKeeps,
     StatsNotesKeeps DEF Stats!Runs
<1>3. CASE Stats!Clears \/ Stats!Restarts \/ Stats!Passes
  BY <1>3, StatsClearsKeeps, StatsRestartsKeeps, StatsPassesKeeps
<1> QED
  BY <1>1, <1>2, <1>3 DEF Stats!Next

LEMMA StatsEnough == ASSUME StatsInv PROVE CatchUpSafe
<1>2. \A r, o \in Stats!RunId :
        turn[r].at \in Stats!Registered /\ turn[o].at \in Stats!Registered => r = o
  BY DEF StatsInv, StatsTyped, Single
<1>3. \A r \in Stats!RunId : turn[r].at \in Stats!Registered \cup
        {"idle", "queued", "unsuppress", "note", "flush", "write", "ended"}
  BY Told DEF StatsInv, StatsTyped
<1>4. Stats!TypeOK
  <2>1. now \in Stats!Tick
    BY Data, StatsAssumption DEF Figures, Stats!Tick
  <2>2. {anchor, pending} \subseteq 0 .. now
    BY Data DEF Figures
  <2>3. /\ collected \subseteq Stats!Tick /\ since \in Nat
        /\ anchor # 0 => anchor \in anchors
    BY Data DEF Figures
  <2>4. suppressed \in BOOLEAN
    BY Data
  <2> QED
    BY <1>2, <1>3, <2>1, <2>2, <2>3, <2>4, Zenon DEF Stats!TypeOK
<1>5. Stats!AnchorSound
  BY Data DEF Stats!AnchorSound, Reached, Reach
<1> QED
  BY <1>4, <1>5 DEF CatchUpSafe, Stats!CatchUpSafe

\* Whatever runs failed, were restarted or ended together, what a source
\* changed before its last_collect_time is stored.
THEOREM CatchUpSafeHolds == Stats!Spec => []CatchUpSafe
<1>1. StatsInv /\ [Stats!Next]_Stats!vars => StatsInv'
  BY StatsStep
<1>2. Stats!Init => StatsInv
  BY StatsStarts
<1>3. StatsInv => CatchUpSafe
  BY StatsEnough
<1> QED
  BY <1>1, <1>2, <1>3, PTL DEF Stats!Spec

-----------------------------------------------------------------------------
(* The search index.                                                        *)

\* Rows as they are read: what is said of some films.
Rowset(rows) == DOMAIN rows \subseteq Item /\ rows = [m \in DOMAIN rows |-> rows[m]]

\* The films of an index, each once, and where its lists lead.
Listing(items) ==
    /\ items \in Seq(Range(items))
    /\ \A i, j \in DOMAIN items : items[i].mid = items[j].mid => i = j

\* A letter's list leads to every film that has it in its title.
Posted(idx) ==
    \A ch \in Search!Char, i \in DOMAIN idx.items :
        ch \in idx.items[i].meta.title => i \in idx.posts[ch]

\* An index whose positions and letters fit its list.
Whole(idx) ==
    Listing(idx.items) /\ idx.pos = Search!Positions(idx.items) /\ Posted(idx)

\* What an index says of its films.
Content(idx) == [m \in DOMAIN idx.pos |-> idx.items[idx.pos[m]].meta]

\* Rows, or an index, that are right about a film.
Right(rows, m) ==
    IF tables[m] \in Meta THEN m \in DOMAIN rows /\ rows[m] = tables[m]
                         ELSE m \notin DOMAIN rows

\* The films that a call, or the reseal, has at hand.
AtHand(c) == IF call[c] = Search!Idle THEN {} ELSE call[c].mids
Sealing == IF seal.at = "idle" THEN {} ELSE seal.mids

\* The shapes of a call, of the reseal and of a scan.
Calling(x) ==
    \/ x = Search!Idle
    \/ /\ x.at \in {"upsert", "read", "remove"} /\ x.mids \subseteq Item
       /\ x.at = "read" => Rowset(x.rows) /\ DOMAIN x.rows \subseteq x.mids
Resealed(x) ==
    \/ x = Search!Idle
    \/ /\ x = [at |-> x.at, mids |-> x.mids, rows |-> x.rows, moved |-> x.moved]
       /\ x.at \in {"rows", "ready"} /\ x.moved \in BOOLEAN /\ x.mids \subseteq Item
       /\ Rowset(x.rows) /\ DOMAIN x.rows \subseteq x.mids
Scanning(x) ==
    \/ x = Search!Idle
    \/ /\ x = [at |-> "read", rows |-> x.rows, lost |-> x.lost]
       /\ Rowset(x.rows) /\ x.lost \subseteq Item

SearchTyped ==
    /\ tables \in [Item -> Meta \cup {New, Gone}]
    /\ changed \subseteq Item /\ lost \subseteq Item
    /\ call = [c \in Caller |-> call[c]] /\ \A c \in Caller : Calling(call[c])
    /\ Resealed(seal) /\ Scanning(build)

\* Whoever reads for the index under the mutex is alone until it has stored.
ReadersHold ==
    /\ \A c \in Caller : call[c].at = "read" => indexMutex = c
    /\ build.at = "read" => indexMutex = "build"

\* A deletion has nothing to take back: no film comes again.
GoneForGood ==
    \A c \in Caller : call[c].at = "remove" =>
        \A m \in call[c].mids : tables[m] = Gone

\* What was read of a film is right as long as nobody else has it at hand and
\* no failed read has told nothing of it.
CallRight(c) ==
    \A m \in call[c].mids :
        \/ m \in changed \cup Sealing \cup lost
        \/ \E d \in Caller \ {c} : m \in AtHand(d)
        \/ Right(call[c].rows, m)
CallsRight == \A c \in Caller : call[c].at = "read" => CallRight(c)

\* The reseal notices whatever replaces the index it has read for.
SealRight ==
    seal.at # "idle" /\ ~seal.moved =>
        /\ index # NoIndex
        /\ \A m \in seal.mids :
              \/ m \in changed \cup lost \/ \E d \in Caller : m \in AtHand(d)
              \/ Right(seal.rows, m)

\* A scan makes up for the failures before it, not for those during it.
ScanRight ==
    build.at = "read" =>
        \A m \in Item :
            \/ m \in changed \cup Sealing \cup (lost \ build.lost)
            \/ \E d \in Caller : m \in AtHand(d)
            \/ Right(build.rows, m)

\* What no goroutine has at hand and no failed read has missed is as in the
\* tables.
IndexRight ==
    index # NoIndex =>
        /\ Whole(index)
        /\ \A m \in Item :
              \/ m \in changed \cup Sealing \cup lost
              \/ \E d \in Caller : m \in AtHand(d)
              \/ Right(Content(index), m)

\* The inductive invariant of the search index.
SearchInv ==
    SearchTyped /\ ReadersHold /\ GoneForGood /\ CallsRight /\ SealRight
        /\ ScanRight /\ IndexRight

-----------------------------------------------------------------------------
(* Numbers.                                                                 *)

\* Of any numbers there is a least.
LEMMA Least ==
    ASSUME NEW T, T \subseteq Nat, T # {}
    PROVE  \E n \in T : \A m \in T : n <= m
<1> DEFINE R == OpToRel(<, Nat)
<1>1. IsWellFoundedOn(R, Nat)
  BY NatLessThanWellFounded
<1>2. \A x, y \in Nat : <<x, y>> \in R <=> x < y
  BY DEF OpToRel
<1> HIDE DEF R
<1>3. \E n \in T : \A m \in T : ~(<<m, n>> \in R)
  <2>1. T \subseteq Nat /\ T # {}
    OBVIOUS
  <2> QED
    BY <1>1, <2>1, WFMin, Zenon
<1>4. PICK n \in T : \A m \in T : ~(<<m, n>> \in R)
  BY <1>3
<1>5. ASSUME NEW m \in T PROVE n <= m
  <2>1. m \in Nat /\ n \in Nat
    OBVIOUS
  <2>2. ~(m < n)
    BY <1>2, <1>4, <2>1
  <2> QED
    BY <2>1, <2>2
<1> QED
  BY <1>5

\* What is false of some day is false of a first one.
LEMMA FirstOf ==
    ASSUME NEW k \in Nat, NEW T, T \subseteq 0 .. k, T # {}
    PROVE  \E n \in T : \A m \in 0 .. k : m < n => m \notin T
<1>1. PICK n \in T : \A m \in T : n <= m
  <2>1. T \subseteq Nat
    OBVIOUS
  <2> QED
    BY <2>1, Least
<1> QED
  BY <1>1

-----------------------------------------------------------------------------
(* Orders of a set, and sequences in order.                                 *)

\* The operators of finite sets are those of the search index's module.
LEMMA Counted ==
    ASSUME NEW S
    PROVE  Search!Cardinality(S) = Cardinality(S)
BY DEF Search!Cardinality, Cardinality

\* R orders S: of two one comes before the other.
Orders(R, S) ==
    /\ \A i \in S : <<i, i>> \notin R
    /\ \A i, j \in S : i # j => <<i, j>> \in R \/ <<j, i>> \in R
    /\ \A i, j, k \in S : <<i, j>> \in R /\ <<j, k>> \in R => <<i, k>> \in R

\* All of S, each once; and in the order of R.
Once(t, S) ==
    /\ t \in Seq(S)
    /\ \A a, b \in DOMAIN t : t[a] = t[b] => a = b
    /\ \A x \in S : \E a \in DOMAIN t : t[a] = x
InTurn(t, R) == \A a, b \in DOMAIN t : a < b => <<t[a], t[b]>> \in R

\* The rank of an element, and the elements at the places of their ranks.
UpTo(i, S, R) == {j \in S : j = i \/ <<j, i>> \in R}
Along(S, R) ==
    [n \in 1 .. Cardinality(S) |-> CHOOSE i \in S : Cardinality(UpTo(i, S, R)) = n]

\* Ranks tell the elements apart, in their order.
LEMMA RanksAre ==
    ASSUME NEW S, IsFiniteSet(S), NEW R, Orders(R, S)
    PROVE  /\ Cardinality(S) \in Nat
           /\ \A i \in S : Cardinality(UpTo(i, S, R)) \in 1 .. Cardinality(S)
           /\ \A i, j \in S : <<i, j>> \in R =>
                 Cardinality(UpTo(i, S, R)) < Cardinality(UpTo(j, S, R))
           /\ \A i, j \in S :
                 Cardinality(UpTo(i, S, R)) = Cardinality(UpTo(j, S, R)) => i = j
           /\ \A k \in 1 .. Cardinality(S) :
                 \E i \in S : Cardinality(UpTo(i, S, R)) = k
<1> DEFINE N == Cardinality(S)
           rank == [i \in S |-> Cardinality(UpTo(i, S, R))]
<1>1. N \in Nat
  BY FS_CardinalityType
<1>2. ASSUME NEW i \in S
      PROVE  IsFiniteSet(UpTo(i, S, R)) /\ rank[i] \in 1 .. N
  <2>1. UpTo(i, S, R) \in SUBSET S /\ i \in UpTo(i, S, R)
    BY DEF UpTo
  <2>2. /\ IsFiniteSet(UpTo(i, S, R)) /\ Cardinality(UpTo(i, S, R)) \in Nat
        /\ Cardinality(UpTo(i, S, R)) <= N
    BY <2>1, FS_Subset, FS_CardinalityType
  <2>3. Cardinality(UpTo(i, S, R)) # 0
    BY <2>1, <2>2, FS_EmptySet
  <2> QED
    BY <1>1, <2>2, <2>3
<1>3. ASSUME NEW i \in S, NEW j \in S, <<i, j>> \in R
      PROVE  rank[i] < rank[j]
  <2>1. UpTo(i, S, R) \in SUBSET UpTo(j, S, R) /\ j \in UpTo(j, S, R)
    BY <1>3 DEF UpTo, Orders
  <2>2. j \notin UpTo(i, S, R)
    BY <1>3 DEF UpTo, Orders
  <2>3. /\ Cardinality(UpTo(i, S, R)) <= Cardinality(UpTo(j, S, R))
        /\ Cardinality(UpTo(i, S, R)) # Cardinality(UpTo(j, S, R))
    BY <1>2, <2>1, <2>2, FS_Subset
  <2>4. rank[i] \in Nat /\ rank[j] \in Nat
    BY <1>1, <1>2
  <2> QED
    BY <2>3, <2>4
<1>4. ASSUME NEW i \in S, NEW j \in S, rank[i] = rank[j] PROVE i = j
  <2> HIDE DEF rank
  <2>1. rank[i] \in Nat /\ rank[j] \in Nat
    BY <1>1, <1>2
  <2>2. <<i, j>> \notin R
    BY <1>3, <1>4, <2>1
  <2>3. <<j, i>> \notin R
    BY <1>3, <1>4, <2>1
  <2> QED
    BY <2>2, <2>3 DEF Orders
<1>5. \A k \in 1 .. N : \E i \in S : rank[i] = k
  <2>1. rank \in Injection(S, 1 .. N)
    BY <1>2, <1>4 DEF Injection, IsInjective
  <2>2. IsFiniteSet(1 .. N) /\ Cardinality(1 .. N) = N
    BY <1>1, FS_Interval
  <2> HIDE DEF rank
  <2>3. rank \in Surjection(S, 1 .. N)
    BY <2>1, <2>2, FS_Injection
  <2> QED
    BY <2>3 DEF Surjection
<1> QED
  BY <1>1, <1>2, <1>3, <1>4, <1>5

\* The elements at the places of their ranks are all of them, in order.
LEMMA AlongIs ==
    ASSUME NEW S, IsFiniteSet(S), NEW R, Orders(R, S)
    PROVE  Once(Along(S, R), S) /\ InTurn(Along(S, R), R)
<1> DEFINE N == Cardinality(S)
           Rank(i) == Cardinality(UpTo(i, S, R))
           t == Along(S, R)
<1>1. /\ N \in Nat /\ \A i \in S : Rank(i) \in 1 .. N
      /\ \A i, j \in S : <<i, j>> \in R => Rank(i) < Rank(j)
      /\ \A i, j \in S : Rank(i) = Rank(j) => i = j
      /\ \A k \in 1 .. N : \E i \in S : Rank(i) = k
  BY RanksAre
<1>2. t = [n \in 1 .. N |-> CHOOSE i \in S : Rank(i) = n]
  BY DEF Along
<1> HIDE DEF Rank, N, t
<1>3. \A n \in 1 .. N : t[n] \in S /\ Rank(t[n]) = n
  BY <1>1, <1>2
<1>4. t \in [1 .. N -> S] /\ DOMAIN t = 1 .. N
  BY <1>2, <1>3
<1>5. t \in Seq(S)
  BY <1>1, <1>4
<1>6. \A a, b \in DOMAIN t : t[a] = t[b] => a = b
  BY <1>3, <1>4
<1>7. \A x \in S : t[Rank(x)] = x /\ Rank(x) \in DOMAIN t
  BY <1>1, <1>3, <1>4
<1>8. \A a, b \in DOMAIN t : a < b => <<t[a], t[b]>> \in R
  <2> SUFFICES ASSUME NEW a \in 1 .. N, NEW b \in 1 .. N, a < b
               PROVE  <<t[a], t[b]>> \in R
    BY <1>4
  <2>1. t[a] # t[b] /\ ~(Rank(t[b]) < Rank(t[a]))
    BY <1>1, <1>3
  <2> QED
    BY <1>1, <1>3, <2>1 DEF Orders
<1>9. Once(t, S)
  BY <1>5, <1>6, <1>7 DEF Once
<1> QED
  BY <1>8, <1>9 DEF InTurn, t

\* There is no other sequence that has all of them in order.
LEMMA AlongOnly ==
    ASSUME NEW S, IsFiniteSet(S), NEW R, Orders(R, S),
           NEW t, Once(t, S), InTurn(t, R)
    PROVE  t = Along(S, R)
<1> DEFINE N == Cardinality(S)
<1>1. /\ N \in Nat
      /\ \A i, j \in S :
            Cardinality(UpTo(i, S, R)) = Cardinality(UpTo(j, S, R)) => i = j
  BY RanksAre
<1>2. t \in Seq(S) /\ Len(t) \in Nat /\ DOMAIN t = 1 .. Len(t)
  BY DEF Once
<1>3. ASSUME NEW n \in 1 .. Len(t)
      PROVE  t[n] \in S /\ Cardinality(UpTo(t[n], S, R)) = n
  <2> DEFINE part == [a \in 1 .. n |-> t[a]]
             set == UpTo(t[n], S, R)
  <2>1. \A a \in 1 .. n : a \in DOMAIN t /\ t[a] \in S
    BY <1>2
  <2>2. \A a \in 1 .. n : t[a] \in set
    BY <1>2, <2>1 DEF UpTo, InTurn
  <2>3. ASSUME NEW x \in set PROVE \E a \in 1 .. n : t[a] = x
    <3>1. x \in S /\ (x = t[n] \/ <<x, t[n]>> \in R)
      BY DEF UpTo
    <3>2. PICK a \in DOMAIN t : t[a] = x
      BY <3>1 DEF Once
    <3>3. CASE a \in 1 .. n
      BY <3>2, <3>3
    <3>4. CASE n < a
      <4>1. <<t[n], x>> \in R /\ t[n] \in S /\ t[n] # x
        BY <1>2, <2>1, <3>2, <3>4 DEF InTurn, Once
      <4> QED
        BY <3>1, <4>1 DEF Orders
    <3> QED
      BY <1>2, <3>2, <3>3, <3>4
  <2>4. \A a, b \in 1 .. n : t[a] = t[b] => a = b
    BY <2>1 DEF Once
  <2> HIDE DEF set
  <2>5. part \in Bijection(1 .. n, set)
    BY <2>2, <2>3, <2>4 DEF Bijection, Injection, Surjection, IsInjective
  <2>6. IsFiniteSet(1 .. n) /\ Cardinality(1 .. n) = n
    BY FS_Interval
  <2> HIDE DEF part
  <2>7. Cardinality(set) = n
    BY <2>5, <2>6, FS_Bijection DEF ExistsBijection
  <2> QED
    BY <2>1, <2>7 DEF set
<1>4. Len(t) = N
  <2>1. t \in Bijection(1 .. Len(t), S)
    BY <1>2 DEF Bijection, Injection, Surjection, IsInjective, Once
  <2>2. IsFiniteSet(1 .. Len(t)) /\ Cardinality(1 .. Len(t)) = Len(t)
    BY <1>2, FS_Interval
  <2> QED
    BY <2>1, <2>2, FS_Bijection DEF ExistsBijection
<1>5. \A n \in 1 .. N :
         t[n] = CHOOSE i \in S : Cardinality(UpTo(i, S, R)) = n
  BY <1>1, <1>3, <1>4
<1>6. t = [n \in 1 .. N |-> t[n]]
  BY <1>2, <1>4
<1> HIDE DEF N
<1> QED
  BY <1>5, <1>6 DEF Along, N

\* p takes t out of s, every one of the positions I once, and in their order.
Picks(t, s, I, n, p) ==
    /\ t = [k \in 1 .. n |-> s[p[k]]]
    /\ \A j, k \in 1 .. n : p[j] = p[k] => j = k
    /\ \A j, k \in 1 .. n : j < k => p[j] < p[k]
    /\ \A i \in I : \E k \in 1 .. n : p[k] = i

\* Picking takes every one of the positions once.
LEMMA PickedIs ==
    ASSUME NEW s, s \in Seq(Range(s)), NEW I \in SUBSET DOMAIN s
    PROVE  \E n \in Nat : \E p \in [1 .. n -> I] :
              Picks(Search!Picked(s, I), s, I, n, p)
<1> DEFINE R == {w \in I \X I : w[1] < w[2]}
           p == Along(I, R)
           n == Len(p)
<1>1. I \subseteq Nat /\ IsFiniteSet(I)
  <2>1. IsFiniteSet(1 .. Len(s)) /\ DOMAIN s = 1 .. Len(s)
    BY FS_Interval
  <2> QED
    BY <2>1, FS_Subset
<1>2. \A i, j \in I : <<i, j>> \in R <=> i < j
  OBVIOUS
<1> HIDE DEF R
<1>3. Orders(R, I)
  BY <1>1, <1>2 DEF Orders
<1>4. Once(p, I) /\ InTurn(p, R)
  BY <1>1, <1>3, AlongIs
<1> DEFINE At(k) == CHOOSE i \in I :
                       Search!Cardinality({j \in I : j = i \/ j < i}) = k
           q == [k \in 1 .. Search!Cardinality(I) |-> At(k)]
<1>5. q = p
  <2> DEFINE Place(k) == CHOOSE i \in I : Cardinality(UpTo(i, I, R)) = k
  <2>1. \A i \in I : {j \in I : j = i \/ j < i} = UpTo(i, I, R)
    BY <1>2 DEF UpTo
  <2>2. \A i \in I : Search!Cardinality({j \in I : j = i \/ j < i})
                        = Cardinality(UpTo(i, I, R))
    BY <2>1, Counted
  <2>3. Search!Cardinality(I) = Cardinality(I)
    BY Counted
  <2>4. \A k : At(k) = Place(k)
    <3> SUFFICES ASSUME NEW k PROVE At(k) = Place(k)
      OBVIOUS
    <3> QED
      BY <2>2
  <2>5. p = [k \in 1 .. Cardinality(I) |-> Place(k)]
    BY DEF Along
  <2> HIDE DEF At, Place, p
  <2> QED
    BY <2>3, <2>4, <2>5
<1>6. Search!Picked(s, I) = [k \in DOMAIN p |-> s[p[k]]]
  <2>1. Search!Picked(s, I) = [k \in DOMAIN q |-> s[q[k]]]
    BY DEF Search!Picked, Search!InOrder
  <2> HIDE DEF At, q, p
  <2> QED
    BY <1>5, <2>1
<1> HIDE DEF p, q, At
<1>7. n \in Nat /\ DOMAIN p = 1 .. n /\ p \in [1 .. n -> I]
  BY <1>4 DEF Once
<1>8. \A j, k \in 1 .. n : p[j] = p[k] => j = k
  BY <1>4, <1>7 DEF Once
<1>9. \A i \in I : \E k \in 1 .. n : p[k] = i
  BY <1>4, <1>7 DEF Once
<1>10. \A j, k \in 1 .. n : j < k => p[j] < p[k]
  BY <1>2, <1>4, <1>7 DEF InTurn
<1> HIDE DEF n
<1>11. Picks(Search!Picked(s, I), s, I, n, p)
  BY <1>6, <1>7, <1>8, <1>9, <1>10 DEF Picks
<1> QED
  BY <1>7, <1>11

-----------------------------------------------------------------------------
(* What the operators of the index do, whatever the films and the patch.   *)

\* What a list of films says of each.
Says(items) ==
    [m \in {items[i].mid : i \in DOMAIN items} |->
        items[CHOOSE i \in DOMAIN items : items[i].mid = m].meta]

\* Every entry of such a list is found under its film, and at its position.
LEMMA SaysEach ==
    ASSUME NEW items, Listing(items)
    PROVE  /\ \A i \in DOMAIN items :
                 /\ items[i].mid \in DOMAIN Says(items)
                 /\ Says(items)[items[i].mid] = items[i].meta
           /\ \A m \in DOMAIN Says(items) : \E i \in DOMAIN items : items[i].mid = m
           /\ \A i \in DOMAIN items : Search!Positions(items)[items[i].mid] = i
           /\ DOMAIN Search!Positions(items) = DOMAIN Says(items)
           /\ \A m \in DOMAIN Says(items) :
                 /\ Search!Positions(items)[m] \in DOMAIN items
                 /\ items[Search!Positions(items)[m]].mid = m
<1>1. \A i \in DOMAIN items :
         (CHOOSE j \in DOMAIN items : items[j].mid = items[i].mid) = i
  BY DEF Listing
<1> QED
  BY <1>1 DEF Says, Search!Positions

\* A list that has an entry for every row and no other says what the rows say.
LEMMA SaysRows ==
    ASSUME NEW items, Listing(items), NEW rows, rows = [m \in DOMAIN rows |-> rows[m]],
           \A i \in DOMAIN items :
              items[i].mid \in DOMAIN rows /\ items[i].meta = rows[items[i].mid],
           \A m \in DOMAIN rows : \E i \in DOMAIN items : items[i].mid = m
    PROVE  Says(items) = rows
<1>1. DOMAIN Says(items) = DOMAIN rows
  BY SaysEach
<1>2. \A m \in DOMAIN rows : Says(items)[m] = rows[m]
  BY SaysEach
<1>3. Says(items) = [m \in DOMAIN Says(items) |-> Says(items)[m]]
  BY DEF Says
<1> QED
  BY <1>1, <1>2, <1>3

\* What an index says is what its list says.
LEMMA ContentIs ==
    ASSUME NEW idx, Whole(idx)
    PROVE  Content(idx) = Says(idx.items)
<1>1. /\ DOMAIN idx.pos = DOMAIN Says(idx.items)
      /\ \A m \in DOMAIN idx.pos :
            idx.items[idx.pos[m]].meta = Says(idx.items)[m]
  BY SaysEach DEF Whole
<1>2. Says(idx.items) = [m \in DOMAIN Says(idx.items) |-> Says(idx.items)[m]]
  BY DEF Says
<1> QED
  BY <1>1, <1>2 DEF Content

\* An index that is sealed anew is whole and says what its list says.
LEMMA SealedIs ==
    ASSUME NEW items, Listing(items)
    PROVE  /\ Whole(Search!Sealed(items))
           /\ Content(Search!Sealed(items)) = Says(items)
<1> DEFINE idx == Search!Sealed(items)
<1>1. /\ idx.items = items /\ idx.pos = Search!Positions(items)
      /\ idx.posts = [ch \in Search!Char |-> Search!PostsOf(items, ch)]
  BY DEF Search!Sealed
<1> HIDE DEF idx
<1>2. Posted(idx)
  BY <1>1 DEF Posted, Search!PostsOf
<1>3. Whole(idx)
  BY <1>1, <1>2 DEF Whole
<1>4. Content(idx) = Says(items)
  BY <1>1, <1>3, ContentIs
<1> QED
  BY <1>3, <1>4 DEF idx

\* Some of a list's films, in their order.
LEMMA WithoutIs ==
    ASSUME NEW items, Listing(items), NEW gone
    PROVE  /\ Listing(Search!Without(items, gone))
           /\ Says(Search!Without(items, gone)) =
                 [m \in DOMAIN Says(items) \ gone |-> Says(items)[m]]
<1> DEFINE I == {i \in DOMAIN items : items[i].mid \notin gone}
           left == Search!Without(items, gone)
           rows == [m \in DOMAIN Says(items) \ gone |-> Says(items)[m]]
<1>1. items \in Seq(Range(items))
  BY DEF Listing
<1>2. PICK n \in Nat : \E p \in [1 .. n -> I] : Picks(left, items, I, n, p)
  <2>1. left = Search!Picked(items, I) /\ I \in SUBSET DOMAIN items
    BY DEF Search!Without
  <2> HIDE DEF left, I
  <2> QED
    BY <1>1, <2>1, PickedIs
<1>3. PICK p \in [1 .. n -> I] : Picks(left, items, I, n, p)
  BY <1>2
<1>4. /\ left = [k \in 1 .. n |-> items[p[k]]]
      /\ \A j, k \in 1 .. n : p[j] = p[k] => j = k
      /\ \A i \in I : \E k \in 1 .. n : p[k] = i
  BY <1>3 DEF Picks
<1> HIDE DEF left
<1>5. /\ left = [k \in 1 .. n |-> left[k]]
      /\ \A k \in 1 .. n : p[k] \in I /\ left[k] = items[p[k]]
  BY <1>4
<1>6. Listing(left)
  <2>1. left \in Seq(Range(left))
    BY <1>5 DEF Range
  <2> QED
    BY <1>4, <1>5, <2>1 DEF Listing
<1>7. ASSUME NEW k \in DOMAIN left
      PROVE  left[k].mid \in DOMAIN rows /\ left[k].meta = rows[left[k].mid]
  BY <1>5, SaysEach
<1>8. ASSUME NEW m \in DOMAIN rows
      PROVE  \E k \in DOMAIN left : left[k].mid = m
  <2>1. PICK i \in DOMAIN items : items[i].mid = m
    BY SaysEach
  <2>2. i \in I
    BY <2>1
  <2> QED
    BY <1>4, <1>5, <2>1, <2>2
<1>9. Says(left) = rows
  <2>1. rows = [m \in DOMAIN rows |-> rows[m]]
    OBVIOUS
  <2> HIDE DEF rows
  <2> QED
    BY <1>6, <1>7, <1>8, <2>1, SaysRows
<1> QED
  BY <1>6, <1>9 DEF left

\* Every order of a set is one of its members, each once.
LEMMA OrderIs ==
    ASSUME NEW S \in SUBSET Item, NEW order \in Search!SetToSeqs(S)
    PROVE  \E n \in Nat :
              /\ order \in [1 .. n -> S]
              /\ \A j, k \in 1 .. n : order[j] = order[k] => j = k
              /\ \A x \in S : \E k \in 1 .. n : order[k] = x
<1> DEFINE N == Cardinality(S)
<1>1. IsFiniteSet(S) /\ N \in Nat
  BY SearchAssumption, FS_Subset, FS_CardinalityType
<1>2. /\ order \in [1 .. N -> S]
      /\ \A j, k \in 1 .. N : j # k => order[j] # order[k]
  BY Counted DEF Search!SetToSeqs
<1>3. IsFiniteSet(1 .. N) /\ Cardinality(1 .. N) = N
  BY <1>1, FS_Interval
<1>4. order \in Injection(1 .. N, S)
  BY <1>2 DEF Injection, IsInjective
<1> HIDE DEF N
<1>5. order \in Surjection(1 .. N, S)
  BY <1>1, <1>3, <1>4, FS_Injection DEF N
<1> QED
  BY <1>1, <1>2, <1>5 DEF Surjection

\* Rows in any order make such a list, and it says what they say.
LEMMA AsItemsIs ==
    ASSUME NEW rows, Rowset(rows), NEW order \in Search!SetToSeqs(DOMAIN rows)
    PROVE  /\ Listing(Search!AsItems(rows, order))
           /\ Says(Search!AsItems(rows, order)) = rows
<1> DEFINE items == Search!AsItems(rows, order)
<1>1. PICK n \in Nat :
              /\ order \in [1 .. n -> DOMAIN rows]
              /\ \A j, k \in 1 .. n : order[j] = order[k] => j = k
              /\ \A x \in DOMAIN rows : \E k \in 1 .. n : order[k] = x
  BY OrderIs DEF Rowset
<1>2. /\ items = [k \in 1 .. n |-> items[k]]
      /\ \A k \in 1 .. n : items[k] = [mid |-> order[k], meta |-> rows[order[k]]]
  BY <1>1 DEF Search!AsItems
<1> HIDE DEF items
<1>3. Listing(items)
  <2>1. items \in Seq(Range(items))
    BY <1>2 DEF Range
  <2> QED
    BY <1>1, <1>2, <2>1 DEF Listing
<1>4. Says(items) = rows
  <2>1. \A k \in DOMAIN items :
           items[k].mid \in DOMAIN rows /\ items[k].meta = rows[items[k].mid]
    BY <1>1, <1>2
  <2>2. \A m \in DOMAIN rows : \E k \in DOMAIN items : items[k].mid = m
    BY <1>1, <1>2
  <2> QED
    BY <1>3, <2>1, <2>2, SaysRows DEF Rowset
<1> QED
  BY <1>3, <1>4 DEF items

\* What an index says once the rows of some films are put over it.
Over(rows, old) ==
    [m \in DOMAIN rows \cup DOMAIN old |->
        IF m \in DOMAIN rows THEN rows[m] ELSE old[m]]

\* The patched list keeps the films where they were and adds the new ones.
LEMMA PatchedItemsIs ==
    ASSUME NEW idx, Whole(idx), NEW upsert, Rowset(upsert),
           NEW order \in Search!SetToSeqs(DOMAIN upsert)
    PROVE  LET items == Search!PatchedItems(idx, upsert, order)
           IN  /\ Listing(items)
               /\ Says(items) = Over(upsert, Content(idx))
               /\ \A i \in DOMAIN idx.items :
                     i \in DOMAIN items /\ items[i].mid = idx.items[i].mid
               /\ \A i \in DOMAIN items : items[i].mid \notin DOMAIN upsert =>
                     i \in DOMAIN idx.items /\ items[i] = idx.items[i]
               /\ \A i \in DOMAIN items :
                     i \notin DOMAIN idx.items => items[i].mid \notin DOMAIN idx.pos
<1> DEFINE items == Search!PatchedItems(idx, upsert, order)
           list == idx.items
           old == [i \in DOMAIN list |->
                      LET m == list[i].mid
                      IN  IF m \in DOMAIN upsert THEN [mid |-> m, meta |-> upsert[m]]
                          ELSE list[i]]
           I == {j \in DOMAIN order : order[j] \notin DOMAIN idx.pos}
           new == Search!Picked(order, I)
           added == [k \in DOMAIN new |-> [mid |-> new[k], meta |-> upsert[new[k]]]]
           L == Len(list)
<1>1. Listing(list) /\ DOMAIN idx.pos = DOMAIN Says(list) /\ Content(idx) = Says(list)
  BY SaysEach, ContentIs DEF Whole
<1>2. items = old \o added
  BY DEF Search!PatchedItems
<1>3. /\ L \in Nat /\ DOMAIN list = 1 .. L
      /\ \A i, j \in 1 .. L : list[i].mid = list[j].mid => i = j
  <2>1. list \in Seq(Range(list))
    BY <1>1 DEF Listing
  <2>2. L \in Nat /\ DOMAIN list = 1 .. L
    BY <2>1
  <2> HIDE DEF L
  <2> QED
    BY <1>1, <2>2 DEF Listing
<1> HIDE DEF list
<1>4. PICK c \in Nat :
              /\ order \in [1 .. c -> DOMAIN upsert]
              /\ \A j, k \in 1 .. c : order[j] = order[k] => j = k
              /\ \A x \in DOMAIN upsert : \E k \in 1 .. c : order[k] = x
  BY OrderIs DEF Rowset
<1>5. PICK n \in Nat : \E p \in [1 .. n -> I] : Picks(new, order, I, n, p)
  <2>1. order \in Seq(Range(order)) /\ I \in SUBSET DOMAIN order
    BY <1>4 DEF Range
  <2> HIDE DEF I
  <2> QED
    BY <2>1, PickedIs
<1>6. PICK p \in [1 .. n -> I] : Picks(new, order, I, n, p)
  BY <1>5
<1> HIDE DEF new, L
<1>7. /\ DOMAIN new = 1 .. n
      /\ \A k \in 1 .. n : /\ new[k] = order[p[k]] /\ p[k] \in 1 .. c
                           /\ new[k] \in DOMAIN upsert /\ new[k] \notin DOMAIN idx.pos
      /\ \A j, k \in 1 .. n : p[j] = p[k] => j = k
      /\ \A i \in I : \E k \in 1 .. n : p[k] = i
  BY <1>4, <1>6 DEF Picks
<1>8. \A j, k \in 1 .. n : new[j] = new[k] => j = k
  BY <1>4, <1>7
<1>9. \A m \in DOMAIN upsert : m \notin DOMAIN idx.pos => \E k \in 1 .. n : new[k] = m
  <2> SUFFICES ASSUME NEW m \in DOMAIN upsert, m \notin DOMAIN idx.pos
               PROVE  \E k \in 1 .. n : new[k] = m
    OBVIOUS
  <2>1. PICK j \in 1 .. c : order[j] = m
    BY <1>4
  <2>2. j \in I
    BY <1>4, <2>1
  <2>3. PICK k \in 1 .. n : p[k] = j
    BY <1>7, <2>2
  <2> QED
    BY <1>7, <2>1, <2>3
<1>10. L \in Nat /\ n \in Nat
  BY <1>3
<1> DEFINE All == {list[i] : i \in 1 .. L} \cup
                  {[mid |-> m, meta |-> upsert[m]] : m \in DOMAIN upsert}
<1>11. old \in Seq(All) /\ Len(old) = L
  <2>1. old \in [1 .. L -> All]
    BY <1>3
  <2> HIDE DEF old, All
  <2> QED
    BY <1>3, <2>1
<1>12. added \in Seq(All) /\ Len(added) = n
  <2>1. added \in [1 .. n -> All]
    BY <1>7
  <2> HIDE DEF added, All
  <2> QED
    BY <2>1
<1>13. /\ items \in Seq(All) /\ Len(items) = L + n /\ DOMAIN items = 1 .. L + n
       /\ \A i \in 1 .. L : items[i] = old[i]
       /\ \A k \in 1 .. n : items[L + k] = added[k]
  <2> HIDE DEF old, added, All, items, L
  <2> QED
    <3>1. old \o added \in Seq(All) /\ Len(old \o added) = L + n
      BY <1>11, <1>12
    <3>2. DOMAIN (old \o added) = 1 .. L + n
      BY <3>1
    <3>3. \A i \in 1 .. L : (old \o added)[i] = old[i]
      BY <1>11, <1>12
    <3>4. ASSUME NEW k \in 1 .. n PROVE (old \o added)[L + k] = added[k]
      <4>1. L + k \in 1 .. L + n /\ ~(L + k <= L) /\ (L + k) - L = k
        BY <1>10
      <4> QED
        BY <1>11, <1>12, <1>10, <4>1
    <3> QED
      BY <1>2, <3>1, <3>2, <3>3, <3>4
<1>14. \A i \in 1 .. L :
          /\ items[i].mid = list[i].mid
          /\ list[i].mid \in DOMAIN upsert => items[i].meta = upsert[list[i].mid]
          /\ list[i].mid \notin DOMAIN upsert => items[i] = list[i]
  <2>1. \A i \in 1 .. L :
          /\ list[i].mid \in DOMAIN upsert =>
                old[i].mid = list[i].mid /\ old[i].meta = upsert[list[i].mid]
          /\ list[i].mid \notin DOMAIN upsert => old[i] = list[i]
    BY <1>3
  <2> HIDE DEF old, items, L
  <2> QED
    BY <1>13, <2>1
<1>15. \A k \in 1 .. n :
          items[L + k].mid = new[k] /\ items[L + k].meta = upsert[new[k]]
  <2>1. \A k \in 1 .. n : added[k].mid = new[k] /\ added[k].meta = upsert[new[k]]
    BY <1>7
  <2> HIDE DEF added, items, L
  <2> QED
    BY <1>13, <2>1
<1>16. \A i \in DOMAIN items : i \in 1 .. L \/ \E k \in 1 .. n : i = L + k
  <2> SUFFICES ASSUME NEW i \in 1 .. L + n, i \notin 1 .. L
               PROVE  \E k \in 1 .. n : i = L + k
    BY <1>13
  <2>1. i - L \in 1 .. n /\ i = L + (i - L)
    BY <1>3
  <2> QED
    BY <2>1
<1> HIDE DEF items, old, added, I, L, All
<1>17. \A k \in 1 .. n : items[L + k].mid = new[k] /\ L + k \notin 1 .. L
  <2>1. \A k \in 1 .. n : L + k \notin 1 .. L
    BY <1>10
  <2> QED
    BY <1>15, <2>1
<1>18. \A i \in 1 .. L : list[i].mid \in DOMAIN idx.pos
  BY <1>1, <1>3, SaysEach
<1>19. \A i \in 1 .. L : items[i].mid \in DOMAIN idx.pos
  BY <1>14, <1>18
<1>20. ASSUME NEW i \in DOMAIN items, i \notin 1 .. L
       PROVE  items[i].mid \notin DOMAIN idx.pos /\ items[i].mid \in DOMAIN upsert
  <2>1. PICK k \in 1 .. n : i = L + k
    BY <1>16, <1>20
  <2> QED
    BY <1>7, <1>15, <2>1
<1>21. Listing(items)
  <2>1. items \in Seq(Range(items))
    <3>1. items = [i \in 1 .. L + n |-> items[i]]
      BY <1>13
    <3> QED
      BY <1>3, <3>1, SMTT(30) DEF Range
  <2>2. ASSUME NEW i \in DOMAIN items, NEW j \in DOMAIN items,
               items[i].mid = items[j].mid
        PROVE  i = j
    <3>1. CASE i \in 1 .. L /\ j \in 1 .. L
      BY <1>3, <1>14, <2>2, <3>1
    <3>2. \A x, y \in DOMAIN items :
             x \in 1 .. L /\ y \notin 1 .. L => items[x].mid # items[y].mid
      BY <1>19, <1>20
    <3>3. CASE (i \in 1 .. L) # (j \in 1 .. L)
      BY <2>2, <3>2, <3>3
    <3>4. CASE i \notin 1 .. L /\ j \notin 1 .. L
      BY <1>8, <1>16, <1>17, <2>2, <3>4
    <3> QED
      BY <3>1, <3>3, <3>4
  <2> QED
    BY <2>1, <2>2 DEF Listing
<1> DEFINE rows == Over(upsert, Content(idx))
<1>22. Says(items) = rows
  <2>1. rows = [m \in DOMAIN rows |-> rows[m]]
        /\ DOMAIN rows = DOMAIN upsert \cup DOMAIN idx.pos
    BY <1>1 DEF Over
  <2>2. \A m \in DOMAIN rows :
           rows[m] = IF m \in DOMAIN upsert THEN upsert[m] ELSE Says(list)[m]
    BY <1>1 DEF Over
  <2> HIDE DEF rows
  <2>3. ASSUME NEW i \in DOMAIN items
        PROVE  items[i].mid \in DOMAIN rows /\ items[i].meta = rows[items[i].mid]
    <3>1. CASE i \in 1 .. L
      <4>1. list[i].mid \in DOMAIN rows /\ Says(list)[list[i].mid] = list[i].meta
        BY <1>1, <1>3, <1>18, <2>1, <3>1, SaysEach
      <4> QED
        BY <1>14, <2>2, <3>1, <4>1
    <3>2. ASSUME NEW k \in 1 .. n, i = L + k
          PROVE  items[i].mid \in DOMAIN rows /\ items[i].meta = rows[items[i].mid]
      BY <1>7, <1>15, <2>1, <2>2, <3>2
    <3> QED
      BY <1>16, <3>1, <3>2
  <2>4. ASSUME NEW m \in DOMAIN rows
        PROVE  \E i \in DOMAIN items : items[i].mid = m
    <3>1. CASE m \in DOMAIN idx.pos
      <4>1. PICK i \in DOMAIN list : list[i].mid = m
        BY <1>1, <3>1, SaysEach
      <4>2. i \in 1 .. L /\ i \in 1 .. L + n
        BY <1>3
      <4> QED
        BY <1>13, <1>14, <4>1, <4>2
    <3>2. CASE m \notin DOMAIN idx.pos
      <4>1. PICK k \in 1 .. n : new[k] = m
        BY <1>9, <2>1, <3>2
      <4>2. L + k \in 1 .. L + n
        BY <1>3
      <4> QED
        BY <1>13, <1>17, <4>1, <4>2
    <3> QED
      BY <3>1, <3>2
  <2> QED
    BY <1>21, <2>1, <2>3, <2>4, SaysRows
<1>23. \A i \in DOMAIN list : i \in DOMAIN items /\ items[i].mid = list[i].mid
  <2>1. \A i \in 1 .. L : i \in 1 .. L + n
    BY <1>3
  <2> QED
    BY <1>3, <1>13, <1>14, <2>1
<1>24. \A i \in DOMAIN items : items[i].mid \notin DOMAIN upsert =>
          i \in DOMAIN list /\ items[i] = list[i]
  BY <1>3, <1>14, <1>20
<1>25. \A i \in DOMAIN items :
          i \notin DOMAIN list => items[i].mid \notin DOMAIN idx.pos
  BY <1>3, <1>20
<1> HIDE DEF rows
<1> QED
  BY <1>21, <1>22, <1>23, <1>24, <1>25 DEF items, rows, list

\* The patch of an index and of its postings.
LEMMA PatchedIs ==
    ASSUME NEW idx, Whole(idx), NEW upsert, Rowset(upsert),
           NEW order \in Search!SetToSeqs(DOMAIN upsert), NEW order2
    PROVE  /\ Whole(Search!Patched(idx, upsert, order, order2))
           /\ Content(Search!Patched(idx, upsert, order, order2)) =
                 Over(upsert, Content(idx))
<1> DEFINE items == Search!PatchedItems(idx, upsert, order)
           pos == Search!Positions(items)
           new == Search!Patched(idx, upsert, order, order2)
<1>1. /\ new.items = items /\ new.pos = pos
      /\ new.posts = [ch \in Search!Char |->
                         Search!PatchedPosts(idx, upsert, pos, ch)]
  BY DEF Search!Patched
<1>2. /\ Listing(items)
      /\ Says(items) = Over(upsert, Content(idx))
      /\ \A i \in DOMAIN idx.items :
            i \in DOMAIN items /\ items[i].mid = idx.items[i].mid
      /\ \A i \in DOMAIN items : items[i].mid \notin DOMAIN upsert =>
            i \in DOMAIN idx.items /\ items[i] = idx.items[i]
      /\ \A i \in DOMAIN items :
            i \notin DOMAIN idx.items => items[i].mid \notin DOMAIN idx.pos
  BY PatchedItemsIs
<1> HIDE DEF new
<1>3. \A i \in DOMAIN items : pos[items[i].mid] = i
  <2> HIDE DEF items
  <2> QED
    BY <1>2, SaysEach
<1>4. \A i \in DOMAIN items : items[i].mid \in DOMAIN upsert =>
         items[i].meta = upsert[items[i].mid]
  <2>1. \A i \in DOMAIN items : Says(items)[items[i].mid] = items[i].meta
    <3> HIDE DEF items
    <3> QED
      BY <1>2, SaysEach
  <2> QED
    BY <1>2, <2>1 DEF Over
<1> HIDE DEF items, pos
<1>5. ASSUME NEW i \in DOMAIN idx.items
      PROVE  /\ idx.pos[idx.items[i].mid] = i /\ idx.items[i].mid \in DOMAIN idx.pos
             /\ Search!OldMeta(idx, idx.items[i].mid) = idx.items[i].meta
  BY SaysEach DEF Whole, Search!OldMeta
<1>6. ASSUME NEW ch \in Search!Char, NEW i \in DOMAIN items,
             ch \in items[i].meta.title
      PROVE  i \in new.posts[ch]
  <2> DEFINE m == items[i].mid
  <2>1. new.posts[ch] = Search!PatchedPosts(idx, upsert, pos, ch)
    BY <1>1
  <2>2. CASE m \notin DOMAIN upsert
    <3>1. i \in DOMAIN idx.items /\ ch \in idx.items[i].meta.title
      BY <1>2, <1>6, <2>2
    <3>2. i \in idx.posts[ch]
      BY <3>1 DEF Whole, Posted
    <3> QED
      BY <2>1, <3>2 DEF Search!PatchedPosts
  <2>3. CASE m \in DOMAIN upsert
    <3>1. ch \in upsert[m].title /\ pos[m] = i
      BY <1>3, <1>4, <1>6, <2>3
    <3>2. CASE m \in DOMAIN idx.pos /\ Search!OldMeta(idx, m).title = upsert[m].title
      <4>1. i \in DOMAIN idx.items /\ idx.items[i].mid = m
        BY <1>2, <3>2
      <4>2. ch \in idx.items[i].meta.title
        BY <1>5, <3>1, <3>2, <4>1
      <4>3. i \in idx.posts[ch]
        BY <4>1, <4>2 DEF Whole, Posted
      <4> QED
        BY <2>1, <4>3 DEF Search!PatchedPosts
    <3>3. CASE m \in DOMAIN idx.pos => Search!OldMeta(idx, m).title # upsert[m].title
      <4>1. m \in Search!Known(idx, upsert) => m \in DOMAIN idx.pos
        BY DEF Search!Known
      <4> HIDE DEF m
      <4> QED
        BY <2>1, <2>3, <3>1, <3>3, <4>1 DEF Search!PatchedPosts
    <3> QED
      BY <3>2, <3>3
  <2> QED
    BY <2>2, <2>3
<1>7. Whole(new)
  BY <1>1, <1>2, <1>6 DEF Whole, Posted, pos
<1>8. Content(new) = Over(upsert, Content(idx))
  BY <1>1, <1>2, <1>7, ContentIs
<1> QED
  BY <1>7, <1>8 DEF new

\* A film outside mids stays as it was; the others are as they were read.
Replaced(new, old, mids, rows) ==
    /\ \A m \in Item \ mids :
          /\ m \in DOMAIN new <=> m \in DOMAIN old
          /\ m \in DOMAIN old => new[m] = old[m]
    /\ \A m \in Item \cap mids :
          /\ m \in DOMAIN new <=> m \in DOMAIN rows
          /\ m \in DOMAIN rows => new[m] = rows[m]

\* Whichever way the index is patched, it is whole again.
LEMMA ResultsAre ==
    ASSUME NEW idx, Whole(idx), NEW upsert, Rowset(upsert),
           NEW todo, DOMAIN upsert \subseteq todo,
           NEW new \in Search!Results(idx, todo, upsert)
    PROVE  Whole(new) /\ Replaced(Content(new), Content(idx), todo, upsert)
<1> DEFINE over == Over(upsert, Content(idx))
<1>1. /\ DOMAIN over = DOMAIN upsert \cup DOMAIN Content(idx)
      /\ \A m \in DOMAIN over :
            over[m] = IF m \in DOMAIN upsert THEN upsert[m] ELSE Content(idx)[m]
  BY DEF Over
<1> HIDE DEF over
<1>2. CASE todo = DOMAIN upsert /\ idx.items # <<>>
  <2>1. PICK o \in Search!SetToSeqs(todo), p \in Search!SetToSeqs(todo) :
           new = Search!Patched(idx, upsert, o, p)
    BY <1>2 DEF Search!Results
  <2>2. Whole(new) /\ Content(new) = over
    BY <1>2, <2>1, PatchedIs DEF over
  <2> QED
    BY <1>1, <1>2, <2>2 DEF Replaced
<1>3. CASE ~(todo = DOMAIN upsert /\ idx.items # <<>>)
  <2> DEFINE gone == todo \ DOMAIN upsert
  <2>1. PICK o \in Search!SetToSeqs(DOMAIN upsert) :
           new = Search!Resealed(idx, upsert, gone, o)
    BY <1>3, SMTT(30) DEF Search!Results
  <2> DEFINE items == Search!PatchedItems(idx, upsert, o)
  <2>2. Listing(items) /\ Says(items) = over
    BY PatchedItemsIs DEF over
  <2>3. new = Search!Sealed(Search!Without(items, gone))
    BY <2>1 DEF Search!Resealed
  <2> HIDE DEF items, gone
  <2>4. /\ Whole(new)
        /\ Content(new) = [m \in DOMAIN over \ gone |-> over[m]]
    BY <2>2, <2>3, WithoutIs, SealedIs
  <2> QED
    BY <1>1, <2>4 DEF Replaced, gone
<1> QED
  BY <1>2, <1>3

-----------------------------------------------------------------------------
(* Readings.                                                                *)

\* What is read of the tables is right; the playlists, read later, do no harm.
LEMMA RowsRight ==
    ASSUME SearchTyped, NEW some \in SUBSET Item
    PROVE  LET rows == Search!Rows(some)
           IN  /\ Rowset(rows) /\ DOMAIN rows \subseteq some
               /\ \A m \in some : Right(rows, m)
BY DEF SearchTyped, Search!Rows, Search!Listed, Rowset, Right

\* The playlists are read later than the rows and may be newer; then the film is
\* in somebody's hands, and what was right is still right of what is there.
LEMMA PlaysRight ==
    ASSUME SearchTyped, NEW rows, Rowset(rows)
    PROVE  LET new == Search!WithPlays(rows)
           IN  /\ Rowset(new) /\ DOMAIN new = DOMAIN rows
               /\ \A m \in Item : Right(rows, m) => Right(new, m)
<1> DEFINE new == Search!WithPlays(rows)
<1>1. /\ new = [m \in DOMAIN rows |-> new[m]]
      /\ \A m \in DOMAIN rows : new[m] =
            [rows[m] EXCEPT !.plays = IF m \in Search!Listed THEN tables[m].plays
                                      ELSE {}]
  BY DEF Search!WithPlays
<1> HIDE DEF new
<1>2. Rowset(new) /\ DOMAIN new = DOMAIN rows
  BY <1>1 DEF Rowset
<1>3. ASSUME NEW m \in Item, Right(rows, m) PROVE Right(new, m)
  <2>1. CASE tables[m] \notin Meta
    BY <1>2, <1>3, <2>1 DEF Right
  <2>2. CASE tables[m] \in Meta
    <3>1. m \in DOMAIN rows /\ rows[m] = tables[m] /\ m \in Search!Listed
      BY <1>3, <2>2 DEF Right, Search!Listed
    <3>2. new[m] = [tables[m] EXCEPT !.plays = tables[m].plays]
      BY <1>1, <3>1
    <3>3. \A x \in Meta : [x EXCEPT !.plays = x.plays] = x
      <4> SUFFICES ASSUME NEW x \in Meta PROVE [x EXCEPT !.plays = x.plays] = x
        OBVIOUS
      <4>1. x = [src |-> x.src, plays |-> x.plays, cat |-> x.cat,
                 root |-> x.root, title |-> x.title, stamp |-> x.stamp]
        BY SearchAssumption
      <4> QED
        BY <4>1
    <3> QED
      BY <1>2, <2>2, <3>1, <3>2, <3>3 DEF Right
  <2> QED
    BY <2>1, <2>2
<1> QED
  BY <1>2, <1>3 DEF new

\* A search goes by what is in the index.
LEMMA WholeSearches ==
    ASSUME NEW idx, Whole(idx)
    PROVE  Search!SearchRight(idx)
<1>1. /\ \A i \in DOMAIN idx.items :
            idx.items[i].mid \in DOMAIN idx.pos /\ idx.pos[idx.items[i].mid] = i
      /\ \A m \in DOMAIN idx.pos :
            idx.pos[m] \in DOMAIN idx.items /\ idx.items[idx.pos[m]].mid = m
  BY SaysEach DEF Whole
<1>2. ASSUME NEW q \in SUBSET Search!Char
      PROVE  Search!Found(idx, q) =
                {m \in DOMAIN idx.pos : q \subseteq idx.items[idx.pos[m]].meta.title}
  <2>1. \A i \in DOMAIN idx.items, ch \in Search!Char :
           ch \in idx.items[i].meta.title => i \in idx.posts[ch]
    BY DEF Whole, Posted
  <2>2. \A i \in DOMAIN idx.items : q \subseteq idx.items[i].meta.title =>
           \A ch \in q : i \in idx.posts[ch]
    BY <2>1
  <2> QED
    BY <1>1, <2>2 DEF Search!Found
<1> QED
  BY <1>2 DEF Search!SearchRight

\* The empty call and the empty reseal have nothing at hand.
LEMMA SearchEnough == ASSUME SearchInv PROVE IndexFresh
<1> SUFFICES ASSUME index # NoIndex
             PROVE  /\ Search!SearchRight(index)
                    /\ \A m \in Item \ (Search!Pending \cup lost) :
                          IF m \in Search!Listed
                          THEN /\ m \in DOMAIN index.pos
                               /\ index.items[index.pos[m]].meta = tables[m]
                          ELSE m \notin DOMAIN index.pos
  BY DEF IndexFresh, Search!IndexFresh
<1>1. Whole(index)
  BY DEF SearchInv, IndexRight
<1>2. ASSUME NEW m \in Item, m \notin Search!Pending \cup lost
      PROVE  Right(Content(index), m)
  <2>1. m \notin changed \cup Sealing \cup lost
    BY <1>2 DEF Search!Pending, Sealing
  <2>2. ASSUME NEW d \in Caller, m \in AtHand(d) PROVE FALSE
    <3>1. call[d] # Search!Idle /\ m \in call[d].mids
      BY <2>2 DEF AtHand
    <3> QED
      BY <1>2, <3>1 DEF Search!Pending
  <2> QED
    BY <2>1, <2>2 DEF SearchInv, IndexRight
<1> QED
  BY <1>1, <1>2, WholeSearches DEF Right, Content, Search!Listed

-----------------------------------------------------------------------------
(* The films in the order of their updates.                                *)

\* A sequence without some of its elements has the others, in the same order.
LEMMA OutsideIs ==
    ASSUME NEW A, NEW s, Once(s, A), NEW S
    PROVE  /\ Once(Search!Outside(s, S), A \ S)
           /\ Len(Search!Outside(s, S)) <= Len(s)
           /\ \A R : InTurn(s, R) => InTurn(Search!Outside(s, S), R)
<1> DEFINE I == {n \in DOMAIN s : s[n] \notin S}
           t == Search!Outside(s, S)
<1>1. s \in Seq(Range(s)) /\ Len(s) \in Nat /\ DOMAIN s = 1 .. Len(s)
  BY DEF Once, Range
<1>2. PICK n \in Nat : \E p \in [1 .. n -> I] : Picks(t, s, I, n, p)
  <2>1. t = Search!Picked(s, I) /\ I \in SUBSET DOMAIN s
    BY DEF Search!Outside
  <2> HIDE DEF t, I
  <2> QED
    BY <1>1, <2>1, PickedIs
<1>3. PICK p \in [1 .. n -> I] : Picks(t, s, I, n, p)
  BY <1>2
<1> HIDE DEF t
<1>4. /\ t = [k \in 1 .. n |-> s[p[k]]]
      /\ \A j, k \in 1 .. n : p[j] = p[k] => j = k
      /\ \A j, k \in 1 .. n : j < k => p[j] < p[k]
      /\ \A i \in I : \E k \in 1 .. n : p[k] = i
  BY <1>3 DEF Picks
<1>5. /\ DOMAIN t = 1 .. n /\ t = [k \in 1 .. n |-> t[k]]
      /\ \A k \in 1 .. n : p[k] \in I /\ t[k] = s[p[k]]
  BY <1>4
<1>6. \A i \in DOMAIN s : s[i] \in A
  BY <1>1 DEF Once
<1>7. \A k \in 1 .. n : t[k] \in A \ S
  BY <1>5, <1>6
<1>8. t \in Seq(A \ S) /\ Len(t) = n
  BY <1>5, <1>7
<1>9. \A a, b \in DOMAIN t : t[a] = t[b] => a = b
  BY <1>4, <1>5 DEF Once
<1>10. ASSUME NEW x \in A \ S PROVE \E a \in DOMAIN t : t[a] = x
  <2>1. PICK i \in DOMAIN s : s[i] = x
    BY DEF Once
  <2>2. i \in I
    BY <2>1
  <2> QED
    BY <1>4, <1>5, <2>1, <2>2
<1>11. n <= Len(s)
  <2>1. p \in Injection(1 .. n, 1 .. Len(s))
    BY <1>1, <1>4 DEF Injection, IsInjective
  <2>2. \A L \in Nat : IsFiniteSet(1 .. L) /\ Cardinality(1 .. L) = L
    BY FS_Interval
  <2> QED
    BY <1>1, <2>1, <2>2, FS_Injection
<1>12. ASSUME NEW R, InTurn(s, R) PROVE InTurn(t, R)
  BY <1>4, <1>5, <1>12 DEF InTurn
<1>13. Once(t, A \ S)
  BY <1>8, <1>9, <1>10 DEF Once
<1> QED
  BY <1>8, <1>11, <1>12, <1>13 DEF t

\* A list whose films can be compared, and the order of its positions.
Comparable(items) ==
    \A i \in DOMAIN items : items[i].mid \in Int /\ items[i].meta.stamp \in Int
ByRank(items, S) == {w \in S \X S : Search!Better(items[w[1]], items[w[2]])}

\* The later update comes first, and of two the greater number.
LEMMA RankOrders ==
    ASSUME NEW items, Listing(items), Comparable(items), NEW S \in SUBSET DOMAIN items
    PROVE  /\ IsFiniteSet(S) /\ Orders(ByRank(items, S), S)
           /\ \A i, j \in S : <<i, j>> \in ByRank(items, S)
                                 <=> Search!Better(items[i], items[j])
<1>1. IsFiniteSet(S)
  <2>1. IsFiniteSet(1 .. Len(items)) /\ DOMAIN items = 1 .. Len(items)
    BY FS_Interval DEF Listing
  <2> QED
    BY <2>1, FS_Subset
<1>2. \A i, j \in S : <<i, j>> \in ByRank(items, S)
                         <=> Search!Better(items[i], items[j])
  BY DEF ByRank
<1>3. \A i, j \in S : i # j => items[i].mid # items[j].mid
  BY DEF Listing
<1>4. \A i \in S : items[i].mid \in Int /\ items[i].meta.stamp \in Int
  BY DEF Comparable
<1>5. Orders(ByRank(items, S), S)
  BY <1>2, <1>3, <1>4 DEF Orders, Search!Better
<1> QED
  BY <1>1, <1>2, <1>5

LEMMA SortedIs ==
    ASSUME NEW items, Listing(items), Comparable(items), NEW S \in SUBSET DOMAIN items
    PROVE  /\ Search!SortedByRank(items, S) = Along(S, ByRank(items, S))
           /\ Once(Search!SortedByRank(items, S), S)
           /\ InTurn(Search!SortedByRank(items, S), ByRank(items, S))
<1> DEFINE R == ByRank(items, S)
           Below(i) == {j \in S : j = i \/ Search!Better(items[j], items[i])}
           At(k) == CHOOSE i \in S : Search!Cardinality(Below(i)) = k
           Place(k) == CHOOSE i \in S : Cardinality(UpTo(i, S, R)) = k
           t == Search!SortedByRank(items, S)
<1>1. /\ IsFiniteSet(S) /\ Orders(R, S)
      /\ \A i, j \in S : <<i, j>> \in R <=> Search!Better(items[i], items[j])
  BY RankOrders
<1>2. t = [k \in 1 .. Search!Cardinality(S) |-> At(k)]
  BY DEF Search!SortedByRank, Search!InOrder
<1> HIDE DEF R, t
<1>3. \A i \in S : Search!Cardinality(Below(i)) = Cardinality(UpTo(i, S, R))
  <2>1. \A i \in S : Below(i) = UpTo(i, S, R)
    BY <1>1 DEF UpTo
  <2> QED
    BY <2>1, Counted
<1> HIDE DEF Below
<1>4. \A k : At(k) = Place(k)
  <2> SUFFICES ASSUME NEW k PROVE At(k) = Place(k)
    OBVIOUS
  <2> QED
    BY <1>3
<1>5. Along(S, R) = [k \in 1 .. Cardinality(S) |-> Place(k)]
  BY DEF Along
<1> HIDE DEF At, Place
<1>6. t = Along(S, R)
  BY <1>2, <1>4, <1>5, Counted
<1>7. Once(t, S) /\ InTurn(t, R)
  BY <1>1, <1>6, AlongIs
<1> QED
  BY <1>6, <1>7 DEF t, R

\* In a sequence in order, what follows what is the order.
Follows(s, x, y) == \E i, j \in DOMAIN s : i < j /\ s[i] = x /\ s[j] = y

LEMMA ToSetIs ==
    ASSUME NEW s, NEW S, Once(s, S)
    PROVE  Search!ToSet(s) = S
<1>1. Len(s) \in Nat /\ DOMAIN s = 1 .. Len(s) /\ \A i \in DOMAIN s : s[i] \in S
  BY DEF Once
<1>2. \A x \in S : \E i \in DOMAIN s : s[i] = x
  BY DEF Once
<1> QED
  BY <1>1, <1>2 DEF Search!ToSet

LEMMA FollowsIs ==
    ASSUME NEW S, NEW R, Orders(R, S), NEW s, Once(s, S), InTurn(s, R), NEW x, NEW y
    PROVE  Follows(s, x, y) <=> x \in S /\ y \in S /\ <<x, y>> \in R
<1>1. Len(s) \in Nat /\ DOMAIN s = 1 .. Len(s) /\ \A i \in DOMAIN s : s[i] \in S
  BY DEF Once
<1>2. Follows(s, x, y) => x \in S /\ y \in S /\ <<x, y>> \in R
  BY <1>1 DEF Follows, InTurn
<1>3. ASSUME x \in S, y \in S, <<x, y>> \in R PROVE Follows(s, x, y)
  <2>1. PICK i \in DOMAIN s, j \in DOMAIN s : s[i] = x /\ s[j] = y
    BY <1>3 DEF Once
  <2>2. x # y /\ <<y, x>> \notin R
    BY <1>3 DEF Orders
  <2>3. i # j /\ ~(j < i)
    BY <2>1, <2>2 DEF InTurn
  <2> QED
    BY <1>1, <2>1, <2>3 DEF Follows
<1> QED
  BY <1>2, <1>3

\* The merge of patchByUpdate is the order of a list that is sorted anew.
LEMMA ByUpdateIs ==
    ASSUME NEW items, Listing(items), Comparable(items),
           NEW idx, NEW upsert, NEW pos,
           NEW moved, moved = {pos[m] : m \in DOMAIN upsert},
           moved \subseteq DOMAIN items, DOMAIN idx.items \subseteq DOMAIN items,
           Once(idx.byUpdate, DOMAIN idx.items),
           InTurn(idx.byUpdate, ByRank(idx.items, DOMAIN idx.items)),
           \A i \in DOMAIN idx.items : i \notin moved => items[i] = idx.items[i],
           \A i \in DOMAIN items : i \notin DOMAIN idx.items => i \in moved
    PROVE  Search!PatchedByUpdate(idx, upsert, items, pos) = Search!ByUpdate(items)
<1> DEFINE All == DOMAIN items
           stay == DOMAIN idx.items \ moved
           come == Search!SortedByRank(items, moved)
           rest == Search!Outside(idx.byUpdate, moved)
           R == ByRank(items, All)
           Before(x, y) ==
               \/ Follows(come, x, y) \/ Follows(rest, x, y)
               \/ /\ x \in Search!ToSet(come) /\ y \in Search!ToSet(rest)
                  /\ Search!Better(items[x], items[y])
               \/ /\ x \in Search!ToSet(rest) /\ y \in Search!ToSet(come)
                  /\ ~Search!Better(items[y], items[x])
           both == Search!ToSet(come) \cup Search!ToSet(rest)
           At(k) == CHOOSE i \in both :
                       Search!Cardinality({j \in both : j = i \/ Before(j, i)}) = k
           Place(k) == CHOOSE i \in All : Cardinality(UpTo(i, All, R)) = k
           t == Search!PatchedByUpdate(idx, upsert, items, pos)
<1>1. t = [k \in 1 .. Search!Cardinality(both) |-> At(k)]
  BY DEF Search!PatchedByUpdate, Search!Merged, Search!InOrder, Follows
<1>2. Once(come, moved) /\ InTurn(come, ByRank(items, moved))
  BY SortedIs
<1>3. Once(rest, stay) /\ InTurn(rest, ByRank(idx.items, DOMAIN idx.items))
  BY OutsideIs
<1> HIDE DEF come, rest, t
<1>4. Search!ToSet(come) = moved /\ Search!ToSet(rest) = stay
  <2> HIDE DEF stay
  <2> QED
    BY <1>2, <1>3, ToSetIs
<1>5. moved \subseteq All /\ stay \subseteq All /\ both = All /\ moved \cap stay = {}
  BY <1>4
<1>6. InTurn(rest, ByRank(items, stay))
  <2>1. \A a \in DOMAIN rest : rest[a] \in stay
    BY <1>3 DEF Once
  <2>2. \A i, j \in stay :
           <<i, j>> \in ByRank(idx.items, DOMAIN idx.items) =>
              <<i, j>> \in ByRank(items, stay)
    BY DEF ByRank
  <2> HIDE DEF stay
  <2> QED
    BY <1>3, <2>1, <2>2 DEF InTurn
<1>7. /\ Orders(R, All) /\ Orders(ByRank(items, moved), moved)
      /\ Orders(ByRank(items, stay), stay)
      /\ \A i, j \in All : <<i, j>> \in R <=> Search!Better(items[i], items[j])
      /\ \A i, j \in moved :
            <<i, j>> \in ByRank(items, moved) <=> Search!Better(items[i], items[j])
      /\ \A i, j \in stay :
            <<i, j>> \in ByRank(items, stay) <=> Search!Better(items[i], items[j])
  BY <1>5, RankOrders
<1> HIDE DEF stay, R
<1>8. \A x, y : Follows(come, x, y) <=>
                   x \in moved /\ y \in moved /\ Search!Better(items[x], items[y])
  BY <1>2, <1>7, FollowsIs
<1>9. \A x, y : Follows(rest, x, y) <=>
                   x \in stay /\ y \in stay /\ Search!Better(items[x], items[y])
  <2> DEFINE Q == ByRank(items, stay)
  <2>1. Once(rest, stay) /\ InTurn(rest, Q) /\ Orders(Q, stay)
    BY <1>3, <1>6, <1>7
  <2> HIDE DEF Q
  <2>2. \A x, y : Follows(rest, x, y) <=> x \in stay /\ y \in stay /\ <<x, y>> \in Q
    BY <2>1, FollowsIs
  <2> QED
    BY <1>7, <2>2 DEF Q
<1>10. \A x, y \in All : x # y => (Before(x, y) <=> <<x, y>> \in R)
  <2>1. \A x \in All : x \in moved \/ x \in stay
    BY <1>4, <1>5
  <2>2. \A x, y \in All : x # y =>
           (Search!Better(items[x], items[y]) <=> ~Search!Better(items[y], items[x]))
    BY <1>7 DEF Orders
  <2> QED
    BY <1>4, <1>5, <1>7, <1>8, <1>9, <2>1, <2>2
<1> HIDE DEF Before
<1>11. \A i \in both : Search!Cardinality({j \in both : j = i \/ Before(j, i)})
                         = Cardinality(UpTo(i, All, R))
  <2>1. \A i \in both : {j \in both : j = i \/ Before(j, i)} = UpTo(i, All, R)
    BY <1>5, <1>10 DEF UpTo
  <2> QED
    BY <2>1, Counted
<1>12. \A k : At(k) = Place(k)
  <2> SUFFICES ASSUME NEW k PROVE At(k) = Place(k)
    OBVIOUS
  <2> QED
    BY <1>5, <1>11
<1>13. Along(All, R) = [k \in 1 .. Cardinality(All) |-> Place(k)]
  BY DEF Along
<1>14. Search!ByUpdate(items) = Along(All, R)
  BY SortedIs DEF Search!ByUpdate, R
<1> HIDE DEF At, Place, both, All
<1>15. t = Along(All, R)
  BY <1>1, <1>5, <1>12, <1>13, Counted
<1> QED
  BY <1>14, <1>15 DEF t

-----------------------------------------------------------------------------
(* The lists of the categories.                                             *)

\* A set is written down with all its elements, each once.
LEMMA WrittenIs ==
    ASSUME NEW S, IsFiniteSet(S)
    PROVE  Once(Search!SetToSeq(S), S)
<1> DEFINE N == Cardinality(S)
           order == Search!SetToSeq(S)
<1>1. N \in Nat /\ Search!Cardinality(S) = N
  BY FS_CardinalityType, Counted
<1>2. PICK f \in Bijection(1 .. N, S) : TRUE
  BY FS_CardinalityType DEF ExistsBijection
<1>3. IsFiniteSet(1 .. N) /\ Cardinality(1 .. N) = N
  BY <1>1, FS_Interval
<1> HIDE DEF N
<1>4. f \in [1 .. N -> S] /\ Search!IsInjective(f)
  BY <1>2 DEF Bijection, Injection, IsInjective, Search!IsInjective
<1>5. order = CHOOSE g \in [1 .. N -> S] : Search!IsInjective(g)
  BY <1>1 DEF Search!SetToSeq
<1> HIDE DEF order
<1>6. order \in [1 .. N -> S] /\ Search!IsInjective(order)
  BY <1>4, <1>5
<1>7. \A a, b \in 1 .. N : order[a] = order[b] => a = b
  BY <1>6 DEF Search!IsInjective
<1>8. order \in Surjection(1 .. N, S)
  <2>1. order \in Injection(1 .. N, S)
    BY <1>6, <1>7 DEF Injection, IsInjective
  <2> QED
    BY <1>3, <2>1, FS_Injection DEF N
<1>9. \A x \in S : \E a \in 1 .. N : order[a] = x
  BY <1>8 DEF Surjection
<1> QED
  BY <1>1, <1>6, <1>7, <1>9 DEF Once, order

\* Two lists of different elements, one after the other.
LEMMA BothOnce ==
    ASSUME NEW A, NEW B, A \cap B = {}, NEW s, NEW t, Once(s, A), Once(t, B)
    PROVE  Once(s \o t, A \cup B)
<1>1. /\ s \in Seq(A \cup B) /\ t \in Seq(A \cup B)
      /\ Len(s) \in Nat /\ Len(t) \in Nat
      /\ DOMAIN s = 1 .. Len(s) /\ DOMAIN t = 1 .. Len(t)
      /\ \A a \in DOMAIN s : s[a] \in A
      /\ \A a \in DOMAIN t : t[a] \in B
  BY DEF Once
<1>16. /\ \A a, b \in 1 .. Len(s) : s[a] = s[b] => a = b
      /\ \A a, b \in 1 .. Len(t) : t[a] = t[b] => a = b
      /\ \A x \in A, y \in B : x # y
  BY <1>1 DEF Once
<1> DEFINE u == s \o t
<1>2. /\ u \in Seq(A \cup B) /\ DOMAIN u = 1 .. Len(s) + Len(t)
      /\ \A a \in 1 .. Len(s) : u[a] = s[a]
      /\ \A a \in 1 .. Len(s) + Len(t) : a > Len(s) =>
            u[a] = t[a - Len(s)] /\ a - Len(s) \in 1 .. Len(t)
      /\ \A a \in 1 .. Len(t) :
            u[Len(s) + a] = t[a] /\ Len(s) + a \in 1 .. Len(s) + Len(t)
  BY <1>1
<1> HIDE DEF u
<1>3. \A a, b \in DOMAIN u : u[a] = u[b] => a = b
  <2> SUFFICES ASSUME NEW a \in DOMAIN u, NEW b \in DOMAIN u, u[a] = u[b] PROVE a = b
    OBVIOUS
  <2>1. CASE a <= Len(s) /\ b <= Len(s)
    BY <1>16, <1>1, <1>2, <2>1
  <2>2. CASE a > Len(s) /\ b > Len(s)
    <3>1. /\ a - Len(s) \in 1 .. Len(t) /\ b - Len(s) \in 1 .. Len(t)
          /\ t[a - Len(s)] = t[b - Len(s)]
      BY <1>2, <2>2
    <3>2. a - Len(s) = b - Len(s)
      BY <1>16, <3>1
    <3> QED
      BY <1>1, <1>2, <3>2
  <2>3. CASE a <= Len(s) /\ b > Len(s)
    <3>1. u[a] \in A /\ u[b] \in B
      BY <1>1, <1>2, <2>3
    <3> QED
      BY <1>16, <3>1
  <2>4. CASE a > Len(s) /\ b <= Len(s)
    <3>1. b \in 1 .. Len(s) /\ a - Len(s) \in 1 .. Len(t) /\ u[a] = t[a - Len(s)]
      BY <1>1, <1>2, <2>4
    <3>2. u[a] \in B /\ u[b] \in A
      BY <1>1, <1>2, <3>1
    <3> QED
      BY <1>16, <3>2
  <2> QED
    BY <1>1, <1>2, <2>1, <2>2, <2>3, <2>4
<1>4. \A x \in A : \E a \in DOMAIN u : u[a] = x
  <2>1. \A a \in DOMAIN s : a \in DOMAIN u /\ u[a] = s[a]
    BY <1>1, <1>2
  <2> QED
    BY <2>1 DEF Once
<1>5. \A x \in B : \E a \in DOMAIN u : u[a] = x
  <2>1. \A a \in DOMAIN t : Len(s) + a \in DOMAIN u /\ u[Len(s) + a] = t[a]
    BY <1>1, <1>2
  <2> QED
    BY <2>1 DEF Once
<1> QED
  BY <1>2, <1>3, <1>4, <1>5 DEF Once, u

\* What a patch does to the list and the positions of an index.
Patching(idx, upsert, items, pos) ==
    /\ Listing(idx.items) /\ Listing(items) /\ Comparable(items)
    /\ DOMAIN upsert \subseteq DOMAIN pos /\ DOMAIN idx.pos \subseteq DOMAIN pos
    /\ \A i \in DOMAIN idx.items :
          idx.items[i].mid \in DOMAIN idx.pos /\ idx.pos[idx.items[i].mid] = i
    /\ \A m \in DOMAIN idx.pos :
          /\ idx.pos[m] \in DOMAIN idx.items /\ idx.items[idx.pos[m]].mid = m
          /\ pos[m] = idx.pos[m]
    /\ \A i \in DOMAIN items : items[i].mid \in DOMAIN pos /\ pos[items[i].mid] = i
    /\ \A m \in DOMAIN pos : pos[m] \in DOMAIN items /\ items[pos[m]].mid = m
    /\ \A m \in DOMAIN upsert : items[pos[m]].meta = upsert[m]
    /\ \A m \in DOMAIN pos \ DOMAIN upsert :
          m \in DOMAIN idx.pos /\ items[pos[m]] = idx.items[idx.pos[m]]

\* The films whose rows, before a patch and behind it, are among Here.
Among(items, Here) == {i \in DOMAIN items : items[i].meta \in Here}
Leaving(idx, upsert, Here) ==
    {m \in Search!Known(idx, upsert) :
        Search!OldMeta(idx, m) \in Here /\ upsert[m] \notin Here}
Coming(idx, upsert, Here) ==
    {m \in DOMAIN upsert : upsert[m] \in Here
        /\ (m \in Search!Known(idx, upsert) => Search!OldMeta(idx, m) \notin Here)}

Spots(pos, M) == {pos[m] : m \in M}

\* What becomes of the films of one kind: some leave, some come.
LEMMA MovesAre ==
    ASSUME NEW idx, NEW upsert, NEW items, NEW pos, Patching(idx, upsert, items, pos),
           NEW Here,
           NEW left, left = Spots(pos, Leaving(idx, upsert, Here)),
           NEW come, come = Spots(pos, Coming(idx, upsert, Here))
    PROVE  /\ Among(items, Here) = (Among(idx.items, Here) \ left) \cup come
           /\ (Among(idx.items, Here) \ left) \cap come = {}
           /\ left \subseteq Among(idx.items, Here) /\ come \subseteq DOMAIN items
<1> DEFINE gone == Leaving(idx, upsert, Here)
           new == Coming(idx, upsert, Here)
           old == Among(idx.items, Here)
<1>1. \A m \in gone : m \in DOMAIN upsert /\ m \in DOMAIN idx.pos
                        /\ idx.items[idx.pos[m]].meta \in Here /\ upsert[m] \notin Here
  BY DEF Leaving, Search!Known, Search!OldMeta
<1>2. \A m \in DOMAIN upsert : m \in new <=>
         /\ upsert[m] \in Here
         /\ m \in DOMAIN idx.pos => idx.items[idx.pos[m]].meta \notin Here
  BY DEF Coming, Search!Known, Search!OldMeta
<1>3. \A m \in DOMAIN upsert : m \in DOMAIN idx.pos
         /\ idx.items[idx.pos[m]].meta \in Here /\ upsert[m] \notin Here => m \in gone
  BY DEF Leaving, Search!Known, Search!OldMeta
<1>4. new \subseteq DOMAIN upsert
  BY DEF Coming
<1> HIDE DEF gone, new
<1>5. \A i \in DOMAIN items : i \in left <=> items[i].mid \in gone
  BY <1>1 DEF Patching, Spots, gone
<1>6. \A i \in DOMAIN items : i \in come <=> items[i].mid \in new
  BY <1>4 DEF Patching, Spots, new
<1>7. come \subseteq DOMAIN items
  BY <1>4 DEF Patching, Spots, new
<1>8. old \subseteq DOMAIN items /\ \A i \in old : i \in DOMAIN idx.items
        /\ items[i].mid = idx.items[i].mid
  BY DEF Patching, Among
<1>9. \A i \in DOMAIN idx.items : i \in old <=> idx.items[i].meta \in Here
  BY DEF Among
<1>10. \A i \in DOMAIN items :
          i \in DOMAIN idx.items <=> items[i].mid \in DOMAIN idx.pos
  BY DEF Patching
<1>11. left \subseteq old
  <2> SUFFICES ASSUME NEW m \in gone PROVE pos[m] \in old
    BY DEF Spots, gone
  <2> QED
    BY <1>1, <1>9 DEF Patching
<1> HIDE DEF old
<1>12. ASSUME NEW i \in DOMAIN items
       PROVE  /\ items[i].meta \in Here <=> i \in (old \ left) \cup come
              /\ ~(i \in old \ left /\ i \in come)
  <2> DEFINE m == items[i].mid
  <2>1. m \in DOMAIN pos /\ pos[m] = i
    BY DEF Patching
  <2>2. m \in DOMAIN idx.pos => /\ idx.pos[m] = i /\ i \in DOMAIN idx.items
                                /\ i \in old <=> idx.items[idx.pos[m]].meta \in Here
    BY <1>9, <2>1 DEF Patching
  <2>3. m \notin DOMAIN idx.pos => i \notin old
    BY <1>8, <1>10
  <2>4. CASE m \in DOMAIN upsert
    <3>1. items[i].meta = upsert[m]
      BY <2>1, <2>4 DEF Patching
    <3> HIDE DEF m
    <3> QED
      BY <1>1, <1>2, <1>3, <1>5, <1>6, <2>2, <2>3, <2>4, <3>1 DEF m
  <2>5. CASE m \notin DOMAIN upsert
    <3>1. m \in DOMAIN idx.pos /\ items[i] = idx.items[idx.pos[m]]
      BY <2>1, <2>5 DEF Patching
    <3>2. i \notin left /\ i \notin come
      BY <1>1, <1>4, <1>5, <1>6, <2>5
    <3> QED
      BY <2>2, <3>1, <3>2
  <2> QED
    BY <2>4, <2>5
<1>13. /\ Among(items, Here) = (old \ left) \cup come
       /\ (old \ left) \cap come = {}
  BY <1>7, <1>8, <1>12 DEF Among
<1> QED
  BY <1>7, <1>11, <1>13 DEF old

\* The rows that a patch is about.
AllMetas(idx, upsert, items) ==
    {idx.items[i].meta : i \in DOMAIN idx.items} \cup
        {items[i].meta : i \in DOMAIN items} \cup {upsert[m] : m \in DOMAIN upsert}

\* A film leaves one category's list and comes to another's, or stays.
InCat(items, c) == {i \in DOMAIN items : items[i].meta.cat = c}

LEMMA CategoryIs ==
    ASSUME NEW idx, NEW upsert, NEW items, NEW pos, Patching(idx, upsert, items, pos),
           NEW c, Once(idx.byCategory[c], InCat(idx.items, c))
    PROVE  Once(Search!PatchedCategory(idx, upsert, pos, c), InCat(items, c))
<1> DEFINE Here == {x \in AllMetas(idx, upsert, items) : x.cat = c}
           gone == {m \in Search!Known(idx, upsert) :
                      Search!OldMeta(idx, m).cat = c /\ upsert[m].cat # c}
           new == {m \in DOMAIN upsert : upsert[m].cat = c
                     /\ (m \in Search!Known(idx, upsert) =>
                            Search!OldMeta(idx, m).cat # c)}
           left == {pos[m] : m \in gone}
           come == {pos[m] : m \in new}
           old == InCat(idx.items, c)
<1>1. Search!PatchedCategory(idx, upsert, pos, c) =
         Search!Outside(idx.byCategory[c], left) \o Search!SetToSeq(come)
  BY DEF Search!PatchedCategory, Search!Leave, Search!Join
<1>2. /\ \A i \in DOMAIN idx.items :
            idx.items[i].meta \in Here <=> idx.items[i].meta.cat = c
      /\ \A i \in DOMAIN items : items[i].meta \in Here <=> items[i].meta.cat = c
      /\ \A m \in DOMAIN upsert : upsert[m] \in Here <=> upsert[m].cat = c
  BY DEF AllMetas
<1>3. \A m \in Search!Known(idx, upsert) : m \in DOMAIN upsert
         /\ (Search!OldMeta(idx, m) \in Here <=> Search!OldMeta(idx, m).cat = c)
  BY <1>2 DEF Search!Known, Search!OldMeta, Patching
<1> HIDE DEF Here
<1>4. /\ gone = Leaving(idx, upsert, Here) /\ new = Coming(idx, upsert, Here)
      /\ old = Among(idx.items, Here) /\ InCat(items, c) = Among(items, Here)
  BY <1>2, <1>3 DEF Leaving, Coming, Among, InCat
<1> HIDE DEF gone, new, old
<1>5. /\ InCat(items, c) = (old \ left) \cup come /\ (old \ left) \cap come = {}
      /\ come \subseteq DOMAIN items
  <2>1. /\ left = Spots(pos, Leaving(idx, upsert, Here))
        /\ come = Spots(pos, Coming(idx, upsert, Here))
    BY <1>4 DEF Spots
  <2> HIDE DEF left, come
  <2> QED
    BY <1>4, <2>1, MovesAre
<1>6. IsFiniteSet(come)
  <2>1. IsFiniteSet(DOMAIN items)
    BY FS_Interval DEF Patching, Listing
  <2> QED
    BY <1>5, <2>1, FS_Subset
<1> HIDE DEF left, come
<1>7. Once(Search!Outside(idx.byCategory[c], left), old \ left)
  BY OutsideIs DEF old
<1>8. Once(Search!SetToSeq(come), come)
  BY <1>6, WrittenIs
<1> QED
  BY <1>1, <1>5, <1>7, <1>8, BothOnce

-----------------------------------------------------------------------------
(* The pools.                                                               *)

\* A list of films of B, none of them twice, and not too long.
Fits(s, B) ==
    s \in Seq(B) /\ Len(s) <= Cap /\ \A a, b \in DOMAIN s : s[a] = s[b] => a = b

\* What is taken of a list that is too long fits.
LEMMA TakeFits ==
    ASSUME NEW B, NEW s \in Seq(B), \A a, b \in DOMAIN s : s[a] = s[b] => a = b
    PROVE  Fits(Search!Take(s), B)
<1> DEFINE n == IF Len(s) < Cap THEN Len(s) ELSE Cap
           t == Search!Take(s)
<1>1. n \in Nat /\ n <= Len(s) /\ n <= Cap /\ Len(s) \in Nat
  BY SearchAssumption
<1>2. t = SubSeq(s, 1, n)
  BY DEF Search!Take
<1> HIDE DEF n, t
<1>3. t \in Seq(B) /\ Len(t) = n /\ \A a \in 1 .. n : t[a] = s[a]
  BY <1>1, <1>2
<1>4. DOMAIN t = 1 .. n /\ 1 .. n \subseteq DOMAIN s
  BY <1>1, <1>3
<1>5. \A a, b \in DOMAIN t : t[a] = t[b] => a = b
  BY <1>3, <1>4
<1> QED
  BY <1>1, <1>3, <1>5 DEF Fits, t

\* What is put into a list at any place stands there once.
LEMMA InsertOnce ==
    ASSUME NEW B, NEW s \in Seq(B), \A a, b \in DOMAIN s : s[a] = s[b] => a = b,
           NEW x \in B, \A a \in DOMAIN s : s[a] # x, NEW n \in 1 .. Len(s) + 1
    PROVE  /\ Search!InsertAt(s, n, x) \in Seq(B)
           /\ \A a, b \in DOMAIN Search!InsertAt(s, n, x) :
                 Search!InsertAt(s, n, x)[a] = Search!InsertAt(s, n, x)[b] => a = b
<1> DEFINE L == Len(s)
           u == Search!InsertAt(s, n, x)
           before == SubSeq(s, 1, n - 1)
           behind == SubSeq(s, n, Len(s))
<1>1. L \in Nat /\ DOMAIN s = 1 .. L /\ \A a \in 1 .. L : s[a] \in B
  OBVIOUS
<1>2. /\ before \in Seq(B) /\ Len(before) = n - 1
      /\ \A a \in 1 .. n - 1 : before[a] = s[a]
  BY <1>1
<1>3. /\ behind \in Seq(B) /\ Len(behind) = L - n + 1
      /\ \A a \in 1 .. L - n + 1 : behind[a] = s[a + n - 1]
  BY <1>1
<1>4. u = before \o <<x>> \o behind
  BY DEF Search!InsertAt
<1> HIDE DEF L, u, before, behind
<1>5. /\ u \in Seq(B) /\ Len(u) = L + 1 /\ DOMAIN u = 1 .. L + 1
      /\ \A a \in 1 .. L + 1 : u[a] = IF a < n THEN before[a]
                                      ELSE IF a = n THEN x ELSE behind[a - n]
  BY <1>1, <1>2, <1>3, <1>4
<1>6. \A a \in 1 .. L + 1 :
         /\ a < n => a \in 1 .. L /\ u[a] = s[a]
         /\ a = n => u[a] = x
         /\ a > n => a - 1 \in 1 .. L /\ u[a] = s[a - 1]
  <2> SUFFICES ASSUME NEW a \in 1 .. L + 1
               PROVE  /\ a < n => a \in 1 .. L /\ u[a] = s[a]
                      /\ a = n => u[a] = x
                      /\ a > n => a - 1 \in 1 .. L /\ u[a] = s[a - 1]
    OBVIOUS
  <2>1. CASE a > n
    <3>1. a - n \in 1 .. L - n + 1 /\ (a - n) + n - 1 = a - 1 /\ a - 1 \in 1 .. L
      BY <1>1, <2>1 DEF L
    <3>2. u[a] = behind[a - n]
      BY <1>1, <1>5, <2>1
    <3>3. behind[a - n] = s[(a - n) + n - 1]
      BY <1>3, <3>1
    <3> QED
      BY <1>1, <2>1, <3>1, <3>2, <3>3
  <2> QED
    BY <1>1, <1>2, <1>5, <2>1 DEF L
<1>7. \A a, b \in 1 .. L + 1 : u[a] = u[b] => a = b
  <2> SUFFICES ASSUME NEW a \in 1 .. L + 1, NEW b \in 1 .. L + 1, u[a] = u[b]
               PROVE  a = b
    OBVIOUS
  <2>1. n \in Int /\ \A c, d \in 1 .. L : s[c] = s[d] => c = d
    BY <1>1 DEF L
  <2>2. \A c \in 1 .. L : s[c] # x
    BY <1>1
  <2> QED
    BY <1>1, <1>6, <2>1, <2>2
<1> QED
  BY <1>5, <1>7 DEF u

\* A film put into a pool where it is not yet.
PutIn(items, pos, s, m) ==
    Search!Take(Search!Inserted(Search!Outside(s, {m}), m,
        LAMBDA o, p : Search!Better(items[pos[o]], items[pos[p]])))

LEMMA InsertedFits ==
    ASSUME NEW items, NEW pos, NEW B, NEW s, Fits(s, B), NEW m \in B
    PROVE  Fits(PutIn(items, pos, s, m), B)
<1> DEFINE t == Search!Outside(s, {m})
           worse == {n \in DOMAIN t : Search!Better(items[pos[m]], items[pos[t[n]]])}
           place == IF worse = {} THEN Len(t) + 1
                    ELSE CHOOSE n \in worse : \A o \in worse : n <= o
           new == Search!InsertAt(t, place, m)
<1>1. Once(t, Range(s) \ {m})
  <2>1. Once(s, Range(s))
    BY DEF Fits, Once, Range
  <2> QED
    BY <2>1, OutsideIs
<1> HIDE DEF t
<1>2. /\ t \in Seq(B) /\ Len(t) \in Nat /\ DOMAIN t = 1 .. Len(t)
      /\ \A a, b \in DOMAIN t : t[a] = t[b] => a = b
      /\ \A a \in DOMAIN t : t[a] # m
  <2>1. Range(s) \ {m} \subseteq B
    BY DEF Fits, Range
  <2> QED
    BY <1>1, <2>1 DEF Once
<1>3. place \in 1 .. Len(t) + 1
  <2>1. CASE worse = {}
    BY <1>2, <2>1
  <2>2. CASE worse # {}
    <3>1. PICK n \in worse : \A o \in worse : n <= o
      <4>1. worse \subseteq Nat
        BY <1>2
      <4> HIDE DEF worse
      <4> QED
        BY <2>2, <4>1, Least
    <3>2. place \in worse
      <4> HIDE DEF worse
      <4> QED
        BY <2>2, <3>1
    <3>3. worse \subseteq 1 .. Len(t)
      BY <1>2
    <3> HIDE DEF place, worse
    <3> QED
      BY <1>2, <3>2, <3>3
  <2> QED
    BY <2>1, <2>2
<1>4. PutIn(items, pos, s, m) = Search!Take(new)
  BY DEF PutIn, Search!Inserted, t
<1> HIDE DEF place
<1>5. new \in Seq(B) /\ \A a, b \in DOMAIN new : new[a] = new[b] => a = b
  BY <1>2, <1>3, InsertOnce
<1> HIDE DEF new
<1> QED
  BY <1>4, <1>5, TakeFits

\* f is what comes of start when P is applied to it with each element of o.
Applied(f, start, P, o, j) ==
    f = [n \in 0 .. j |-> IF n = 0 THEN start ELSE P[<<f[n - 1], o[n]>>]]

\* A function that is defined step by step exists.
LEMMA AppliedExists ==
    ASSUME NEW X, NEW M, NEW L \in Nat, NEW o \in [1 .. L -> M],
           NEW P \in [X \X M -> X], NEW start \in X
    PROVE  \E f \in [0 .. L -> X] : Applied(f, start, P, o, L)
<1> DEFINE Good(j) == \E f \in [0 .. j -> X] : Applied(f, start, P, o, j)
           Bad == {j \in 0 .. L : ~Good(j)}
<1>1. SUFFICES ASSUME Bad # {} PROVE FALSE
  <2>1. L \in 0 .. L
    OBVIOUS
  <2> HIDE DEF Good
  <2>2. Good(L)
    BY <1>1, <2>1
  <2> QED
    BY <2>2 DEF Good
<1>2. PICK j \in Bad : \A n \in 0 .. L : n < j => n \notin Bad
  <2>1. Bad \subseteq 0 .. L
    OBVIOUS
  <2> HIDE DEF Bad
  <2> QED
    BY <1>1, <2>1, FirstOf
<1>3. j # 0
  <2> DEFINE f == [n \in 0 .. 0 |-> start]
  <2>1. f \in [0 .. 0 -> X] /\ Applied(f, start, P, o, 0)
    BY DEF Applied
  <2>2. Good(0)
    BY <2>1
  <2> HIDE DEF Good
  <2> QED
    BY <2>2
<1>4. j \in 1 .. L /\ j - 1 \in 0 .. L /\ j - 1 < j /\ j - 1 \in Nat
  BY <1>3
<1>5. Good(j - 1)
  <2> HIDE DEF Good
  <2> QED
    BY <1>2, <1>4
<1>6. PICK f \in [0 .. j - 1 -> X] : Applied(f, start, P, o, j - 1)
  BY <1>5
<1> DEFINE g == [n \in 0 .. j |-> IF n = j THEN P[<<f[j - 1], o[j]>>] ELSE f[n]]
<1>7. \A n \in 0 .. j - 1 : f[n] = IF n = 0 THEN start ELSE P[<<f[n - 1], o[n]>>]
  BY <1>6 DEF Applied
<1>8. g[j] = P[<<f[j - 1], o[j]>>] /\ \A n \in 0 .. j - 1 : g[n] = f[n]
  BY <1>4
<1>9. g \in [0 .. j -> X]
  <2>1. f[j - 1] \in X /\ o[j] \in M
    BY <1>4
  <2>2. P[<<f[j - 1], o[j]>>] \in X
    BY <2>1
  <2>3. \A n \in 0 .. j : n # j => n \in 0 .. j - 1
    BY <1>4
  <2> QED
    BY <2>2, <2>3
<1>10. g = [n \in 0 .. j |-> g[n]]
  OBVIOUS
<1> HIDE DEF g
<1>11. \A n \in 0 .. j : g[n] = IF n = 0 THEN start ELSE P[<<g[n - 1], o[n]>>]
  <2> SUFFICES ASSUME NEW n \in 0 .. j
               PROVE  g[n] = IF n = 0 THEN start ELSE P[<<g[n - 1], o[n]>>]
    OBVIOUS
  <2>1. CASE n = j
    <3>1. g[j - 1] = f[j - 1]
      BY <1>4, <1>8
    <3> QED
      BY <1>3, <1>8, <2>1, <3>1
  <2>2. CASE n # j
    <3>1. n \in 0 .. j - 1 /\ (n # 0 => n - 1 \in 0 .. j - 1)
      BY <1>4, <2>2
    <3> QED
      BY <1>7, <1>8, <3>1
  <2> QED
    BY <2>1, <2>2
<1>12. Applied(g, start, P, o, j)
  BY <1>10, <1>11 DEF Applied
<1>13. Good(j)
  BY <1>9, <1>12
<1> HIDE DEF Good
<1> QED
  BY <1>13

\* The films that a pool may have.
Shown(items, pos, k) ==
    {m \in DOMAIN pos : k \in Search!PoolKeys(items[pos[m]].meta)}

\* Films leave a pool and are put into it, one after the other.
LEMMA PoolIs ==
    ASSUME NEW idx, NEW upsert, NEW items, NEW pos, Patching(idx, upsert, items, pos),
           NEW order \in Seq(DOMAIN upsert), NEW k,
           Fits(idx.pools[k], Shown(idx.items, idx.pos, k))
    PROVE  Fits(Search!PatchedPool(idx, upsert, items, pos, order, k),
                Shown(items, pos, k))
<1> DEFINE B == Shown(items, pos, k)
           X == {s \in Seq(B) : Fits(s, B)}
           M == DOMAIN upsert
           L == Len(order)
           left == {m \in Search!Known(idx, upsert) :
                      (k \in Search!PoolKeys(Search!OldMeta(idx, m))) = TRUE
                        /\ (k \in Search!PoolKeys(upsert[m])) # TRUE}
           start == Search!Outside(idx.pools[k], left)
           Put(s, m) == IF k \notin Search!PoolKeys(upsert[m]) THEN s
                        ELSE PutIn(items, pos, s, m)
           Rec(f) == f = [n \in 0 .. L |-> IF n = 0 THEN start
                                           ELSE Put(f[n - 1], order[n])]
           pool == CHOOSE f : Rec(f)
           P == [w \in X \X M |-> Put(w[1], w[2])]
<1>1. Search!PatchedPool(idx, upsert, items, pos, order, k) = pool[L]
  BY DEF Search!PatchedPool, PutIn, Search!Leave
<1>2. L \in Nat /\ order \in [1 .. L -> M]
  OBVIOUS
<1>3. \A s : s \in X <=> Fits(s, B)
  BY DEF Fits
<1>4. start \in X
  <2> DEFINE old == Shown(idx.items, idx.pos, k)
             s == idx.pools[k]
  <2>1. Once(s, Range(s)) /\ Range(s) \subseteq old /\ Len(s) <= Cap /\ Len(s) \in Nat
    BY DEF Fits, Once, Range
  <2>2. Once(start, Range(s) \ left) /\ Len(start) <= Len(s)
    <3> HIDE DEF left
    <3> QED
      BY <2>1, OutsideIs
  <2>3. old \ left \subseteq B
    <3> SUFFICES ASSUME NEW m \in old, m \notin left PROVE m \in B
      OBVIOUS
    <3>1. m \in DOMAIN idx.pos /\ m \in DOMAIN pos
             /\ k \in Search!PoolKeys(idx.items[idx.pos[m]].meta)
      BY DEF Shown, Patching
    <3>2. CASE m \in DOMAIN upsert
      <4>1. k \in Search!PoolKeys(upsert[m])
        BY <3>1, <3>2 DEF Search!Known, Search!OldMeta
      <4> QED
        BY <3>1, <3>2, <4>1 DEF Patching, Shown
    <3>3. CASE m \notin DOMAIN upsert
      <4>1. items[pos[m]] = idx.items[idx.pos[m]]
        BY <3>1, <3>3 DEF Patching
      <4> QED
        BY <3>1, <4>1 DEF Shown
    <3> QED
      BY <3>2, <3>3
  <2> HIDE DEF start, s, left, old, B
  <2>4. Range(s) \ left \subseteq B
    BY <2>1, <2>3
  <2>5. /\ start \in Seq(B) /\ Len(start) \in Nat
        /\ \A a, b \in DOMAIN start : start[a] = start[b] => a = b
    BY <2>2, <2>4 DEF Once
  <2>6. Fits(start, B)
    BY SearchAssumption, <2>1, <2>2, <2>5 DEF Fits
  <2> QED
    BY <1>3, <2>6
<1>5. \A s \in X, m \in M : Put(s, m) \in X
  <2> SUFFICES ASSUME NEW s \in X, NEW m \in M PROVE Put(s, m) \in X
    OBVIOUS
  <2>1. CASE k \notin Search!PoolKeys(upsert[m])
    BY <2>1
  <2>2. CASE k \in Search!PoolKeys(upsert[m])
    <3>1. m \in B
      BY <2>2 DEF Shown, Patching
    <3>2. Fits(s, B)
      BY DEF Fits
    <3> HIDE DEF B
    <3>3. Fits(PutIn(items, pos, s, m), B)
      BY <3>1, <3>2, InsertedFits
    <3>4. PutIn(items, pos, s, m) \in X
      BY <3>3 DEF Fits
    <3> QED
      BY <2>2, <3>4
  <2> QED
    BY <2>1, <2>2
<1> HIDE DEF B, X, left, start, Put, L
<1>6. P \in [X \X M -> X] /\ \A s \in X, m \in M : P[<<s, m>>] = Put(s, m)
  BY <1>5
<1> HIDE DEF P
<1>7. PICK f \in [0 .. L -> X] : Applied(f, start, P, order, L)
  BY <1>2, <1>4, <1>6, AppliedExists
<1>8. Rec(f)
  <2>1. \A n \in 0 .. L : n # 0 => n - 1 \in 0 .. L /\ n \in 1 .. L
    BY <1>2
  <2>2. \A n \in 0 .. L : n # 0 => f[n - 1] \in X /\ order[n] \in M
    BY <1>2, <2>1
  <2>3. \A n \in 0 .. L : n # 0 => P[<<f[n - 1], order[n]>>] = Put(f[n - 1], order[n])
    BY <1>6, <2>2
  <2> QED
    BY <1>7, <2>3 DEF Applied
<1>9. Rec(pool)
  <2> HIDE DEF Rec
  <2> QED
    BY <1>8
<1> HIDE DEF pool
<1>10. /\ pool[0] = start
       /\ \A n \in 1 .. L : pool[n] = Put(pool[n - 1], order[n])
  <2>1. \A n \in 0 .. L : pool[n] = IF n = 0 THEN start ELSE Put(pool[n - 1], order[n])
    BY <1>9
  <2> QED
    BY <1>2, <2>1
<1>11. \A n \in 0 .. L : pool[n] \in X
  <2> DEFINE Bad == {n \in 0 .. L : pool[n] \notin X}
  <2>1. SUFFICES ASSUME Bad # {} PROVE FALSE
    BY <2>1
  <2>2. PICK n \in Bad : \A m \in 0 .. L : m < n => m \notin Bad
    <3>1. Bad \subseteq 0 .. L
      OBVIOUS
    <3> HIDE DEF Bad
    <3> QED
      BY <1>2, <2>1, <3>1, FirstOf
  <2>3. n \in 1 .. L
    BY <1>2, <1>4, <1>10
  <2>4. n - 1 \in 0 .. L /\ n - 1 < n /\ order[n] \in M
    BY <1>2, <2>3
  <2>5. pool[n - 1] \in X
    BY <2>2, <2>4
  <2>6. pool[n] \in X
    BY <1>5, <1>10, <2>3, <2>4, <2>5
  <2> QED
    BY <2>6
<1>12. pool[L] \in X
  BY <1>2, <1>11
<1> QED
  BY <1>1, <1>3, <1>12 DEF B

-----------------------------------------------------------------------------
(* The counts.                                                              *)

\* As many positions as films.
LEMMA SpotsCount ==
    ASSUME NEW M \in SUBSET Item, NEW pos, NEW S, S = {pos[m] : m \in M},
           \A m, n \in M : pos[m] = pos[n] => m = n
    PROVE  IsFiniteSet(S) /\ Cardinality(S) = Cardinality(M)
<1>1. IsFiniteSet(M)
  BY SearchAssumption, FS_Subset
<1> DEFINE f == [m \in M |-> pos[m]]
<1>2. f \in Bijection(M, S)
  BY DEF Bijection, Injection, Surjection, IsInjective
<1> HIDE DEF f
<1> QED
  BY <1>1, <1>2, FS_Bijection DEF ExistsBijection

\* The films of a source: some leave it, some come to it.
InSource(items, s) == {i \in DOMAIN items : items[i].meta.src = s}

LEMMA FilmsAre ==
    ASSUME NEW idx, NEW upsert, Rowset(upsert), NEW items, NEW pos,
           Patching(idx, upsert, items, pos),
           NEW s, idx.films[s] = Cardinality(InSource(idx.items, s))
    PROVE  Search!PatchedFilms(idx, upsert, s) = Cardinality(InSource(items, s))
<1> DEFINE Here == {x \in AllMetas(idx, upsert, items) : x.src = s}
           gone == {m \in Search!Known(idx, upsert) :
                      Search!OldMeta(idx, m).src = s /\ upsert[m].src # s}
           new == {m \in DOMAIN upsert : upsert[m].src = s
                     /\ (m \in Search!Known(idx, upsert) =>
                            Search!OldMeta(idx, m).src # s)}
           left == {pos[m] : m \in gone}
           come == {pos[m] : m \in new}
           old == InSource(idx.items, s)
<1>1. Search!PatchedFilms(idx, upsert, s) =
         idx.films[s] - Search!Cardinality(gone) + Search!Cardinality(new)
  BY DEF Search!PatchedFilms, Search!Leave, Search!Join
<1>2. /\ \A i \in DOMAIN idx.items :
            idx.items[i].meta \in Here <=> idx.items[i].meta.src = s
      /\ \A i \in DOMAIN items : items[i].meta \in Here <=> items[i].meta.src = s
      /\ \A m \in DOMAIN upsert : upsert[m] \in Here <=> upsert[m].src = s
  BY DEF AllMetas
<1>3. \A m \in Search!Known(idx, upsert) : m \in DOMAIN upsert
         /\ (Search!OldMeta(idx, m) \in Here <=> Search!OldMeta(idx, m).src = s)
  BY <1>2 DEF Search!Known, Search!OldMeta, Patching
<1>4. gone \subseteq DOMAIN upsert /\ new \subseteq DOMAIN upsert
  BY <1>3
<1> HIDE DEF Here
<1>5. /\ gone = Leaving(idx, upsert, Here) /\ new = Coming(idx, upsert, Here)
      /\ old = Among(idx.items, Here) /\ InSource(items, s) = Among(items, Here)
  BY <1>2, <1>3 DEF Leaving, Coming, Among, InSource
<1> HIDE DEF gone, new, old
<1>6. /\ InSource(items, s) = (old \ left) \cup come /\ (old \ left) \cap come = {}
      /\ left \subseteq old /\ come \subseteq DOMAIN items
  <2>1. /\ left = Spots(pos, Leaving(idx, upsert, Here))
        /\ come = Spots(pos, Coming(idx, upsert, Here))
    BY <1>5 DEF Spots
  <2> HIDE DEF left, come
  <2> QED
    BY <1>5, <2>1, MovesAre
<1>7. \A m, n \in DOMAIN upsert : pos[m] = pos[n] => m = n
  BY DEF Patching
<1>8. /\ IsFiniteSet(left) /\ Cardinality(left) = Cardinality(gone)
      /\ IsFiniteSet(come) /\ Cardinality(come) = Cardinality(new)
  <2>1. gone \in SUBSET Item /\ new \in SUBSET Item
    BY <1>4 DEF Rowset
  <2>2. /\ \A m, n \in gone : pos[m] = pos[n] => m = n
        /\ \A m, n \in new : pos[m] = pos[n] => m = n
    BY <1>4, <1>7
  <2> QED
    BY <2>1, <2>2, SpotsCount, ZenonT(60)
<1>9. IsFiniteSet(old)
  <2>1. IsFiniteSet(DOMAIN idx.items)
    BY FS_Interval DEF Patching, Listing
  <2> QED
    BY <2>1, FS_Subset DEF old, InSource
<1> HIDE DEF left, come
<1>10. /\ IsFiniteSet(old \ left)
       /\ Cardinality(old \ left) = Cardinality(old) - Cardinality(left)
       /\ Cardinality(old) \in Nat /\ Cardinality(left) \in Nat
  <2>1. old \cap left = left
    BY <1>6
  <2>2. /\ IsFiniteSet(old \ left)
        /\ Cardinality(old \ left) = Cardinality(old) - Cardinality(old \cap left)
    BY <1>9, FS_Difference
  <2> QED
    BY <1>8, <1>9, <2>1, <2>2, FS_CardinalityType
<1>11. Cardinality(InSource(items, s)) = Cardinality(old \ left) + Cardinality(come)
  <2> DEFINE stay == old \ left
  <2>1. Cardinality(stay \cap come) = 0 /\ IsFiniteSet(stay)
    BY <1>6, <1>10, FS_EmptySet
  <2>2. Cardinality(stay \cup come) =
           Cardinality(stay) + Cardinality(come) - Cardinality(stay \cap come)
    BY <1>8, <2>1, FS_Union
  <2>3. Cardinality(stay) \in Nat /\ Cardinality(come) \in Nat
    BY <1>8, <2>1, FS_CardinalityType
  <2>4. InSource(items, s) = stay \cup come
    BY <1>6
  <2> HIDE DEF stay
  <2>5. Cardinality(InSource(items, s)) = Cardinality(stay) + Cardinality(come)
    BY <2>1, <2>2, <2>3, <2>4
  <2> QED
    BY <2>5 DEF stay
<1>12. Cardinality(come) \in Nat
  BY <1>8, FS_CardinalityType
<1> QED
  BY <1>1, <1>8, <1>10, <1>11, <1>12, Counted DEF old

\* The films of the titles concerned; a film without a title for itself.
Touching(idx, upsert, list) ==
    {i \in DOMAIN list :
        /\ list[i].meta.title \in Search!TitlesTouched(idx, upsert)
        /\ list[i].meta.title = {} => list[i].mid \in DOMAIN upsert}

\* Whether a film has several sources changes only in the groups concerned.
LEMMA MultiIs ==
    ASSUME NEW idx, NEW upsert, Rowset(upsert), NEW items, NEW pos,
           Patching(idx, upsert, items, pos),
           NEW s, idx.multi[s] =
                     Cardinality(Search!Several(Search!Metas(idx.items), s))
    PROVE  Search!PatchedMulti(idx, upsert, items, s) =
              Cardinality(Search!Several(Search!Metas(items), s))
<1> DEFINE list == idx.items
           touched == Search!TitlesTouched(idx, upsert)
           old == Search!Several(Search!Metas(list), s)
           new == Search!Several(Search!Metas(items), s)
           out == Touching(idx, upsert, list)
           in == Touching(idx, upsert, items)
<1>1. Search!PatchedMulti(idx, upsert, items, s) =
         idx.multi[s] - Cardinality(old \cap out) + Cardinality(new \cap in)
  <2>1. {i \in old : /\ list[i].meta.title \in touched
                     /\ list[i].meta.title = {} => list[i].mid \in DOMAIN upsert}
           = old \cap out
    BY DEF Touching, Search!Several, Search!Metas
  <2>2. {i \in new : /\ items[i].meta.title \in touched
                     /\ items[i].meta.title = {} => items[i].mid \in DOMAIN upsert}
           = new \cap in
    BY DEF Touching, Search!Several, Search!Metas
  <2> QED
    BY <2>1, <2>2, Counted DEF Search!PatchedMulti
<1>2. /\ old \subseteq DOMAIN list /\ new \subseteq DOMAIN items
      /\ \A i \in DOMAIN list : i \in old <=>
            /\ list[i].meta.src = s
            /\ \/ Search!Cardinality(list[i].meta.plays) >= 2
               \/ list[i].meta.title # {} /\ \E j \in DOMAIN list :
                     list[j].meta.title = list[i].meta.title /\ list[j].meta.src # s
      /\ \A i \in DOMAIN items : i \in new <=>
            /\ items[i].meta.src = s
            /\ \/ Search!Cardinality(items[i].meta.plays) >= 2
               \/ items[i].meta.title # {} /\ \E j \in DOMAIN items :
                     items[j].meta.title = items[i].meta.title /\ items[j].meta.src # s
  BY DEF Search!Several, Search!Metas
<1>3. \A i \in DOMAIN list : items[i].mid = list[i].mid /\ i \in DOMAIN items
  BY DEF Patching
<1>4. /\ \A i \in DOMAIN list : list[i].mid \in DOMAIN upsert =>
            list[i].meta.title \in touched
      /\ \A i \in DOMAIN items : items[i].mid \in DOMAIN upsert =>
            items[i].meta.title \in touched
  <2>1. ASSUME NEW i \in DOMAIN list, list[i].mid \in DOMAIN upsert
        PROVE  list[i].meta.title \in touched
    <3>1. /\ list[i].mid \in DOMAIN idx.pos
          /\ list[idx.pos[list[i].mid]].meta = list[i].meta
      BY <2>1 DEF Patching
    <3> QED
      BY <2>1, <3>1 DEF Search!TitlesTouched, Search!Known, Search!OldMeta
  <2>2. ASSUME NEW i \in DOMAIN items, items[i].mid \in DOMAIN upsert
        PROVE  items[i].meta.title \in touched
    <3>1. items[i].meta = upsert[items[i].mid]
      BY <2>2 DEF Patching
    <3> QED
      BY <2>2, <3>1 DEF Search!TitlesTouched
  <2> QED
    BY <2>1, <2>2
<1>5. \A i \in DOMAIN items : items[i].mid \notin DOMAIN upsert =>
         i \in DOMAIN list /\ items[i] = list[i]
  BY DEF Patching
<1>6. /\ \A i \in DOMAIN list : i \in out <=>
            /\ list[i].meta.title \in touched
            /\ list[i].meta.title = {} => list[i].mid \in DOMAIN upsert
      /\ \A i \in DOMAIN items : i \in in <=>
            /\ items[i].meta.title \in touched
            /\ items[i].meta.title = {} => items[i].mid \in DOMAIN upsert
  BY DEF Touching
<1>7. IsFiniteSet(DOMAIN list) /\ IsFiniteSet(DOMAIN items)
  BY FS_Interval DEF Patching, Listing
<1> HIDE DEF list, touched, old, new, out, in
<1>8. ASSUME NEW i \in old \ out PROVE i \in new \ in
  <2>1. i \in DOMAIN list /\ list[i].mid \notin DOMAIN upsert /\ items[i] = list[i]
           /\ i \in DOMAIN items
    BY <1>2, <1>3, <1>4, <1>5, <1>6
  <2>2. i \notin in
    BY <1>6, <2>1
  <2>3. CASE Search!Cardinality(list[i].meta.plays) >= 2
    BY <1>2, <2>1, <2>2, <2>3
  <2>4. CASE ~(Search!Cardinality(list[i].meta.plays) >= 2)
    <3>1. PICK j \in DOMAIN list : list[i].meta.title # {} /\ list[i].meta.src = s
             /\ list[j].meta.title = list[i].meta.title /\ list[j].meta.src # s
      BY <1>2, <2>1, <2>4
    <3>2. list[i].meta.title \notin touched
      BY <1>6, <2>1, <3>1
    <3>3. j \in DOMAIN items /\ items[j] = list[j]
      BY <1>3, <1>4, <1>5, <3>1, <3>2
    <3> QED
      BY <1>2, <2>1, <2>2, <3>1, <3>3
  <2> QED
    BY <2>3, <2>4
<1>9. ASSUME NEW i \in new \ in PROVE i \in old \ out
  <2>1. i \in DOMAIN items /\ items[i].mid \notin DOMAIN upsert /\ items[i] = list[i]
           /\ i \in DOMAIN list
    BY <1>2, <1>4, <1>5, <1>6
  <2>2. i \notin out
    BY <1>6, <2>1
  <2>3. CASE Search!Cardinality(items[i].meta.plays) >= 2
    BY <1>2, <2>1, <2>2, <2>3
  <2>4. CASE ~(Search!Cardinality(items[i].meta.plays) >= 2)
    <3>1. PICK j \in DOMAIN items : items[i].meta.title # {} /\ items[i].meta.src = s
             /\ items[j].meta.title = items[i].meta.title /\ items[j].meta.src # s
      BY <1>2, <2>1, <2>4
    <3>2. items[i].meta.title \notin touched
      BY <1>6, <2>1, <3>1
    <3>3. j \in DOMAIN list /\ items[j] = list[j]
      BY <1>4, <1>5, <3>1, <3>2
    <3> QED
      BY <1>2, <2>1, <2>2, <3>1, <3>3
  <2> QED
    BY <2>3, <2>4
<1>10. old \ out = new \ in
  BY <1>8, <1>9
<1>11. IsFiniteSet(old) /\ IsFiniteSet(new)
  BY <1>2, <1>7, FS_Subset
<1>12. /\ Cardinality(old \ out) = Cardinality(old) - Cardinality(old \cap out)
       /\ Cardinality(new \ in) = Cardinality(new) - Cardinality(new \cap in)
       /\ Cardinality(old) \in Nat /\ Cardinality(new) \in Nat
  BY <1>11, FS_Difference, FS_CardinalityType
<1>13. Cardinality(old \cap out) \in Nat /\ Cardinality(new \cap in) \in Nat
  BY <1>11, FS_Intersection, FS_CardinalityType
<1> QED
  BY <1>1, <1>10, <1>12, <1>13 DEF old, new, list

-----------------------------------------------------------------------------
(* An index that agrees with its list.                                      *)

\* Rows that can be compared.
Stamped(x) ==
    /\ x = [src |-> x.src, plays |-> x.plays, cat |-> x.cat,
            root |-> x.root, title |-> x.title, stamp |-> x.stamp]
    /\ x.stamp \in Int
Dated(rows) == DOMAIN rows \subseteq Item /\ \A m \in DOMAIN rows : Stamped(rows[m])

\* Its lists, pools and counts are as if they had been made of its films.
Agreeing(idx) ==
    /\ idx.byUpdate = Search!ByUpdate(idx.items)
    /\ \A c \in Search!Category : Once(idx.byCategory[c], InCat(idx.items, c))
    /\ \A k \in Search!PoolKey : Fits(idx.pools[k], Shown(idx.items, idx.pos, k))
    /\ \A s \in Search!PlaySource :
          /\ idx.films[s] = Cardinality(InSource(idx.items, s))
          /\ idx.multi[s] = Cardinality(Search!Several(Search!Metas(idx.items), s))

LEMMA DatedIs ==
    ASSUME NEW items, Listing(items), Dated(Says(items))
    PROVE  Comparable(items)
<1>1. \A i \in DOMAIN items :
         /\ items[i].mid \in DOMAIN Says(items)
         /\ Says(items)[items[i].mid] = items[i].meta
  BY SaysEach
<1> QED
  BY <1>1, SearchAssumption DEF Comparable, Dated, Stamped

\* The films of a source that the pool of an index that is sealed anew has.
LEMMA PoolFits ==
    ASSUME NEW items, Listing(items), Comparable(items), NEW k
    PROVE  Fits(Search!Pool(items, k), Shown(items, Search!Positions(items), k))
<1> DEFINE S == {i \in DOMAIN items : k \in Search!PoolKeys(items[i].meta)}
           s == Search!SortedByRank(items, S)
           t == Search!MidsAt(items, s)
           B == Shown(items, Search!Positions(items), k)
<1>1. Search!Pool(items, k) = Search!Take(t)
  BY DEF Search!Pool, Search!Has
<1>2. Once(s, S)
  BY SortedIs
<1> HIDE DEF s
<1>3. /\ Len(s) \in Nat /\ DOMAIN s = 1 .. Len(s) /\ \A n \in 1 .. Len(s) : s[n] \in S
      /\ \A m, n \in 1 .. Len(s) : s[m] = s[n] => m = n
  <2> HIDE DEF S
  <2> QED
    BY <1>2 DEF Once
<1>4. t = [n \in 1 .. Len(s) |-> items[s[n]].mid]
  BY <1>3 DEF Search!MidsAt
<1> HIDE DEF t
<1>5. \A i \in S : items[i].mid \in B
  <2>1. \A i \in S : /\ items[i].mid \in DOMAIN Search!Positions(items)
                     /\ Search!Positions(items)[items[i].mid] = i
    BY SaysEach
  <2> QED
    BY <2>1 DEF Shown
<1>6. \A i, j \in S : items[i].mid = items[j].mid => i = j
  BY DEF Listing
<1> HIDE DEF S, B
<1>7. t \in Seq(B)
  BY <1>3, <1>4, <1>5
<1>8. \A a, b \in DOMAIN t : t[a] = t[b] => a = b
  BY <1>3, <1>4, <1>6
<1> QED
  BY <1>1, <1>7, <1>8, TakeFits DEF B

\* An index that is sealed anew agrees with its list.
LEMMA SealedAgrees ==
    ASSUME NEW items, Listing(items), Dated(Says(items))
    PROVE  Agreeing(Search!Sealed(items))
<1> DEFINE idx == Search!Sealed(items)
<1>1. Comparable(items)
  BY DatedIs
<1>2. /\ idx.items = items /\ idx.pos = Search!Positions(items)
      /\ idx.byUpdate = Search!ByUpdate(items)
      /\ idx.films = [s \in Search!PlaySource |-> Search!CountOf(items, s)]
      /\ idx.multi = [s \in Search!PlaySource |-> Search!CountOfSeveral(items, s)]
      /\ idx.byCategory = [c \in Search!Category |-> Search!InCategory(items, c)]
      /\ idx.pools = [k \in Search!PoolKey |-> Search!Pool(items, k)]
  BY DEF Search!Sealed
<1> HIDE DEF idx
<1>3. ASSUME NEW c PROVE Once(Search!InCategory(items, c), InCat(items, c))
  <2> DEFINE S == {i \in DOMAIN items : items[i].meta.cat # c}
             s == Search!ByUpdate(items)
  <2>1. Once(s, DOMAIN items)
    BY <1>1, SortedIs DEF Search!ByUpdate
  <2>2. Search!InCategory(items, c) = Search!Outside(s, S)
    BY DEF Search!InCategory
  <2>3. DOMAIN items \ S = InCat(items, c)
    BY DEF InCat
  <2> HIDE DEF S, s
  <2>4. Once(Search!Outside(s, S), DOMAIN items \ S)
    BY <2>1, OutsideIs
  <2> QED
    BY <2>2, <2>3, <2>4
<1>4. \A k : Fits(Search!Pool(items, k), Shown(items, Search!Positions(items), k))
  BY <1>1, PoolFits
<1>5. ASSUME NEW s PROVE Search!CountOf(items, s) = Cardinality(InSource(items, s))
  BY Counted DEF Search!CountOf, Search!Has, InSource
<1>6. ASSUME NEW s
      PROVE  Search!CountOfSeveral(items, s) =
                Cardinality(Search!Several(Search!Metas(items), s))
  BY Counted DEF Search!CountOfSeveral
<1>7. Agreeing(idx)
  BY <1>2, <1>3, <1>4, <1>5, <1>6 DEF Agreeing
<1> QED
  BY <1>7 DEF idx

\* The lists before and behind a patch.
LEMMA PatchingIs ==
    ASSUME NEW idx, Whole(idx), Dated(Content(idx)),
           NEW upsert, Rowset(upsert), Dated(upsert),
           NEW order \in Search!SetToSeqs(DOMAIN upsert),
           NEW items, items = Search!PatchedItems(idx, upsert, order)
    PROVE  /\ Patching(idx, upsert, items, Search!Positions(items))
           /\ Says(items) = Over(upsert, Content(idx))
           /\ Dated(Says(items)) /\ Comparable(idx.items)
<1> DEFINE pos == Search!Positions(items)
<1>1. /\ Listing(items)
      /\ Says(items) = Over(upsert, Content(idx))
      /\ \A i \in DOMAIN idx.items :
            i \in DOMAIN items /\ items[i].mid = idx.items[i].mid
      /\ \A i \in DOMAIN items : items[i].mid \notin DOMAIN upsert =>
            i \in DOMAIN idx.items /\ items[i] = idx.items[i]
      /\ \A i \in DOMAIN items :
            i \notin DOMAIN idx.items => items[i].mid \notin DOMAIN idx.pos
  BY PatchedItemsIs
<1>2. /\ Content(idx) = Says(idx.items) /\ Listing(idx.items)
      /\ idx.pos = Search!Positions(idx.items)
  BY ContentIs DEF Whole
<1>3. Dated(Says(items))
  BY <1>1 DEF Over, Dated
<1>4. Comparable(items) /\ Comparable(idx.items)
  BY <1>1, <1>2, <1>3, DatedIs
<1>5. /\ DOMAIN pos = DOMAIN Says(items)
      /\ \A i \in DOMAIN items : /\ items[i].mid \in DOMAIN pos /\ pos[items[i].mid] = i
                                 /\ Says(items)[items[i].mid] = items[i].meta
      /\ \A m \in DOMAIN pos : pos[m] \in DOMAIN items /\ items[pos[m]].mid = m
  BY <1>1, SaysEach
<1>6. /\ DOMAIN idx.pos = DOMAIN Content(idx)
      /\ \A i \in DOMAIN idx.items :
            idx.items[i].mid \in DOMAIN idx.pos /\ idx.pos[idx.items[i].mid] = i
      /\ \A m \in DOMAIN idx.pos :
            idx.pos[m] \in DOMAIN idx.items /\ idx.items[idx.pos[m]].mid = m
  BY <1>2, SaysEach
<1> HIDE DEF pos
<1>7. DOMAIN pos = DOMAIN upsert \cup DOMAIN idx.pos
  BY <1>1, <1>5, <1>6 DEF Over
<1>8. \A m \in DOMAIN idx.pos : pos[m] = idx.pos[m]
  BY <1>1, <1>5, <1>6
<1>9. \A m \in DOMAIN upsert : items[pos[m]].meta = upsert[m]
  <2>1. \A m \in DOMAIN upsert : Says(items)[m] = upsert[m]
    BY <1>1 DEF Over
  <2> QED
    BY <1>5, <1>7, <2>1
<1>10. \A m \in DOMAIN pos \ DOMAIN upsert :
          m \in DOMAIN idx.pos /\ items[pos[m]] = idx.items[idx.pos[m]]
  BY <1>1, <1>5, <1>7, <1>8
<1>11. Patching(idx, upsert, items, pos)
  BY <1>1, <1>2, <1>4, <1>5, <1>6, <1>7, <1>8, <1>9, <1>10 DEF Patching
<1> QED
  BY <1>1, <1>3, <1>4, <1>11 DEF pos

\* An index that agreed agrees when it is patched.
LEMMA PatchedAgrees ==
    ASSUME NEW idx, Whole(idx), Dated(Content(idx)), Agreeing(idx),
           NEW upsert, Rowset(upsert), Dated(upsert),
           NEW order \in Search!SetToSeqs(DOMAIN upsert),
           NEW order2 \in Search!SetToSeqs(DOMAIN upsert)
    PROVE  Agreeing(Search!Patched(idx, upsert, order, order2))
<1> DEFINE items == Search!PatchedItems(idx, upsert, order)
           pos == Search!Positions(items)
           new == Search!Patched(idx, upsert, order, order2)
           moved == {pos[m] : m \in DOMAIN upsert}
<1>1. /\ Patching(idx, upsert, items, pos) /\ Comparable(idx.items)
  BY PatchingIs
<1>2. /\ new.items = items /\ new.pos = pos
      /\ new.byUpdate = Search!PatchedByUpdate(idx, upsert, items, pos)
      /\ new.films = [s \in Search!PlaySource |-> Search!PatchedFilms(idx, upsert, s)]
      /\ new.multi = [s \in Search!PlaySource |->
                         Search!PatchedMulti(idx, upsert, items, s)]
      /\ new.byCategory = [c \in Search!Category |->
                              Search!PatchedCategory(idx, upsert, pos, c)]
      /\ new.pools = [k \in Search!PoolKey |->
                         Search!PatchedPool(idx, upsert, items, pos, order2, k)]
  BY DEF Search!Patched
<1> HIDE DEF new, items, pos
<1>3. new.byUpdate = Search!ByUpdate(items)
  <2> DEFINE list == idx.items
  <2>1. /\ Once(idx.byUpdate, DOMAIN list)
        /\ InTurn(idx.byUpdate, ByRank(list, DOMAIN list))
    BY <1>1, SortedIs DEF Agreeing, Search!ByUpdate, Patching
  <2>2. moved \subseteq DOMAIN items /\ DOMAIN list \subseteq DOMAIN items
    BY <1>1 DEF Patching
  <2>3. \A i \in DOMAIN items : i \notin moved =>
           items[i].mid \in DOMAIN pos \ DOMAIN upsert /\ pos[items[i].mid] = i
    BY <1>1 DEF Patching
  <2>4. \A i \in DOMAIN items : i \notin moved =>
           i \in DOMAIN list /\ items[i] = list[i]
    BY <1>1, <2>3 DEF Patching
  <2>5. Listing(items) /\ Comparable(items)
    BY <1>1 DEF Patching
  <2>6. moved = {pos[m] : m \in DOMAIN upsert}
    OBVIOUS
  <2> HIDE DEF moved
  <2>7. Search!PatchedByUpdate(idx, upsert, items, pos) = Search!ByUpdate(items)
    BY <2>1, <2>2, <2>4, <2>5, <2>6, ByUpdateIs
  <2> QED
    BY <1>2, <2>7
<1>4. \A c \in Search!Category : Once(new.byCategory[c], InCat(items, c))
  BY <1>1, <1>2, CategoryIs DEF Agreeing
<1>5. \A k \in Search!PoolKey : Fits(new.pools[k], Shown(items, pos, k))
  <2>1. order2 \in Seq(DOMAIN upsert)
    <3>1. PICK n \in Nat : order2 \in [1 .. n -> DOMAIN upsert]
      BY OrderIs DEF Rowset
    <3> QED
      BY <3>1
  <2> QED
    BY <1>1, <1>2, <2>1, PoolIs DEF Agreeing
<1>6. \A s \in Search!PlaySource :
         /\ new.films[s] = Cardinality(InSource(items, s))
         /\ new.multi[s] = Cardinality(Search!Several(Search!Metas(items), s))
  BY <1>1, <1>2, FilmsAre, MultiIs DEF Agreeing
<1>7. Agreeing(new)
  BY <1>2, <1>3, <1>4, <1>5, <1>6 DEF Agreeing
<1> QED
  BY <1>7 DEF new

\* Whichever way the index is patched, it agrees again.
LEMMA ResultsAgree ==
    ASSUME NEW idx, Whole(idx), Dated(Content(idx)), Agreeing(idx),
           NEW upsert, Rowset(upsert), Dated(upsert),
           NEW todo, DOMAIN upsert \subseteq todo,
           NEW new \in Search!Results(idx, todo, upsert)
    PROVE  Dated(Content(new)) /\ Agreeing(new)
<1>1. CASE todo = DOMAIN upsert /\ idx.items # <<>>
  <2>1. PICK o \in Search!SetToSeqs(todo), p \in Search!SetToSeqs(todo) :
           new = Search!Patched(idx, upsert, o, p)
    BY <1>1 DEF Search!Results
  <2>2. Content(new) = Over(upsert, Content(idx)) /\ Agreeing(new)
    BY <1>1, <2>1, PatchedIs, PatchedAgrees
  <2> QED
    BY <2>2 DEF Over, Dated
<1>2. CASE ~(todo = DOMAIN upsert /\ idx.items # <<>>)
  <2> DEFINE gone == todo \ DOMAIN upsert
  <2>1. PICK o \in Search!SetToSeqs(DOMAIN upsert) :
           new = Search!Resealed(idx, upsert, gone, o)
    <3> DEFINE A == {Search!Patched(idx, upsert, x, y) :
                        x \in Search!SetToSeqs(todo), y \in Search!SetToSeqs(todo)}
               B == {Search!Resealed(idx, upsert, gone, x) :
                        x \in Search!SetToSeqs(DOMAIN upsert)}
    <3>1. Search!Results(idx, todo, upsert) =
             IF todo = DOMAIN upsert /\ idx.items # <<>> THEN A ELSE B
      BY DEF Search!Results
    <3> HIDE DEF A, B
    <3>2. new \in B
      BY <1>2, <3>1
    <3> QED
      BY <3>2 DEF B
  <2> DEFINE items == Search!PatchedItems(idx, upsert, o)
             left == Search!Without(items, gone)
  <2>2. Listing(items) /\ Dated(Says(items))
    BY PatchingIs, PatchedItemsIs
  <2>3. new = Search!Sealed(left)
    BY <2>1 DEF Search!Resealed
  <2> HIDE DEF items, gone
  <2>4. /\ Listing(left)
        /\ Says(left) = [m \in DOMAIN Says(items) \ gone |-> Says(items)[m]]
    BY <2>2, WithoutIs
  <2>5. Dated(Says(left))
    BY <2>2, <2>4 DEF Dated
  <2> HIDE DEF left
  <2> QED
    BY <2>3, <2>4, <2>5, SealedIs, SealedAgrees
<1> QED
  BY <1>1, <1>2

-----------------------------------------------------------------------------
(* Steps after which no less is excused than before.                        *)

\* A call that goes on changes nothing of the others.
LEMMA CallMoves ==
    ASSUME SearchTyped, NEW c \in Caller, NEW r, Calling(r),
           call' = [call EXCEPT ![c] = r]
    PROVE  /\ call' = [d \in Caller |-> call'[d]] /\ \A d \in Caller : Calling(call'[d])
           /\ call'[c] = r /\ \A d \in Caller \ {c} : call'[d] = call[d]
           /\ AtHand(c)' = IF r = Search!Idle THEN {} ELSE r.mids
           /\ \A d \in Caller \ {c} : AtHand(d)' = AtHand(d)
BY DEF SearchTyped, AtHand

\* What was excused still is, and what was changed is in somebody's hands.
Excused(shared, after) ==
    /\ \A m \in shared : m \in after
    /\ \A m \in Item, d \in Caller : m \in AtHand(d) => m \in AtHand(d)' \cup after
Covered ==
    \A m \in Item :
        \/ tables'[m] = tables[m] \/ m \in changed'
        \/ \E d \in Caller : call'[d].at # "read" /\ m \in AtHand(d)'

\* What a call has read stays as right as it was.
LEMMA CallKept ==
    ASSUME SearchInv, Covered,
           Excused(changed \cup Sealing \cup lost, changed' \cup Sealing' \cup lost'),
           NEW c \in Caller, call[c].at = "read", call'[c] = call[c]
    PROVE  CallRight(c)'
<1>1. \A m \in call[c].mids :
          \/ m \in changed \cup Sealing \cup lost
          \/ \E d \in Caller \ {c} : m \in AtHand(d)
          \/ Right(call[c].rows, m)
  BY DEF SearchInv, CallsRight, CallRight
<1>2. \A m \in call[c].mids : m \in Item
  BY DEF SearchInv, SearchTyped, Calling, Search!Idle
<1>3. ASSUME NEW m \in call[c].mids,
             m \notin changed' \cup Sealing' \cup lost',
             \A d \in Caller \ {c} : m \notin AtHand(d)'
      PROVE  Right(call[c].rows, m)'
  <2>1. Right(call[c].rows, m)
    BY <1>1, <1>2, <1>3 DEF Excused
  <2>2. tables'[m] = tables[m]
    BY <1>2, <1>3 DEF Covered
  <2> QED
    BY <2>1, <2>2 DEF Right
<1> QED
  BY <1>3 DEF CallRight

\* So does what a scan has read,
LEMMA ScanKept ==
    ASSUME SearchInv, Covered,
           build'.at = "read" => build.at = "read" /\ build'.rows = build.rows,
           Excused(changed \cup Sealing \cup (lost \ build.lost),
                   changed' \cup Sealing' \cup (lost' \ build'.lost))
    PROVE  ScanRight'
<1> SUFFICES ASSUME build'.at = "read", NEW m \in Item,
                    m \notin changed' \cup Sealing' \cup (lost' \ build'.lost),
                    \A d \in Caller : m \notin AtHand(d)'
             PROVE  Right(build.rows, m)'
  BY DEF ScanRight
<1>1. Right(build.rows, m)
  BY DEF SearchInv, ScanRight, Excused
<1>2. tables'[m] = tables[m]
  BY DEF Covered
<1> QED
  BY <1>1, <1>2 DEF Right

\* what the index says, unless it is replaced,
LEMMA IndexKept ==
    ASSUME SearchInv, Covered, index' = index,
           Excused(changed \cup Sealing \cup lost, changed' \cup Sealing' \cup lost')
    PROVE  IndexRight'
<1> SUFFICES ASSUME index # NoIndex
             PROVE  /\ Whole(index)'
                    /\ \A m \in Item :
                          \/ m \in changed' \cup Sealing' \cup lost'
                          \/ \E d \in Caller : m \in AtHand(d)'
                          \/ Right(Content(index), m)'
  BY DEF IndexRight
<1>1. Whole(index)'
  BY DEF SearchInv, IndexRight, Whole, Posted
<1>2. ASSUME NEW m \in Item, m \notin changed' \cup Sealing' \cup lost',
             \A d \in Caller : m \notin AtHand(d)'
      PROVE  Right(Content(index), m)'
  <2>1. Right(Content(index), m)
    BY <1>2 DEF SearchInv, IndexRight, Excused
  <2>2. tables'[m] = tables[m]
    BY <1>2 DEF Covered
  <2> QED
    BY <2>1, <2>2 DEF Right, Content
<1> QED
  BY <1>1, <1>2

\* and what the reseal has read.
LEMMA SealKept ==
    ASSUME SearchInv, Covered, index' = index, seal' = seal,
           Excused(changed \cup lost, changed' \cup lost')
    PROVE  SealRight'
<1> SUFFICES ASSUME seal.at # "idle", ~seal.moved
             PROVE  /\ index # NoIndex
                    /\ \A m \in seal.mids :
                          \/ m \in changed' \cup lost'
                          \/ \E d \in Caller : m \in AtHand(d)'
                          \/ Right(seal.rows, m)'
  BY DEF SealRight
<1>1. \A m \in seal.mids : m \in Item
  BY DEF SearchInv, SearchTyped, Resealed, Search!Idle
<1>2. ASSUME NEW m \in seal.mids, m \notin changed' \cup lost',
             \A d \in Caller : m \notin AtHand(d)'
      PROVE  Right(seal.rows, m)'
  <2>1. Right(seal.rows, m)
    BY <1>1, <1>2 DEF SearchInv, SealRight, Excused
  <2>2. tables'[m] = tables[m]
    BY <1>1, <1>2 DEF Covered
  <2> QED
    BY <2>1, <2>2 DEF Right
<1> QED
  BY <1>2 DEF SearchInv, SealRight

-----------------------------------------------------------------------------
(* The steps.                                                               *)

\* A change of the tables, by a call that begins or by a collection.
LEMMA ChangeKeeps ==
    ASSUME SearchInv, NEW some \in Batch, NEW xs \in [some -> Meta \cup {Gone}],
           Search!Change(some, xs),
           UNCHANGED <<index, indexMutex, seal, build, lost>>,
           \/ changed' = changed \cup some /\ call' = call
           \/ /\ changed' = changed
              /\ \E c \in Caller, to \in {"upsert", "remove"} :
                    /\ call[c] = Search!Idle
                    /\ call' = [call EXCEPT ![c] = [at |-> to, mids |-> some]]
                    /\ to = "remove" => \A m \in some : xs[m] = Gone
    PROVE  SearchInv'
<1>1. /\ some \subseteq Item
      /\ tables' \in [Item -> Meta \cup {New, Gone}]
      /\ \A m \in Item \ some : tables'[m] = tables[m]
      /\ \A m \in some : tables[m] # Gone /\ tables'[m] = xs[m]
  BY SearchAssumption DEF SearchInv, SearchTyped, Search!Change
<1>2. /\ call' = [d \in Caller |-> call'[d]] /\ \A d \in Caller : Calling(call'[d])
      /\ \A d \in Caller : \A m \in AtHand(d) : m \in AtHand(d)'
      /\ \A d \in Caller : call'[d].at = "read" => call'[d] = call[d]
      /\ \A d \in Caller : call'[d].at = "remove" =>
            \/ call'[d] = call[d]
            \/ call'[d].mids = some /\ \A m \in some : xs[m] = Gone
      /\ changed \subseteq changed' /\ changed' \subseteq Item
      /\ \/ \A m \in some : m \in changed'
         \/ \E d \in Caller : call'[d].at # "read" /\ \A m \in some : m \in AtHand(d)'
  <2>1. CASE changed' = changed \cup some /\ call' = call
    BY <1>1, <2>1 DEF SearchInv, SearchTyped, AtHand
  <2>2. ASSUME NEW c \in Caller, NEW to \in {"upsert", "remove"},
               call[c] = Search!Idle, changed' = changed,
               call' = [call EXCEPT ![c] = [at |-> to, mids |-> some]],
               to = "remove" => \A m \in some : xs[m] = Gone
        PROVE  <1>2!:
    <3> DEFINE r == [at |-> to, mids |-> some]
    <3>1. /\ r.at = to /\ r.mids = some /\ r # Search!Idle
          /\ Calling(r) /\ r.at # "read" /\ call' = [call EXCEPT ![c] = r]
      BY <1>1, <2>2 DEF Calling, Search!Idle
    <3> HIDE DEF r
    <3>2. /\ call' = [d \in Caller |-> call'[d]] /\ \A d \in Caller : Calling(call'[d])
          /\ call'[c] = r /\ \A d \in Caller \ {c} : call'[d] = call[d]
          /\ AtHand(c)' = some
          /\ \A d \in Caller \ {c} : AtHand(d)' = AtHand(d)
      BY <3>1, CallMoves DEF SearchInv
    <3>3. AtHand(c) = {}
      BY <2>2 DEF AtHand
    <3> QED
      BY <2>2, <3>1, <3>2, <3>3 DEF SearchInv, SearchTyped
  <2> QED
    BY <2>1, <2>2
<1>3. Covered
  BY <1>1, <1>2 DEF Covered
<1>4. /\ Excused(changed \cup Sealing \cup lost, changed' \cup Sealing' \cup lost')
      /\ Excused(changed \cup Sealing \cup (lost \ build.lost),
                 changed' \cup Sealing' \cup (lost' \ build'.lost))
      /\ Excused(changed \cup lost, changed' \cup lost')
  BY <1>2 DEF Excused, Sealing
<1>5. SearchTyped'
  BY <1>1, <1>2 DEF SearchInv, SearchTyped
<1>6. ReadersHold'
  BY <1>2 DEF SearchInv, ReadersHold
<1>7. GoneForGood'
  <2> SUFFICES ASSUME NEW d \in Caller, call'[d].at = "remove", NEW m \in call'[d].mids
               PROVE  tables'[m] = Gone
    BY DEF GoneForGood
  <2>1. CASE call'[d] = call[d]
    <3>1. tables[m] = Gone /\ m \in Item
      BY <2>1 DEF SearchInv, SearchTyped, Calling, GoneForGood, Search!Idle
    <3> QED
      BY <1>1, <3>1
  <2>2. CASE call'[d].mids = some /\ \A n \in some : xs[n] = Gone
    BY <1>1, <2>2
  <2> QED
    BY <1>2, <2>1, <2>2
<1>8. CallsRight'
  BY <1>2, <1>3, <1>4, CallKept DEF CallsRight
<1>9. SealRight' /\ ScanRight' /\ IndexRight'
  BY <1>3, <1>4, SealKept, ScanKept, IndexKept
<1> QED
  BY <1>5, <1>6, <1>7, <1>8, <1>9 DEF SearchInv

\* The three that change the tables: an edit, a deletion and a collection.
LEMMA ChangesKeep ==
    ASSUME SearchInv, NEW some \in Batch
    PROVE  /\ \A c \in Caller : Search!Edits(c, some) => SearchInv'
           /\ \A c \in Caller : Search!Deletes(c, some) => SearchInv'
           /\ Search!Collects(some) => SearchInv'
<1>1. ASSUME NEW c \in Caller, Search!Edits(c, some) PROVE SearchInv'
  <2>1. PICK xs \in [some -> Meta] : Search!Change(some, xs)
    BY <1>1 DEF Search!Edits
  <2>2. xs \in [some -> Meta \cup {Gone}]
    OBVIOUS
  <2>3. /\ call[c] = Search!Idle /\ changed' = changed
        /\ call' = [call EXCEPT ![c] = [at |-> "upsert", mids |-> some]]
        /\ UNCHANGED <<index, indexMutex, seal, build, lost>>
    BY <1>1 DEF Search!Edits
  <2> QED
    BY <2>1, <2>2, <2>3, ChangeKeeps
<1>2. ASSUME NEW c \in Caller, Search!Deletes(c, some) PROVE SearchInv'
  <2> DEFINE xs == [m \in some |-> Gone]
  <2>1. /\ call[c] = Search!Idle /\ changed' = changed /\ Search!Change(some, xs)
        /\ call' = [call EXCEPT ![c] = [at |-> "remove", mids |-> some]]
        /\ UNCHANGED <<index, indexMutex, seal, build, lost>>
    BY <1>2 DEF Search!Deletes
  <2>2. xs \in [some -> Meta \cup {Gone}] /\ \A m \in some : xs[m] = Gone
    OBVIOUS
  <2> HIDE DEF xs
  <2> QED
    BY <2>1, <2>2, ChangeKeeps
<1>3. ASSUME Search!Collects(some) PROVE SearchInv'
  <2>1. PICK xs \in [some -> Meta] : Search!Change(some, xs)
    BY <1>3 DEF Search!Collects
  <2>2. xs \in [some -> Meta \cup {Gone}]
    OBVIOUS
  <2>3. /\ changed' = changed \cup some /\ call' = call
        /\ UNCHANGED <<index, indexMutex, seal, build, lost>>
    BY <1>3 DEF Search!Collects
  <2> QED
    BY <2>1, <2>2, <2>3, ChangeKeeps
<1> QED
  BY <1>1, <1>2, <1>3

\* A read under the mutex.
LEMMA UpsertReadsKeeps ==
    ASSUME SearchInv, NEW c \in Caller, Search!UpsertReads(c)
    PROVE  SearchInv'
<1> DEFINE some == call[c].mids
           rows == Search!Rows(some)
           r == [at |-> "read", mids |-> some, rows |-> rows]
<1>1. /\ call[c].at = "upsert" /\ indexMutex = Free /\ indexMutex' = c
      /\ call' = [call EXCEPT ![c] = r]
      /\ UNCHANGED <<tables, index, changed, seal, build, lost>>
  BY DEF Search!UpsertReads
<1>2. some \subseteq Item /\ AtHand(c) = some
  BY <1>1 DEF SearchInv, SearchTyped, Calling, AtHand, Search!Idle
<1>3. Rowset(rows) /\ DOMAIN rows \subseteq some /\ \A m \in some : Right(rows, m)
  BY <1>2, RowsRight DEF SearchInv
<1> HIDE DEF some, rows
<1>4. /\ r.at = "read" /\ r.mids = some /\ r.rows = rows /\ r # Search!Idle
      /\ Calling(r)
  BY <1>2, <1>3 DEF Calling, Search!Idle
<1> HIDE DEF r
<1>5. /\ call' = [d \in Caller |-> call'[d]] /\ \A d \in Caller : Calling(call'[d])
      /\ call'[c] = r /\ \A d \in Caller \ {c} : call'[d] = call[d]
      /\ AtHand(c)' = some /\ \A d \in Caller \ {c} : AtHand(d)' = AtHand(d)
  BY <1>1, <1>4, CallMoves DEF SearchInv
<1>6. Covered
  BY <1>1 DEF Covered
<1>7. /\ Excused(changed \cup Sealing \cup lost, changed' \cup Sealing' \cup lost')
      /\ Excused(changed \cup Sealing \cup (lost \ build.lost),
                 changed' \cup Sealing' \cup (lost' \ build'.lost))
      /\ Excused(changed \cup lost, changed' \cup lost')
  BY <1>1, <1>2, <1>5 DEF Excused, Sealing
<1>8. SearchTyped'
  BY <1>1, <1>5 DEF SearchInv, SearchTyped
<1>9. ReadersHold'
  BY <1>1, <1>5, SearchAssumption DEF SearchInv, ReadersHold
<1>10. GoneForGood'
  BY <1>1, <1>4, <1>5 DEF SearchInv, GoneForGood
<1>11. CallsRight'
  <2>1. CallRight(c)'
    BY <1>1, <1>3, <1>4, <1>5 DEF CallRight, Right
  <2> QED
    BY <1>5, <1>6, <1>7, <2>1, CallKept DEF CallsRight
<1>12. SealRight' /\ ScanRight' /\ IndexRight'
  BY <1>1, <1>6, <1>7, SealKept, ScanKept, IndexKept
<1> QED
  BY <1>8, <1>9, <1>10, <1>11, <1>12 DEF SearchInv

\* While the mutex is free, or another's, a call has read nothing, and no scan.
LEMMA NoReaders ==
    ASSUME SearchInv
    PROVE  /\ indexMutex = Free =>
                build.at # "read" /\ \A d \in Caller : call[d].at # "read"
           /\ \A c \in Caller : call[c].at = "read" =>
                build.at # "read" /\ \A d \in Caller \ {c} : call[d].at # "read"
           /\ build.at = "read" => \A d \in Caller : call[d].at # "read"
BY SearchAssumption DEF SearchInv, ReadersHold

\* A call that ends.
LEMMA CallEnds ==
    ASSUME SearchInv, NEW c \in Caller, call' = [call EXCEPT ![c] = Search!Idle]
    PROVE  /\ call' = [d \in Caller |-> call'[d]] /\ \A d \in Caller : Calling(call'[d])
           /\ call'[c].at = "idle" /\ \A d \in Caller \ {c} : call'[d] = call[d]
           /\ AtHand(c)' = {} /\ \A d \in Caller \ {c} : AtHand(d)' = AtHand(d)
           /\ \A d \in Caller : call'[d].at # "idle" => call'[d] = call[d] /\ d # c
<1>1. Calling(Search!Idle) /\ Search!Idle.at = "idle"
  BY DEF Calling, Search!Idle
<1>2. /\ call' = [d \in Caller |-> call'[d]] /\ \A d \in Caller : Calling(call'[d])
      /\ call'[c] = Search!Idle /\ \A d \in Caller \ {c} : call'[d] = call[d]
      /\ AtHand(c)' = {} /\ \A d \in Caller \ {c} : AtHand(d)' = AtHand(d)
  BY <1>1, CallMoves DEF SearchInv
<1> QED
  BY <1>1, <1>2

\* With the calls that are left, the deletions under way stay what they were.
LEMMA EndedGone ==
    ASSUME SearchInv, tables' = tables,
           \A d \in Caller : call'[d].at # "idle" => call'[d] = call[d]
    PROVE  GoneForGood'
BY DEF SearchInv, GoneForGood

\* Another reseal is told that the index is not the one that it has read for.
LEMMA InstallsTells ==
    ASSUME SearchInv, NEW idx, Search!Installs(idx)
    PROVE  index' = idx /\ Resealed(seal') /\ Sealing' = Sealing /\ SealRight'
<1>1. CASE seal.at = "idle"
  BY <1>1 DEF SearchInv, SearchTyped, Search!Installs, Sealing, SealRight
<1>2. CASE seal.at # "idle"
  <2>1. /\ seal = [at |-> seal.at, mids |-> seal.mids, rows |-> seal.rows,
                   moved |-> seal.moved]
        /\ seal' = [seal EXCEPT !.moved = TRUE] /\ index' = idx
    BY <1>2 DEF SearchInv, SearchTyped, Resealed, Search!Idle, Search!Installs
  <2>2. /\ seal' = [at |-> seal.at, mids |-> seal.mids, rows |-> seal.rows,
                    moved |-> TRUE]
    BY <2>1
  <2>3. Resealed(seal)
    BY DEF SearchInv, SearchTyped
  <2> QED
    BY <1>2, <2>1, <2>2, <2>3 DEF Resealed, Sealing, SealRight, Search!Idle
<1> QED
  BY <1>1, <1>2

\* An index patched with right rows is right where the rows or it were.
LEMMA ReplacedRight ==
    ASSUME NEW new, NEW old, NEW todo, NEW rows, Replaced(new, old, todo, rows),
           NEW m \in Item, m \in todo => Right(rows, m), m \notin todo => Right(old, m)
    PROVE  Right(new, m)
BY DEF Replaced, Right

\* What a call has read replaces what the index says of its films.
LEMMA UpsertStoresKeeps ==
    ASSUME SearchInv, NEW c \in Caller, Search!UpsertStores(c)
    PROVE  SearchInv'
<1> DEFINE some == call[c].mids
           rows == call[c].rows
           plays == Search!WithPlays(rows)
<1>1. /\ call[c].at = "read" /\ index # NoIndex /\ indexMutex' = Free
      /\ call' = [call EXCEPT ![c] = Search!Idle]
      /\ UNCHANGED <<tables, changed, build, lost>>
  BY DEF Search!UpsertStores
<1>2. PICK idx \in Search!Results(index, some, plays) : Search!Installs(idx)
  BY DEF Search!UpsertStores
<1>3. /\ some \subseteq Item /\ AtHand(c) = some
      /\ Rowset(rows) /\ DOMAIN rows \subseteq some
  BY <1>1 DEF SearchInv, SearchTyped, Calling, AtHand, Search!Idle
<1>4. /\ Rowset(plays) /\ DOMAIN plays \subseteq some
      /\ \A m \in Item : Right(rows, m) => Right(plays, m)
  BY <1>3, PlaysRight DEF SearchInv
<1>5. Whole(idx) /\ Replaced(Content(idx), Content(index), some, plays)
  <2> HIDE DEF plays, some
  <2>1. Whole(index)
    BY <1>1 DEF SearchInv, IndexRight
  <2> QED
    BY <1>2, <1>4, <2>1, ResultsAre
<1>6. index' = idx /\ Resealed(seal') /\ Sealing' = Sealing /\ SealRight'
  BY <1>2, InstallsTells
<1>7. /\ call' = [d \in Caller |-> call'[d]] /\ \A d \in Caller : Calling(call'[d])
      /\ AtHand(c)' = {} /\ \A d \in Caller \ {c} : AtHand(d)' = AtHand(d)
      /\ \A d \in Caller : call'[d].at # "idle" => call'[d] = call[d] /\ d # c
  BY <1>1, CallEnds
<1>8. build'.at # "read" /\ \A d \in Caller : call'[d].at # "read"
  BY <1>1, <1>7, NoReaders
<1>9. ASSUME NEW m \in Item, m \notin changed \cup Sealing \cup lost,
             \A d \in Caller \ {c} : m \notin AtHand(d)
      PROVE  Right(Content(idx), m)
  <2>1. CASE m \in some
    <3>1. Right(rows, m)
      BY <1>1, <1>9, <2>1 DEF SearchInv, CallsRight, CallRight
    <3> QED
      BY <1>4, <1>5, <2>1, <3>1, ReplacedRight
  <2>2. CASE m \notin some
    <3>1. Right(Content(index), m)
      BY <1>1, <1>3, <1>9, <2>2 DEF SearchInv, IndexRight
    <3> QED
      BY <1>5, <2>2, <3>1, ReplacedRight
  <2> QED
    BY <2>1, <2>2
<1> HIDE DEF some, rows, plays
<1>10. IndexRight'
  <2>1. Whole(index)'
    BY <1>5, <1>6 DEF Whole, Posted
  <2>2. ASSUME NEW m \in Item, m \notin changed' \cup Sealing' \cup lost',
               \A d \in Caller : m \notin AtHand(d)'
        PROVE  Right(Content(index), m)'
    <3>1. Right(Content(idx), m)
      BY <1>1, <1>6, <1>7, <1>9, <2>2
    <3> QED
      BY <1>1, <1>6, <3>1 DEF Right, Content
  <2> QED
    BY <2>1, <2>2 DEF IndexRight
<1>11. SearchTyped'
  BY <1>1, <1>6, <1>7 DEF SearchInv, SearchTyped
<1>12. ReadersHold' /\ CallsRight' /\ ScanRight'
  BY <1>8 DEF ReadersHold, CallsRight, ScanRight
<1>13. GoneForGood'
  BY <1>1, <1>7, EndedGone
<1> QED
  BY <1>6, <1>10, <1>11, <1>12, <1>13 DEF SearchInv

\* A call whose read fails leaves its films as lost.
LEMMA UpsertFailsKeeps ==
    ASSUME SearchInv, NEW c \in Caller, Search!UpsertFails(c)
    PROVE  SearchInv'
<1>1. /\ call[c].at = "read" /\ indexMutex' = Free
      /\ lost' = lost \cup call[c].mids
      /\ call' = [call EXCEPT ![c] = Search!Idle]
      /\ UNCHANGED <<tables, index, changed, seal, build>>
  BY DEF Search!UpsertFails
<1>2. call[c].mids \subseteq Item /\ AtHand(c) = call[c].mids
  BY <1>1 DEF SearchInv, SearchTyped, Calling, AtHand, Search!Idle
<1>3. /\ call' = [d \in Caller |-> call'[d]] /\ \A d \in Caller : Calling(call'[d])
      /\ AtHand(c)' = {} /\ \A d \in Caller \ {c} : AtHand(d)' = AtHand(d)
      /\ \A d \in Caller : call'[d].at # "idle" => call'[d] = call[d] /\ d # c
  BY <1>1, CallEnds
<1>4. build'.at # "read" /\ \A d \in Caller : call'[d].at # "read"
  BY <1>1, <1>3, NoReaders
<1>5. Covered
  BY <1>1 DEF Covered
<1>6. /\ Excused(changed \cup Sealing \cup lost, changed' \cup Sealing' \cup lost')
      /\ Excused(changed \cup lost, changed' \cup lost')
  BY <1>1, <1>2, <1>3 DEF Excused, Sealing
<1>7. SearchTyped'
  BY <1>1, <1>2, <1>3 DEF SearchInv, SearchTyped
<1>8. ReadersHold' /\ CallsRight' /\ ScanRight'
  BY <1>4 DEF ReadersHold, CallsRight, ScanRight
<1>9. GoneForGood'
  BY <1>1, <1>3, EndedGone
<1>10. SealRight' /\ IndexRight'
  BY <1>1, <1>5, <1>6, SealKept, IndexKept
<1> QED
  BY <1>7, <1>8, <1>9, <1>10 DEF SearchInv

\* A deletion takes its films out; where none of them is in the index, a reseal
\* that has read them alive may bring them back, and they count as lost.
LEMMA RemovesKeeps ==
    ASSUME SearchInv, NEW c \in Caller, Search!Removes(c)
    PROVE  SearchInv'
<1> DEFINE some == call[c].mids
           left == Search!Sealed(Search!Without(index.items, some))
<1>1. /\ call[c].at = "remove" /\ index # NoIndex /\ indexMutex = Free
      /\ call' = [call EXCEPT ![c] = Search!Idle]
      /\ UNCHANGED <<tables, indexMutex, changed, build>>
  BY DEF Search!Removes
<1>2. /\ some \subseteq Item /\ AtHand(c) = some
      /\ \A m \in some : tables[m] = Gone /\ tables[m] \notin Meta
  BY <1>1, SearchAssumption
     DEF SearchInv, SearchTyped, Calling, AtHand, GoneForGood, Search!Idle
<1>3. /\ call' = [d \in Caller |-> call'[d]] /\ \A d \in Caller : Calling(call'[d])
      /\ AtHand(c)' = {} /\ \A d \in Caller \ {c} : AtHand(d)' = AtHand(d)
      /\ \A d \in Caller : call'[d].at # "idle" => call'[d] = call[d] /\ d # c
  BY <1>1, CallEnds
<1>4. build'.at # "read" /\ \A d \in Caller : call'[d].at # "read"
  BY <1>1, <1>3, NoReaders
<1>5. ReadersHold' /\ CallsRight' /\ ScanRight'
  BY <1>4 DEF ReadersHold, CallsRight, ScanRight
<1>6. GoneForGood'
  BY <1>1, <1>3, EndedGone
<1>7. /\ Whole(index)
      /\ \A m \in Item : \/ m \in changed \cup Sealing \cup lost
                         \/ \E d \in Caller : m \in AtHand(d)
                         \/ Right(Content(index), m)
  BY <1>1 DEF SearchInv, IndexRight
<1>8. CASE some \cap DOMAIN index.pos = {}
  <2>1. /\ index' = index /\ seal' = seal
        /\ lost' = IF seal.at = "idle" THEN lost
                   ELSE lost \cup (some \cap DOMAIN seal.rows)
    BY <1>8 DEF Search!Removes
  <2>2. lost \subseteq lost' /\ lost' \subseteq Item
    BY <1>2, <2>1 DEF SearchInv, SearchTyped
  <2>3. \A m \in some : Right(Content(index), m)
    BY <1>2, <1>8 DEF Right, Content
  <2>4. \A m \in seal.mids \cap some : seal.at # "idle" =>
           m \in lost' \/ Right(seal.rows, m)
    BY <1>2, <2>1 DEF Right
  <2> HIDE DEF some
  <2>5. IndexRight'
    <3>1. Whole(index)'
      BY <1>7, <2>1 DEF Whole, Posted
    <3>2. ASSUME NEW m \in Item, m \notin changed' \cup Sealing' \cup lost',
                 \A d \in Caller : m \notin AtHand(d)'
          PROVE  Right(Content(index), m)'
      <4>1. m \notin changed \cup Sealing \cup lost
        BY <1>1, <2>1, <2>2, <3>2 DEF Sealing
      <4>2. Right(Content(index), m)
        BY <1>2, <1>3, <1>7, <2>3, <3>2, <4>1
      <4> QED
        BY <1>1, <2>1, <4>2 DEF Right, Content
    <3> QED
      BY <3>1, <3>2 DEF IndexRight
  <2>6. SealRight'
    BY <1>1, <1>2, <1>3, <2>1, <2>2, <2>4 DEF SearchInv, SealRight, Right
  <2>7. SearchTyped'
    BY <1>1, <1>3, <2>1, <2>2 DEF SearchInv, SearchTyped
  <2> QED
    BY <1>5, <1>6, <2>5, <2>6, <2>7 DEF SearchInv
<1>9. CASE some \cap DOMAIN index.pos # {}
  <2>1. Search!Installs(left) /\ lost' = lost
    BY <1>9 DEF Search!Removes
  <2>2. index' = left /\ Resealed(seal') /\ Sealing' = Sealing /\ SealRight'
    BY <2>1, InstallsTells
  <2>3. Listing(index.items) /\ Content(index) = Says(index.items)
    BY <1>7, ContentIs DEF Whole
  <2>4. /\ Whole(left)
        /\ Content(left) = [m \in DOMAIN Content(index) \ some |-> Content(index)[m]]
    <3> DEFINE rest == Search!Without(index.items, some)
    <3> HIDE DEF some
    <3>1. Listing(rest) /\ Says(rest) =
             [m \in DOMAIN Says(index.items) \ some |-> Says(index.items)[m]]
      BY <2>3, WithoutIs
    <3>2. left = Search!Sealed(rest)
      OBVIOUS
    <3> HIDE DEF left, rest
    <3>3. Whole(left) /\ Content(left) = Says(rest)
      BY <3>1, <3>2, SealedIs
    <3> QED
      BY <2>3, <3>1, <3>3
  <2> HIDE DEF left, some
  <2>5. Whole(index)'
    BY <2>2, <2>4 DEF Whole, Posted
  <2>6. ASSUME NEW m \in Item, m \notin changed \cup Sealing \cup lost,
               \A d \in Caller \ {c} : m \notin AtHand(d)
        PROVE  Right(Content(left), m)
    BY <1>2, <1>7, <2>4, <2>6 DEF Right
  <2>7. IndexRight'
    <3>1. ASSUME NEW m \in Item, m \notin changed' \cup Sealing' \cup lost',
                 \A d \in Caller : m \notin AtHand(d)'
          PROVE  Right(Content(index), m)'
      <4>1. Right(Content(left), m)
        BY <1>1, <1>3, <2>1, <2>2, <2>6, <3>1
      <4> QED
        BY <1>1, <2>2, <4>1 DEF Right, Content
    <3> QED
      BY <2>5, <3>1 DEF IndexRight
  <2>8. SearchTyped'
    BY <1>1, <1>3, <2>1, <2>2 DEF SearchInv, SearchTyped
  <2> QED
    BY <1>5, <1>6, <2>2, <2>7, <2>8 DEF SearchInv
<1> QED
  BY <1>8, <1>9

\* Films that are left to a scan that has not yet begun.
LEMMA LeftKeeps ==
    ASSUME SearchInv, NEW some \in SUBSET Item, Search!LeftToScan(some),
           UNCHANGED <<tables, index, indexMutex, call>>,
           seal' = Search!Idle, changed' \subseteq Item,
           \A m \in changed \cup Sealing : m \in changed' \cup some
    PROVE  SearchInv'
<1>1. /\ seal'.at = "idle" /\ Sealing' = {}
      /\ lost' = lost \cup some /\ lost' \subseteq Item
  BY DEF SearchInv, SearchTyped, Search!Idle, Search!LeftToScan, Sealing
<1>2. /\ Scanning(build')
      /\ build'.at = "read" =>
            /\ build.at = "read" /\ build'.rows = build.rows
            /\ build'.lost = build.lost \ some
  <2>1. CASE build = Search!Idle
    BY <2>1 DEF Search!LeftToScan, Scanning, Search!Idle
  <2>2. CASE build # Search!Idle
    <3>1. /\ build = [at |-> "read", rows |-> build.rows, lost |-> build.lost]
          /\ Rowset(build.rows) /\ build.lost \subseteq Item
      BY <2>2 DEF SearchInv, SearchTyped, Scanning
    <3> DEFINE rest == build.lost \ some
    <3>2. build' = [build EXCEPT !.lost = rest]
      BY <2>2 DEF Search!LeftToScan
    <3>3. rest \subseteq Item
      BY <3>1
    <3>4. build.at = "read"
      BY <3>1
    <3> HIDE DEF rest
    <3>5. build' = [at |-> "read", rows |-> build.rows, lost |-> rest]
      BY <3>1, <3>2
    <3>6. build'.at = "read" /\ build'.rows = build.rows /\ build'.lost = rest
      BY <3>5
    <3> QED
      BY <3>1, <3>3, <3>4, <3>5, <3>6 DEF Scanning, rest
  <2> QED
    BY <2>1, <2>2
<1>3. Covered
  BY DEF Covered
<1>4. \A d \in Caller : AtHand(d)' = AtHand(d)
  BY DEF AtHand
<1>5. /\ Excused(changed \cup Sealing \cup lost, changed' \cup Sealing' \cup lost')
      /\ build'.at = "read" =>
            Excused(changed \cup Sealing \cup (lost \ build.lost),
                    changed' \cup Sealing' \cup (lost' \ build'.lost))
  BY <1>1, <1>2, <1>4 DEF Excused
<1>6. SearchTyped'
  BY <1>1, <1>2 DEF SearchInv, SearchTyped, Resealed
<1>7. ReadersHold' /\ GoneForGood'
  BY <1>2 DEF SearchInv, ReadersHold, GoneForGood
<1>8. CallsRight'
  BY <1>3, <1>5, CallKept DEF CallsRight
<1>9. ScanRight'
  <2>1. CASE build'.at = "read"
    BY <1>2, <1>3, <1>5, <2>1, ScanKept
  <2> QED
    BY <2>1 DEF ScanRight
<1>10. SealRight' /\ IndexRight'
  BY <1>1, <1>3, <1>5, IndexKept DEF SealRight
<1> QED
  BY <1>6, <1>7, <1>8, <1>9, <1>10 DEF SearchInv

\* A reseal that reads the rows, the first time or once more.
LEMMA ResealingKeeps ==
    ASSUME SearchInv, NEW some \in SUBSET Item, Search!Resealing(some), index # NoIndex,
           UNCHANGED <<tables, index, indexMutex, call, build, lost>>,
           changed' \subseteq Item,
           \A m \in changed \cup Sealing : m \in changed' \cup some
    PROVE  SearchInv'
<1> DEFINE rows == Search!Rows(some)
<1>1. seal' = [at |-> "rows", mids |-> some, rows |-> rows, moved |-> FALSE]
  BY DEF Search!Resealing
<1>2. Rowset(rows) /\ DOMAIN rows \subseteq some /\ \A m \in some : Right(rows, m)
  BY RowsRight DEF SearchInv
<1> HIDE DEF rows
<1>3. /\ seal'.at = "rows" /\ seal'.mids = some /\ seal'.rows = rows
      /\ seal'.moved = FALSE /\ seal' # Search!Idle
  BY <1>1 DEF Search!Idle
<1>4. Resealed(seal') /\ Sealing' = some
  BY <1>1, <1>2, <1>3 DEF Resealed, Sealing
<1>5. Covered
  BY DEF Covered
<1>6. /\ Excused(changed \cup Sealing \cup lost, changed' \cup Sealing' \cup lost')
      /\ Excused(changed \cup Sealing \cup (lost \ build.lost),
                 changed' \cup Sealing' \cup (lost' \ build'.lost))
  BY <1>4 DEF Excused, AtHand
<1>7. SearchTyped'
  BY <1>4 DEF SearchInv, SearchTyped
<1>8. ReadersHold' /\ GoneForGood'
  BY DEF SearchInv, ReadersHold, GoneForGood
<1>9. CallsRight'
  BY <1>5, <1>6, CallKept DEF CallsRight
<1>10. SealRight'
  BY <1>2, <1>3 DEF SealRight, Right
<1>11. ScanRight' /\ IndexRight'
  BY <1>5, <1>6, ScanKept, IndexKept
<1> QED
  BY <1>7, <1>8, <1>9, <1>10, <1>11 DEF SearchInv

\* The steps of the reseal that read or give up.
LEMMA ResealKeeps ==
    ASSUME SearchInv
    PROVE  /\ Search!ResealReads => SearchInv'
           /\ Search!ResealRereads => SearchInv'
           /\ Search!ResealGivesUp => SearchInv'
<1>1. /\ changed \subseteq Item
      /\ seal.at # "idle" => Sealing = seal.mids /\ seal.mids \subseteq Item
      /\ seal = Search!Idle => Sealing = {}
  BY DEF SearchInv, SearchTyped, Resealed, Sealing, Search!Idle
<1>2. ASSUME Search!ResealReads PROVE SearchInv'
  <2>1. /\ seal = Search!Idle /\ changed' = {}
        /\ UNCHANGED <<tables, index, indexMutex, call>>
    BY <1>2 DEF Search!ResealReads
  <2>2. CASE index = NoIndex
    <3>1. Search!LeftToScan(changed) /\ seal' = Search!Idle
      BY <1>2, <2>1, <2>2 DEF Search!ResealReads
    <3> QED
      BY <1>1, <2>1, <3>1, LeftKeeps
  <2>3. CASE index # NoIndex
    <3>1. Search!Resealing(changed) /\ UNCHANGED <<build, lost>>
      BY <1>2, <2>3 DEF Search!ResealReads
    <3> QED
      BY <1>1, <2>1, <2>3, <3>1, ResealingKeeps
  <2> QED
    BY <2>2, <2>3
<1>3. ASSUME Search!ResealRereads PROVE SearchInv'
  <2>1. /\ seal.at = "ready" /\ index # NoIndex /\ Search!Resealing(seal.mids)
        /\ UNCHANGED <<tables, index, indexMutex, call, build, lost>>
        /\ changed' = changed
    BY <1>3 DEF Search!ResealRereads
  <2> QED
    BY <1>1, <2>1, ResealingKeeps
<1>4. ASSUME Search!ResealGivesUp PROVE SearchInv'
  <2>1. /\ seal.at \in {"rows", "ready"} /\ Search!LeftToScan(seal.mids)
        /\ seal' = Search!Idle
        /\ UNCHANGED <<tables, index, indexMutex, call>> /\ changed' = changed
    BY <1>4 DEF Search!ResealGivesUp
  <2> QED
    BY <1>1, <2>1, LeftKeeps
<1> QED
  BY <1>2, <1>3, <1>4

\* The reseal's second reading.
LEMMA ResealReadsPlaysKeeps ==
    ASSUME SearchInv, Search!ResealReadsPlays
    PROVE  SearchInv'
<1> DEFINE new == Search!WithPlays(seal.rows)
<1>1. /\ seal.at = "rows"
      /\ seal' = [seal EXCEPT !.at = "ready", !.rows = new]
      /\ UNCHANGED <<tables, index, indexMutex, call, changed, build, lost>>
  BY DEF Search!ResealReadsPlays
<1>2. /\ seal = [at |-> seal.at, mids |-> seal.mids, rows |-> seal.rows,
                 moved |-> seal.moved]
      /\ seal.moved \in BOOLEAN /\ seal.mids \subseteq Item
      /\ Rowset(seal.rows) /\ DOMAIN seal.rows \subseteq seal.mids
  BY <1>1 DEF SearchInv, SearchTyped, Resealed, Search!Idle
<1>3. /\ Rowset(new) /\ DOMAIN new \subseteq seal.mids
      /\ \A m \in Item : Right(seal.rows, m) => Right(new, m)
  BY <1>2, PlaysRight DEF SearchInv
<1> HIDE DEF new
<1>4. seal' = [at |-> "ready", mids |-> seal.mids, rows |-> new, moved |-> seal.moved]
  BY <1>1, <1>2
<1>5. /\ seal'.at = "ready" /\ seal'.mids = seal.mids /\ seal'.rows = new
      /\ seal'.moved = seal.moved /\ seal' # Search!Idle
  BY <1>4 DEF Search!Idle
<1>6. Resealed(seal') /\ Sealing' = Sealing
  BY <1>1, <1>2, <1>3, <1>4, <1>5 DEF Resealed, Sealing
<1>7. Covered
  BY <1>1 DEF Covered
<1>8. /\ Excused(changed \cup Sealing \cup lost, changed' \cup Sealing' \cup lost')
      /\ Excused(changed \cup Sealing \cup (lost \ build.lost),
                 changed' \cup Sealing' \cup (lost' \ build'.lost))
  BY <1>1, <1>6 DEF Excused, AtHand
<1>9. SearchTyped'
  BY <1>1, <1>6 DEF SearchInv, SearchTyped
<1>10. ReadersHold' /\ GoneForGood'
  BY <1>1 DEF SearchInv, ReadersHold, GoneForGood
<1>11. CallsRight'
  BY <1>1, <1>7, <1>8, CallKept DEF CallsRight
<1>12. SealRight'
  <2> SUFFICES ASSUME ~seal'.moved
               PROVE  /\ index' # NoIndex
                      /\ \A m \in seal'.mids :
                            \/ m \in changed' \cup lost'
                            \/ \E d \in Caller : m \in AtHand(d)'
                            \/ Right(seal.rows, m)'
    BY DEF SealRight
  <2>1. ASSUME NEW m \in seal.mids, m \notin changed \cup lost,
               \A d \in Caller : m \notin AtHand(d)
        PROVE  Right(seal.rows, m)'
    <3>1. Right(new, m)
      BY <1>1, <1>2, <1>3, <1>5, <2>1 DEF SearchInv, SealRight
    <3> QED
      BY <1>1, <1>5, <3>1 DEF Right
  <2>2. index # NoIndex
    BY <1>1, <1>5 DEF SearchInv, SealRight
  <2>3. \A d \in Caller : AtHand(d)' = AtHand(d)
    BY <1>1 DEF AtHand
  <2> QED
    BY <1>1, <1>5, <2>1, <2>2, <2>3
<1>13. ScanRight' /\ IndexRight'
  BY <1>1, <1>7, <1>8, ScanKept, IndexKept
<1> QED
  BY <1>9, <1>10, <1>11, <1>12, <1>13 DEF SearchInv

\* The reseal replaces the very index that it has read for.
LEMMA ResealStoresKeeps ==
    ASSUME SearchInv, Search!ResealStores
    PROVE  SearchInv'
<1> DEFINE some == seal.mids
           rows == seal.rows
<1>1. /\ seal.at = "ready" /\ indexMutex = Free /\ index # NoIndex /\ ~seal.moved
      /\ index' \in Search!Results(index, some, rows)
      /\ seal' = Search!Idle
      /\ UNCHANGED <<tables, indexMutex, call, changed, build, lost>>
  BY DEF Search!ResealStores
<1>2. /\ some \subseteq Item /\ Sealing = some
      /\ Rowset(rows) /\ DOMAIN rows \subseteq some
  BY <1>1 DEF SearchInv, SearchTyped, Resealed, Sealing, Search!Idle
<1>3. PICK idx \in Search!Results(index, some, rows) : index' = idx
  BY <1>1
<1>4. Whole(index)
  BY <1>1 DEF SearchInv, IndexRight
<1>5. \A m \in some :
         \/ m \in changed \cup lost \/ \E d \in Caller : m \in AtHand(d)
         \/ Right(rows, m)
  BY <1>1 DEF SearchInv, SealRight
<1> HIDE DEF some, rows
<1>6. Whole(idx) /\ Replaced(Content(idx), Content(index), some, rows)
  BY <1>2, <1>3, <1>4, ResultsAre
<1>7. ASSUME NEW m \in Item, m \notin changed \cup lost,
             \A d \in Caller : m \notin AtHand(d)
      PROVE  Right(Content(idx), m)
  <2>1. m \in some => Right(rows, m)
    BY <1>5, <1>7
  <2>2. m \notin some => Right(Content(index), m)
    BY <1>1, <1>2, <1>7 DEF SearchInv, IndexRight
  <2> QED
    BY <1>6, <2>1, <2>2, ReplacedRight
<1>8. build'.at # "read" /\ \A d \in Caller : call'[d].at # "read"
  BY <1>1, NoReaders
<1>9. IndexRight'
  <2>1. Whole(index)'
    BY <1>3, <1>6 DEF Whole, Posted
  <2>2. ASSUME NEW m \in Item, m \notin changed' \cup Sealing' \cup lost',
               \A d \in Caller : m \notin AtHand(d)'
        PROVE  Right(Content(index), m)'
    <3>1. Right(Content(idx), m)
      BY <1>1, <1>7, <2>2 DEF AtHand
    <3> QED
      BY <1>1, <1>3, <3>1 DEF Right, Content
  <2> QED
    BY <2>1, <2>2 DEF IndexRight
<1>10. SearchTyped' /\ SealRight'
  BY <1>1 DEF SearchInv, SearchTyped, Resealed, SealRight, Search!Idle
<1>11. ReadersHold' /\ CallsRight' /\ ScanRight'
  BY <1>8 DEF ReadersHold, CallsRight, ScanRight
<1>12. GoneForGood'
  BY <1>1 DEF SearchInv, GoneForGood
<1> QED
  BY <1>9, <1>10, <1>11, <1>12 DEF SearchInv

\* A scan that begins sees every film as it is.
LEMMA BuildReadsKeeps ==
    ASSUME SearchInv, Search!BuildReads
    PROVE  SearchInv'
<1> DEFINE rows == Search!Rows(Item)
<1>1. /\ build = Search!Idle /\ indexMutex = Free /\ indexMutex' = "build"
      /\ build' = [at |-> "read", rows |-> rows, lost |-> lost]
      /\ UNCHANGED <<tables, index, call, changed, seal, lost>>
  BY DEF Search!BuildReads
<1>2. Rowset(rows) /\ \A m \in Item : Right(rows, m)
  BY RowsRight DEF SearchInv
<1> HIDE DEF rows
<1>3. /\ build'.at = "read" /\ build'.rows = rows /\ build'.lost = lost
      /\ Scanning(build')
  BY <1>1, <1>2 DEF SearchInv, SearchTyped, Scanning
<1>4. Covered
  BY <1>1 DEF Covered
<1>5. /\ Excused(changed \cup Sealing \cup lost, changed' \cup Sealing' \cup lost')
      /\ Excused(changed \cup lost, changed' \cup lost')
  BY <1>1 DEF Excused, Sealing, AtHand
<1>6. SearchTyped'
  BY <1>1, <1>3 DEF SearchInv, SearchTyped
<1>7. \A d \in Caller : call'[d].at # "read"
  BY <1>1, NoReaders
<1>8. ReadersHold' /\ CallsRight' /\ GoneForGood'
  BY <1>1, <1>7 DEF SearchInv, ReadersHold, CallsRight, GoneForGood
<1>9. ScanRight'
  BY <1>1, <1>2, <1>3 DEF ScanRight, Right
<1>10. SealRight' /\ IndexRight'
  BY <1>1, <1>4, <1>5, SealKept, IndexKept
<1> QED
  BY <1>6, <1>8, <1>9, <1>10 DEF SearchInv

\* A scan that ends makes up for the failures from before it.
LEMMA BuildStoresKeeps ==
    ASSUME SearchInv, Search!BuildStores
    PROVE  SearchInv'
<1> DEFINE plays == Search!WithPlays(build.rows)
<1>1. /\ build.at = "read" /\ indexMutex' = Free /\ build' = Search!Idle
      /\ lost' = lost \ build.lost
      /\ UNCHANGED <<tables, call, changed>>
  BY DEF Search!BuildStores
<1>2. PICK order \in Search!SetToSeqs(DOMAIN build.rows) :
         Search!Installs(Search!Sealed(Search!AsItems(plays, order)))
  BY DEF Search!BuildStores
<1>3. Rowset(build.rows)
  BY <1>1 DEF SearchInv, SearchTyped, Scanning, Search!Idle
<1>4. /\ Rowset(plays) /\ DOMAIN plays = DOMAIN build.rows
      /\ \A m \in Item : Right(build.rows, m) => Right(plays, m)
  BY <1>3, PlaysRight DEF SearchInv
<1> HIDE DEF plays
<1> DEFINE items == Search!AsItems(plays, order)
           idx == Search!Sealed(items)
<1>5. Listing(items) /\ Says(items) = plays
  BY <1>2, <1>4, AsItemsIs
<1>6. Search!Installs(idx)
  BY <1>2
<1> HIDE DEF items
<1>7. Whole(idx) /\ Content(idx) = plays
  BY <1>5, SealedIs
<1> HIDE DEF idx
<1>8. index' = idx /\ Resealed(seal') /\ Sealing' = Sealing /\ SealRight'
  BY <1>6, InstallsTells
<1>9. build'.at # "read" /\ \A d \in Caller : call'[d].at # "read"
  BY <1>1, NoReaders DEF Search!Idle
<1>10. IndexRight'
  <2>1. Whole(index)'
    BY <1>7, <1>8 DEF Whole, Posted
  <2>2. ASSUME NEW m \in Item, m \notin changed' \cup Sealing' \cup lost',
               \A d \in Caller : m \notin AtHand(d)'
        PROVE  Right(Content(index), m)'
    <3>1. Right(build.rows, m)
      BY <1>1, <1>8, <2>2 DEF SearchInv, ScanRight, AtHand
    <3>2. Right(Content(idx), m)
      BY <1>4, <1>7, <3>1
    <3> QED
      BY <1>1, <1>8, <3>2 DEF Right, Content
  <2> QED
    BY <2>1, <2>2 DEF IndexRight
<1>11. SearchTyped'
  BY <1>1, <1>8 DEF SearchInv, SearchTyped, Scanning
<1>12. ReadersHold' /\ CallsRight' /\ ScanRight'
  BY <1>9 DEF ReadersHold, CallsRight, ScanRight
<1>13. GoneForGood'
  BY <1>1 DEF SearchInv, GoneForGood
<1> QED
  BY <1>8, <1>10, <1>11, <1>12, <1>13 DEF SearchInv

\* Only where there is no index does anybody go away without having stored.
LEMMA BuildFailsKeeps ==
    ASSUME SearchInv, Search!BuildFails
    PROVE  SearchInv'
<1>1. /\ build.at = "read" /\ indexMutex' = Free /\ build' = Search!Idle
      /\ UNCHANGED <<tables, index, changed, seal, lost>>
  BY DEF Search!BuildFails
<1>2. PICK away \in SUBSET {c \in Caller : call[c] # Search!Idle /\ index = NoIndex} :
         call' = [c \in Caller |-> IF c \in away THEN Search!Idle ELSE call[c]]
  BY DEF Search!BuildFails
<1>3. /\ call' = [c \in Caller |-> call'[c]]
      /\ \A c \in Caller : Calling(call'[c])
      /\ \A c \in Caller : call'[c] = Search!Idle \/ call'[c] = call[c]
  BY <1>2 DEF SearchInv, SearchTyped, Calling
<1>4. build'.at # "read" /\ \A d \in Caller : call'[d].at # "read"
  BY <1>1, <1>3, NoReaders DEF Search!Idle
<1>5. SearchTyped'
  BY <1>1, <1>3 DEF SearchInv, SearchTyped, Scanning
<1>6. ReadersHold' /\ CallsRight' /\ ScanRight'
  BY <1>4 DEF ReadersHold, CallsRight, ScanRight
<1>7. GoneForGood'
  BY <1>1, <1>3 DEF SearchInv, GoneForGood, Search!Idle
<1>8. SealRight' /\ IndexRight'
  <2>1. CASE index = NoIndex
    BY <1>1, <2>1 DEF SearchInv, SealRight, IndexRight
  <2>2. CASE index # NoIndex
    <3>1. \A c \in Caller : call'[c] = call[c]
      BY <1>2, <2>2
    <3>2. Covered
      BY <1>1 DEF Covered
    <3>3. /\ Excused(changed \cup Sealing \cup lost, changed' \cup Sealing' \cup lost')
          /\ Excused(changed \cup lost, changed' \cup lost')
      BY <1>1, <3>1 DEF Excused, Sealing, AtHand
    <3> QED
      BY <1>1, <3>2, <3>3, SealKept, IndexKept
  <2> QED
    BY <2>1, <2>2
<1> QED
  BY <1>5, <1>6, <1>7, <1>8 DEF SearchInv

\* Without an index nothing is out of date, and a reseal under way notices.
LEMMA ClearsKeeps ==
    ASSUME SearchInv, Search!Clears
    PROVE  SearchInv'
<1>1. /\ indexMutex = Free /\ Search!Installs(NoIndex)
      /\ UNCHANGED <<tables, indexMutex, call, changed, build, lost>>
  BY DEF Search!Clears
<1>2. index' = NoIndex /\ Resealed(seal') /\ Sealing' = Sealing /\ SealRight'
  BY <1>1, InstallsTells
<1>3. build'.at # "read" /\ \A d \in Caller : call'[d].at # "read"
  BY <1>1, NoReaders
<1>4. SearchTyped' /\ GoneForGood'
  BY <1>1, <1>2 DEF SearchInv, SearchTyped, GoneForGood
<1>5. ReadersHold' /\ CallsRight' /\ ScanRight' /\ IndexRight'
  BY <1>2, <1>3 DEF ReadersHold, CallsRight, ScanRight, IndexRight
<1> QED
  BY <1>2, <1>4, <1>5 DEF SearchInv

\* A step of somebody else.
LEMMA SearchStutters ==
    ASSUME SearchInv, UNCHANGED Search!vars
    PROVE  SearchInv'
<1>1. UNCHANGED <<tables, index, indexMutex, call, changed, seal, build, lost>>
  BY DEF Search!vars
<1>2. Covered
  BY <1>1 DEF Covered
<1>3. /\ Excused(changed \cup Sealing \cup lost, changed' \cup Sealing' \cup lost')
      /\ Excused(changed \cup Sealing \cup (lost \ build.lost),
                 changed' \cup Sealing' \cup (lost' \ build'.lost))
      /\ Excused(changed \cup lost, changed' \cup lost')
  BY <1>1 DEF Excused, Sealing, AtHand
<1>4. SearchTyped' /\ ReadersHold' /\ GoneForGood'
  BY <1>1 DEF SearchInv, SearchTyped, ReadersHold, GoneForGood
<1>5. CallsRight'
  BY <1>1, <1>2, <1>3, CallKept DEF CallsRight
<1>6. SealRight' /\ ScanRight' /\ IndexRight'
  BY <1>1, <1>2, <1>3, SealKept, ScanKept, IndexKept
<1> QED
  BY <1>4, <1>5, <1>6 DEF SearchInv

\* A set of films can be brought into an order.
LEMMA OrderExists ==
    ASSUME NEW S \in SUBSET Item
    PROVE  Search!SetToSeq(S) \in Search!SetToSeqs(S)
<1> DEFINE N == Cardinality(S)
           order == Search!SetToSeq(S)
<1>1. IsFiniteSet(S) /\ Search!Cardinality(S) = N
  BY SearchAssumption, FS_Subset, Counted
<1>2. PICK f \in Bijection(1 .. N, S) : TRUE
  BY <1>1, FS_CardinalityType DEF ExistsBijection
<1> HIDE DEF N
<1>3. f \in [1 .. N -> S] /\ \A i, j \in 1 .. N : f[i] = f[j] => i = j
  BY <1>2 DEF Bijection, Injection, IsInjective
<1>4. f \in [1 .. N -> S] /\ Search!IsInjective(f)
  BY <1>3 DEF Search!IsInjective
<1>5. order = CHOOSE g \in [1 .. N -> S] : Search!IsInjective(g)
  BY <1>1 DEF Search!SetToSeq
<1>6. order \in [1 .. N -> S] /\ Search!IsInjective(order)
  <2> HIDE DEF order
  <2> QED
    BY <1>4, <1>5
<1> HIDE DEF order
<1>7. \A i, j \in 1 .. N : i # j => order[i] # order[j]
  BY <1>6 DEF Search!IsInjective
<1>8. order \in Search!SetToSeqs(S)
  BY <1>1, <1>6, <1>7 DEF Search!SetToSeqs
<1> QED
  BY <1>8 DEF order

\* At the start the index is a scan of the tables.
LEMMA SearchStarts == Search!Init => SearchInv
<1> SUFFICES ASSUME Search!Init PROVE SearchInv
  OBVIOUS
<1> DEFINE order == Search!SetToSeq(Search!Listed)
           rows == Search!Rows(Item)
           items == Search!AsItems(rows, order)
<1>1. /\ tables \in [Item -> Meta \cup {New, Gone}]
      /\ changed = {} /\ lost = {} /\ call = [c \in Caller |-> Search!Idle]
      /\ seal = Search!Idle /\ build = Search!Idle
      /\ index = Search!Sealed(Search!AsItems(tables, order))
  BY SearchAssumption DEF Search!Init
<1>2. \A c \in Caller : call[c] = Search!Idle
  BY <1>1
<1>3. SearchTyped
  BY <1>1, <1>2 DEF SearchTyped, Calling, Resealed, Scanning
<1>4. Rowset(rows) /\ \A m \in Item : Right(rows, m)
  BY <1>3, RowsRight
<1>5. DOMAIN rows = Search!Listed /\ \A m \in Search!Listed : rows[m] = tables[m]
  BY DEF Search!Rows, Search!Listed
<1>6. order \in Search!SetToSeqs(Search!Listed)
  BY OrderExists DEF Search!Listed
<1> HIDE DEF order, rows
<1>7. Search!AsItems(tables, order) = items
  <2>1. PICK n \in Nat : order \in [1 .. n -> Search!Listed]
    BY <1>6, OrderIs DEF Search!Listed
  <2>2. DOMAIN order = 1 .. n /\ \A k \in 1 .. n : rows[order[k]] = tables[order[k]]
    BY <1>5, <2>1
  <2> QED
    BY <2>2 DEF Search!AsItems
<1>8. Listing(items) /\ Says(items) = rows
  BY <1>4, <1>5, <1>6, AsItemsIs
<1> HIDE DEF items
<1>9. Whole(index) /\ Content(index) = rows
  BY <1>1, <1>7, <1>8, SealedIs
<1>10. ReadersHold /\ GoneForGood /\ CallsRight /\ SealRight /\ ScanRight
  BY <1>1, <1>2
     DEF ReadersHold, GoneForGood, CallsRight, SealRight, ScanRight, Search!Idle
<1>11. IndexRight
  BY <1>4, <1>9 DEF IndexRight
<1> QED
  BY <1>3, <1>10, <1>11 DEF SearchInv

\* Every step of the search index keeps the invariant.
LEMMA SearchStep == SearchInv /\ [Search!Next]_Search!vars => SearchInv'
<1> SUFFICES ASSUME SearchInv, [Search!Next]_Search!vars PROVE SearchInv'
  OBVIOUS
<1>1. CASE UNCHANGED Search!vars
  BY <1>1, SearchStutters
<1>2. ASSUME NEW c \in Caller, Search!CallSteps(c) PROVE SearchInv'
  <2>1. CASE \E some \in Batch : Search!Edits(c, some) \/ Search!Deletes(c, some)
    BY <2>1, ChangesKeep
  <2>2. CASE Search!UpsertReads(c)
    BY <2>2, UpsertReadsKeeps
  <2>3. CASE Search!UpsertStores(c)
    BY <2>3, UpsertStoresKeeps
  <2>4. CASE Search!UpsertFails(c)
    BY <2>4, UpsertFailsKeeps
  <2>5. CASE Search!Removes(c)
    BY <2>5, RemovesKeeps
  <2> QED
    BY <1>2, <2>1, <2>2, <2>3, <2>4, <2>5 DEF Search!CallSteps
<1>3. ASSUME NEW some \in Batch, Search!Collects(some) PROVE SearchInv'
  BY <1>3, ChangesKeep
<1>4. CASE Search!Reseal
  BY <1>4, ResealKeeps, ResealReadsPlaysKeeps, ResealStoresKeeps DEF Search!Reseal
<1>5. CASE Search!BuildReads
  BY <1>5, BuildReadsKeeps
<1>6. CASE Search!BuildStores
  BY <1>6, BuildStoresKeeps
<1>7. CASE Search!BuildFails
  BY <1>7, BuildFailsKeeps
<1>8. CASE Search!Clears
  BY <1>8, ClearsKeeps
<1> QED
  BY <1>1, <1>2, <1>3, <1>4, <1>5, <1>6, <1>7, <1>8 DEF Search!Next

\* A film that nobody has at hand is in the index as it is in the tables, and
\* a search goes by what is there, however calls, reseals and scans overlap.
THEOREM IndexFreshHolds == Search!Spec => []IndexFresh
<1>1. SearchInv /\ [Search!Next]_Search!vars => SearchInv'
  BY SearchStep
<1>2. Search!Init => SearchInv
  BY SearchStarts
<1>3. SearchInv => IndexFresh
  BY SearchEnough
<1> QED
  BY <1>1, <1>2, <1>3, PTL DEF Search!Spec

-----------------------------------------------------------------------------
(* The index agrees with its list at every step.                            *)

\* Everything that is read can be compared, and so the index that is made of
\* it agrees.
IndexAgreeing == index # NoIndex => Dated(Content(index)) /\ Agreeing(index)
ReadsDated ==
    /\ \A c \in Caller : call[c].at = "read" => Dated(call[c].rows)
    /\ seal.at # "idle" => Dated(seal.rows)
    /\ build.at = "read" => Dated(build.rows)
CallsTyped ==
    /\ indexMutex \in Caller \cup {"build", Free}
    /\ \A c \in Caller : call[c] # Search!Idle => call[c].mids \in Batch

AgreeInv == SearchInv /\ CallsTyped /\ ReadsDated /\ IndexAgreeing

\* What is read of the tables can be compared, and still when the playlists are
\* read later.
LEMMA RowsDated ==
    ASSUME SearchTyped, NEW some \in SUBSET Item
    PROVE  Dated(Search!Rows(some))
<1>1. \A x \in Meta : Stamped(x)
  BY SearchAssumption DEF Stamped
<1> QED
  BY <1>1 DEF Search!Rows, Search!Listed, Dated

LEMMA PlaysDated ==
    ASSUME NEW rows, Dated(rows)
    PROVE  Dated(Search!WithPlays(rows))
<1>1. ASSUME NEW x, Stamped(x), NEW p PROVE Stamped([x EXCEPT !.plays = p])
  <2>1. x = [src |-> x.src, plays |-> x.plays, cat |-> x.cat,
             root |-> x.root, title |-> x.title, stamp |-> x.stamp]
    BY <1>1 DEF Stamped
  <2>2. [x EXCEPT !.plays = p] = [src |-> x.src, plays |-> p, cat |-> x.cat,
             root |-> x.root, title |-> x.title, stamp |-> x.stamp]
    BY <2>1
  <2> QED
    BY <1>1, <2>2 DEF Stamped
<1> QED
  BY <1>1 DEF Search!WithPlays, Dated

\* A scan, and a list from which some films have gone.
LEMMA ScanAgrees ==
    ASSUME NEW rows, Rowset(rows), Dated(rows),
           NEW order \in Search!SetToSeqs(DOMAIN rows),
           NEW new, new = Search!Sealed(Search!AsItems(rows, order))
    PROVE  Dated(Content(new)) /\ Agreeing(new)
<1> DEFINE items == Search!AsItems(rows, order)
<1>1. Listing(items) /\ Says(items) = rows
  BY AsItemsIs
<1> HIDE DEF items
<1> QED
  BY <1>1, SealedIs, SealedAgrees DEF items

LEMMA RestAgrees ==
    ASSUME NEW idx, Whole(idx), Dated(Content(idx)), NEW gone,
           NEW new, new = Search!Sealed(Search!Without(idx.items, gone))
    PROVE  Dated(Content(new)) /\ Agreeing(new)
<1> DEFINE left == Search!Without(idx.items, gone)
<1>1. Listing(idx.items) /\ Content(idx) = Says(idx.items)
  BY ContentIs DEF Whole
<1>2. /\ Listing(left)
      /\ Says(left) = [m \in DOMAIN Says(idx.items) \ gone |-> Says(idx.items)[m]]
  BY <1>1, WithoutIs
<1> HIDE DEF left
<1>3. Dated(Says(left))
  BY <1>1, <1>2 DEF Dated
<1> QED
  BY <1>2, <1>3, SealedIs, SealedAgrees DEF left

\* A call that goes on, and the others.
LEMMA CallBecomes ==
    ASSUME SearchTyped, NEW c \in Caller, NEW r, call' = [call EXCEPT ![c] = r]
    PROVE  call'[c] = r /\ \A d \in Caller \ {c} : call'[d] = call[d]
BY DEF SearchTyped

\* The steps that put another index in the place of the one there is.
LEMMA IndexAgreesOn ==
    ASSUME AgreeInv, [Search!Next]_Search!vars
    PROVE  IndexAgreeing'
<1>1. SearchTyped /\ ReadsDated /\ IndexAgreeing /\ (index # NoIndex => Whole(index))
  BY DEF AgreeInv, SearchInv, IndexRight
<1>2. CASE UNCHANGED index
  <2>1. index' = index
    BY <1>2
  <2>2. Content(index)' = Content(index)
    BY <2>1 DEF Content
  <2>3. Agreeing(index)' <=> Agreeing(index)
    BY <2>1 DEF Agreeing
  <2> QED
    BY <1>1, <2>1, <2>2, <2>3 DEF IndexAgreeing
<1>3. ASSUME \A idx : idx = index' =>
                idx = NoIndex \/ (Dated(Content(idx)) /\ Agreeing(idx))
      PROVE  IndexAgreeing'
  <2> DEFINE idx == index'
  <2>1. idx = NoIndex \/ (Dated(Content(idx)) /\ Agreeing(idx))
    BY <1>3
  <2> QED
    BY <2>1 DEF IndexAgreeing, Agreeing, Content, Dated
<1>4. ASSUME NEW c \in Caller, Search!UpsertStores(c) PROVE IndexAgreeing'
  <2> DEFINE rows == Search!WithPlays(call[c].rows)
  <2>1. index # NoIndex /\ call[c].at = "read" /\ index' \in
           Search!Results(index, call[c].mids, rows)
    BY <1>4 DEF Search!UpsertStores, Search!Installs
  <2>2. Rowset(call[c].rows) /\ DOMAIN call[c].rows \subseteq call[c].mids
           /\ Dated(call[c].rows)
    BY <1>1, <2>1 DEF SearchTyped, Calling, ReadsDated, Search!Idle
  <2>3. Rowset(rows) /\ DOMAIN rows = DOMAIN call[c].rows /\ Dated(rows)
    BY <1>1, <2>2, PlaysRight, PlaysDated
  <2> HIDE DEF rows
  <2> QED
    BY <1>1, <1>3, <2>1, <2>2, <2>3, ResultsAgree DEF IndexAgreeing
<1>5. ASSUME NEW c \in Caller, Search!Removes(c) PROVE IndexAgreeing'
  <2>1. CASE index' = index
    BY <1>2, <2>1
  <2>2. CASE index' # index
    <3>1. index # NoIndex /\ index' = Search!Sealed(
             Search!Without(index.items, call[c].mids))
      BY <1>5, <2>2 DEF Search!Removes, Search!Installs
    <3> QED
      BY <1>1, <1>3, <3>1, RestAgrees DEF IndexAgreeing
  <2> QED
    BY <2>1, <2>2
<1>6. CASE Search!ResealStores
  <2>1. index # NoIndex /\ seal.at = "ready"
           /\ index' \in Search!Results(index, seal.mids, seal.rows)
    BY <1>6 DEF Search!ResealStores
  <2>2. Rowset(seal.rows) /\ DOMAIN seal.rows \subseteq seal.mids /\ Dated(seal.rows)
    BY <1>1, <2>1 DEF SearchTyped, Resealed, ReadsDated, Search!Idle
  <2> QED
    BY <1>1, <1>3, <2>1, <2>2, ResultsAgree DEF IndexAgreeing
<1>7. CASE Search!BuildStores
  <2> DEFINE rows == Search!WithPlays(build.rows)
  <2>1. build.at = "read" /\ \E order \in Search!SetToSeqs(DOMAIN build.rows) :
           index' = Search!Sealed(Search!AsItems(rows, order))
    BY <1>7 DEF Search!BuildStores, Search!Installs
  <2>2. Rowset(build.rows) /\ Dated(build.rows)
    BY <1>1, <2>1 DEF SearchTyped, Scanning, ReadsDated, Search!Idle
  <2>3. Rowset(rows) /\ DOMAIN rows = DOMAIN build.rows /\ Dated(rows)
    BY <1>1, <2>2, PlaysRight, PlaysDated
  <2> HIDE DEF rows
  <2> QED
    BY <1>3, <2>1, <2>3, ScanAgrees
<1>8. CASE Search!Clears
  BY <1>3, <1>8 DEF Search!Clears, Search!Installs
<1>9. CASE UNCHANGED Search!vars
  BY <1>2, <1>9 DEF Search!vars
<1>10. ASSUME NEW c \in Caller, Search!CallSteps(c) PROVE IndexAgreeing'
  BY <1>2, <1>4, <1>5, <1>10
     DEF Search!CallSteps, Search!Edits, Search!Deletes, Search!UpsertReads,
         Search!UpsertFails
<1>11. ASSUME NEW some \in Batch, Search!Collects(some) PROVE IndexAgreeing'
  BY <1>2, <1>11 DEF Search!Collects
<1>12. CASE Search!Reseal
  BY <1>2, <1>6, <1>12
     DEF Search!Reseal, Search!ResealReads, Search!ResealReadsPlays,
         Search!ResealRereads, Search!ResealGivesUp
<1>13. CASE Search!BuildReads \/ Search!BuildFails
  BY <1>2, <1>13 DEF Search!BuildReads, Search!BuildFails
<1> QED
  BY <1>7, <1>8, <1>9, <1>10, <1>11, <1>12, <1>13 DEF Search!Next

\* Whoever reads reads what can be compared.
LEMMA ReadsStayDated ==
    ASSUME AgreeInv, [Search!Next]_Search!vars
    PROVE  ReadsDated'
<1>1. /\ SearchTyped /\ ReadsDated /\ IndexAgreeing /\ (index # NoIndex => Whole(index))
      /\ \A c \in Caller : call[c] # Search!Idle => call[c].mids \subseteq Item
  BY DEF AgreeInv, SearchInv, IndexRight, SearchTyped, Calling
<1> DEFINE CallsDated == \A c \in Caller : call[c].at = "read" => Dated(call[c].rows)
           SealDated == seal.at # "idle" => Dated(seal.rows)
           BuildDated == build.at = "read" => Dated(build.rows)
<1>2. CallsDated /\ SealDated /\ BuildDated
  BY <1>1 DEF ReadsDated
<1>3. CallsDated' /\ SealDated' /\ BuildDated' => ReadsDated'
  BY DEF ReadsDated
<1>4. CASE UNCHANGED Search!vars
  BY <1>2, <1>3, <1>4 DEF Search!vars, Dated
<1>5. ASSUME UNCHANGED call PROVE CallsDated'
  BY <1>2, <1>5 DEF Dated
<1>6. ASSUME UNCHANGED seal PROVE SealDated'
  BY <1>2, <1>6 DEF Dated
<1>7. ASSUME UNCHANGED build PROVE BuildDated'
  BY <1>2, <1>7 DEF Dated
<1>8. ASSUME NEW idx, Search!Installs(idx) PROVE SealDated'
  <2>1. CASE seal.at = "idle"
    BY <1>6, <1>8, <2>1 DEF Search!Installs
  <2>2. CASE seal.at # "idle"
    <3>1. seal' = [seal EXCEPT !.moved = TRUE]
      BY <1>8, <2>2 DEF Search!Installs
    <3>2. seal'.rows = seal.rows
      BY <1>1, <2>2, <3>1 DEF SearchTyped, Resealed, Search!Idle
    <3> QED
      BY <1>2, <2>2, <3>2 DEF Dated
  <2> QED
    BY <2>1, <2>2
<1>9. ASSUME NEW c \in Caller, NEW r, call' = [call EXCEPT ![c] = r],
             r.at = "read" => Dated(r.rows)
      PROVE  CallsDated'
  <2>1. call'[c] = r /\ \A d \in Caller \ {c} : call'[d] = call[d]
    BY <1>1, <1>9, CallBecomes
  <2> QED
    BY <1>2, <1>9, <2>1 DEF Dated
<1>10. \A c \in Caller : Search!Idle.at # "read"
  BY DEF Search!Idle
<1>11. ASSUME NEW some \in SUBSET Item, Search!Resealing(some) PROVE SealDated'
  <2>1. seal'.rows = Search!Rows(some)
    BY <1>11 DEF Search!Resealing
  <2> QED
    BY <1>1, <2>1, RowsDated DEF Dated
<1> HIDE DEF CallsDated, SealDated, BuildDated
<1>12. ASSUME NEW c \in Caller, Search!CallSteps(c) PROVE ReadsDated'
  <2>1. ASSUME NEW some \in Batch, Search!Edits(c, some) \/ Search!Deletes(c, some)
        PROVE  ReadsDated'
    <3>1. PICK r \in {[at |-> "upsert", mids |-> some],
                      [at |-> "remove", mids |-> some]} :
             call' = [call EXCEPT ![c] = r]
      BY <2>1 DEF Search!Edits, Search!Deletes
    <3>2. CallsDated'
      BY <1>9, <3>1
    <3> QED
      BY <1>3, <1>6, <1>7, <2>1, <3>2 DEF Search!Edits, Search!Deletes
  <2>2. CASE Search!UpsertReads(c)
    <3> DEFINE r == [at |-> "read", mids |-> call[c].mids,
                     rows |-> Search!Rows(call[c].mids)]
    <3>1. call' = [call EXCEPT ![c] = r] /\ call[c] # Search!Idle
      BY <2>2 DEF Search!UpsertReads, Search!Idle
    <3>2. Dated(r.rows)
      BY <1>1, <3>1, RowsDated
    <3> HIDE DEF r
    <3>3. CallsDated'
      BY <1>9, <3>1, <3>2
    <3> QED
      BY <1>3, <1>6, <1>7, <2>2, <3>3 DEF Search!UpsertReads
  <2>3. CASE Search!UpsertStores(c) \/ Search!UpsertFails(c) \/ Search!Removes(c)
    <3>1. call' = [call EXCEPT ![c] = Search!Idle] /\ UNCHANGED build
      BY <2>3 DEF Search!UpsertStores, Search!UpsertFails, Search!Removes
    <3>2. CallsDated'
      BY <1>9, <1>10, <3>1
    <3>3. UNCHANGED seal \/ \E idx : Search!Installs(idx)
      BY <2>3 DEF Search!UpsertStores, Search!UpsertFails, Search!Removes
    <3> QED
      BY <1>3, <1>6, <1>7, <1>8, <3>1, <3>2, <3>3
  <2> QED
    BY <1>12, <2>1, <2>2, <2>3 DEF Search!CallSteps
<1>13. ASSUME NEW some \in Batch, Search!Collects(some) PROVE ReadsDated'
  BY <1>3, <1>5, <1>6, <1>7, <1>13 DEF Search!Collects
<1>14. CASE Search!ResealReads
  <2>1. SealDated'
    <3>1. changed \in SUBSET Item
      BY <1>1 DEF SearchTyped
    <3> QED
      BY <1>6, <1>11, <1>14, <3>1 DEF Search!ResealReads
  <2>2. BuildDated'
    <3>1. CASE UNCHANGED build
      BY <1>7, <3>1
    <3>2. CASE build' = [build EXCEPT !.lost = @ \ changed] /\ build # Search!Idle
      <4>1. build'.rows = build.rows /\ build.at = "read"
        BY <1>1, <3>2 DEF SearchTyped, Scanning
      <4> QED
        BY <1>2, <4>1 DEF BuildDated, Dated
    <3> QED
      BY <1>14, <3>1, <3>2 DEF Search!ResealReads, Search!LeftToScan
  <2> QED
    BY <1>3, <1>5, <1>14, <2>1, <2>2 DEF Search!ResealReads
<1>15. CASE Search!ResealReadsPlays
  <2>1. seal.at # "idle" /\ seal'.rows = Search!WithPlays(seal.rows)
    BY <1>1, <1>15 DEF Search!ResealReadsPlays, SearchTyped, Resealed, Search!Idle
  <2>2. Dated(Search!WithPlays(seal.rows))
    BY <1>2, <2>1, PlaysDated DEF SealDated
  <2>3. SealDated'
    BY <2>1, <2>2 DEF SealDated, Dated
  <2> QED
    BY <1>3, <1>5, <1>7, <1>15, <2>3 DEF Search!ResealReadsPlays
<1>16. CASE Search!ResealStores
  <2>1. SealDated'
    BY <1>16 DEF Search!ResealStores, Search!Idle, SealDated
  <2> QED
    BY <1>3, <1>5, <1>7, <1>16, <2>1 DEF Search!ResealStores
<1>17. CASE Search!ResealRereads
  <2>1. seal.mids \in SUBSET Item
    BY <1>1, <1>17 DEF Search!ResealRereads, SearchTyped, Resealed, Search!Idle
  <2>2. SealDated'
    BY <1>11, <1>17, <2>1 DEF Search!ResealRereads
  <2> QED
    BY <1>3, <1>5, <1>7, <1>17, <2>2 DEF Search!ResealRereads
<1>18. CASE Search!ResealGivesUp
  <2>1. SealDated'
    BY <1>18 DEF Search!ResealGivesUp, Search!Idle, SealDated
  <2>2. BuildDated'
    <3>1. CASE UNCHANGED build
      BY <1>7, <3>1
    <3>2. CASE build' = [build EXCEPT !.lost = @ \ seal.mids] /\ build # Search!Idle
      <4>1. build'.rows = build.rows /\ build.at = "read"
        BY <1>1, <3>2 DEF SearchTyped, Scanning
      <4> QED
        BY <1>2, <4>1 DEF BuildDated, Dated
    <3> QED
      BY <1>18, <3>1, <3>2 DEF Search!ResealGivesUp, Search!LeftToScan
  <2> QED
    BY <1>3, <1>5, <1>18, <2>1, <2>2 DEF Search!ResealGivesUp
<1>19. CASE Search!BuildReads
  <2>1. build'.rows = Search!Rows(Item)
    BY <1>19 DEF Search!BuildReads
  <2>2. BuildDated'
    BY <1>1, <2>1, RowsDated DEF BuildDated, Dated
  <2> QED
    BY <1>3, <1>5, <1>6, <1>19, <2>2 DEF Search!BuildReads
<1>20. CASE Search!BuildStores
  <2>1. BuildDated'
    BY <1>20 DEF Search!BuildStores, Search!Idle, BuildDated
  <2>2. \E idx : Search!Installs(idx)
    BY <1>20 DEF Search!BuildStores
  <2> QED
    BY <1>3, <1>5, <1>8, <1>20, <2>1, <2>2 DEF Search!BuildStores
<1>21. CASE Search!BuildFails
  <2>1. \A c \in Caller : call'[c] = Search!Idle \/ call'[c] = call[c]
    BY <1>21 DEF Search!BuildFails
  <2>2. CallsDated'
    BY <1>2, <1>10, <2>1 DEF CallsDated, Dated
  <2>3. BuildDated'
    BY <1>21 DEF Search!BuildFails, Search!Idle, BuildDated
  <2> QED
    BY <1>3, <1>6, <1>21, <2>2, <2>3 DEF Search!BuildFails
<1>22. CASE Search!Clears
  BY <1>3, <1>5, <1>7, <1>8, <1>22 DEF Search!Clears
<1>23. CASE Search!Reseal
  BY <1>14, <1>15, <1>16, <1>17, <1>18, <1>23 DEF Search!Reseal
<1> QED
  BY <1>4, <1>12, <1>13, <1>19, <1>20, <1>21, <1>22, <1>23 DEF Search!Next

\* Calls are about the films of one change, and the mutex is somebody's.
LEMMA CallsStayTyped ==
    ASSUME AgreeInv, [Search!Next]_Search!vars
    PROVE  CallsTyped'
<1>1. SearchTyped /\ CallsTyped
  BY DEF AgreeInv, SearchInv
<1>2. ASSUME UNCHANGED <<call, indexMutex>> PROVE CallsTyped'
  BY <1>1, <1>2 DEF CallsTyped
<1>3. ASSUME NEW c \in Caller, NEW r, call' = [call EXCEPT ![c] = r],
             r # Search!Idle => r.mids \in Batch,
             indexMutex' \in Caller \cup {"build", Free}
      PROVE  CallsTyped'
  <2>1. call'[c] = r /\ \A d \in Caller \ {c} : call'[d] = call[d]
    BY <1>1, <1>3, CallBecomes
  <2> QED
    BY <1>1, <1>3, <2>1 DEF CallsTyped
<1>4. indexMutex \in Caller \cup {"build", Free}
  BY <1>1 DEF CallsTyped
<1>5. ASSUME NEW c \in Caller, Search!CallSteps(c) PROVE CallsTyped'
  <2>1. ASSUME NEW some \in Batch, Search!Edits(c, some) \/ Search!Deletes(c, some)
        PROVE  CallsTyped'
    <3>1. PICK r \in {[at |-> "upsert", mids |-> some],
                      [at |-> "remove", mids |-> some]} :
             call' = [call EXCEPT ![c] = r]
      BY <2>1 DEF Search!Edits, Search!Deletes
    <3>2. r.mids \in Batch /\ indexMutex' = indexMutex
      BY <2>1, <3>1 DEF Search!Edits, Search!Deletes
    <3> QED
      BY <1>3, <1>4, <3>1, <3>2
  <2>2. CASE Search!UpsertReads(c)
    <3> DEFINE r == [at |-> "read", mids |-> call[c].mids,
                     rows |-> Search!Rows(call[c].mids)]
    <3>1. /\ call' = [call EXCEPT ![c] = r] /\ call[c] # Search!Idle
          /\ indexMutex' = c
      BY <2>2 DEF Search!UpsertReads, Search!Idle
    <3>2. r.mids \in Batch
      BY <1>1, <3>1 DEF CallsTyped
    <3> HIDE DEF r
    <3> QED
      BY <1>3, <3>1, <3>2
  <2>3. CASE Search!UpsertStores(c) \/ Search!UpsertFails(c) \/ Search!Removes(c)
    <3>1. /\ call' = [call EXCEPT ![c] = Search!Idle]
          /\ indexMutex' = Free \/ indexMutex' = indexMutex
      BY <2>3 DEF Search!UpsertStores, Search!UpsertFails, Search!Removes
    <3> QED
      BY <1>3, <1>4, <3>1
  <2> QED
    BY <1>5, <2>1, <2>2, <2>3 DEF Search!CallSteps
<1>6. ASSUME NEW some \in Batch, Search!Collects(some) PROVE CallsTyped'
  BY <1>2, <1>6 DEF Search!Collects
<1>7. CASE Search!Reseal
  BY <1>2, <1>7
     DEF Search!Reseal, Search!ResealReads, Search!ResealReadsPlays,
         Search!ResealStores, Search!ResealRereads, Search!ResealGivesUp
<1>8. CASE Search!BuildReads \/ Search!BuildStores
  <2>1. call' = call /\ indexMutex' \in {"build", Free}
    BY <1>8 DEF Search!BuildReads, Search!BuildStores
  <2> QED
    BY <1>1, <2>1 DEF CallsTyped
<1>9. CASE Search!BuildFails
  <2>1. indexMutex' = Free
          /\ \A c \in Caller : call'[c] = Search!Idle \/ call'[c] = call[c]
    BY <1>9 DEF Search!BuildFails
  <2> QED
    BY <1>1, <2>1 DEF CallsTyped
<1>10. CASE Search!Clears \/ UNCHANGED Search!vars
  BY <1>2, <1>10 DEF Search!Clears, Search!vars
<1> QED
  BY <1>5, <1>6, <1>7, <1>8, <1>9, <1>10 DEF Search!Next

\* At the start the index is a scan of the tables.
LEMMA AgreeStarts == Search!Init => AgreeInv
<1> SUFFICES ASSUME Search!Init PROVE AgreeInv
  OBVIOUS
<1> DEFINE order == Search!SetToSeq(Search!Listed)
           rows == Search!Rows(Item)
           items == Search!AsItems(rows, order)
<1>1. SearchInv /\ SearchTyped
  BY SearchStarts DEF SearchInv
<1>2. /\ call = [c \in Caller |-> Search!Idle] /\ indexMutex = Free
      /\ seal = Search!Idle /\ build = Search!Idle
      /\ index = Search!Sealed(Search!AsItems(tables, order))
  BY DEF Search!Init
<1>3. CallsTyped /\ ReadsDated
  BY <1>2 DEF CallsTyped, ReadsDated, Search!Idle
<1>4. Rowset(rows) /\ Dated(rows)
  BY <1>1, RowsRight, RowsDated
<1>5. DOMAIN rows = Search!Listed /\ \A m \in Search!Listed : rows[m] = tables[m]
  BY DEF Search!Rows, Search!Listed
<1>6. order \in Search!SetToSeqs(Search!Listed)
  BY OrderExists DEF Search!Listed
<1> HIDE DEF order, rows
<1>7. Search!AsItems(tables, order) = items
  <2>1. PICK n \in Nat : order \in [1 .. n -> Search!Listed]
    BY <1>6, OrderIs DEF Search!Listed
  <2>2. DOMAIN order = 1 .. n /\ \A k \in 1 .. n : rows[order[k]] = tables[order[k]]
    BY <1>5, <2>1
  <2> QED
    BY <2>2 DEF Search!AsItems
<1>8. Dated(Content(index)) /\ Agreeing(index)
  BY <1>2, <1>4, <1>5, <1>6, <1>7, ScanAgrees
<1> QED
  BY <1>1, <1>3, <1>8 DEF AgreeInv, IndexAgreeing

\* An index that agrees is what the property asks for.
LEMMA AgreeEnough == ASSUME AgreeInv PROVE IndexAgrees
<1>1. SearchTyped /\ CallsTyped
  BY DEF AgreeInv, SearchInv
<1>2. Search!TypeOK
  <2>1. /\ tables \in [Item -> Meta \cup {New, Gone}]
        /\ indexMutex \in Caller \cup {"build", Free}
        /\ changed \subseteq Item /\ lost \subseteq Item
    BY <1>1 DEF SearchTyped, CallsTyped
  <2>2. \A c \in Caller : /\ call[c].at \in {"idle", "upsert", "read", "remove"}
                          /\ call[c] # Search!Idle => call[c].mids \in Batch
    BY <1>1 DEF SearchTyped, CallsTyped, Calling, Search!Idle
  <2>3. seal.at \in {"idle", "rows", "ready"} /\ build.at \in {"idle", "read"}
    BY <1>1 DEF SearchTyped, Resealed, Scanning, Search!Idle
  <2> QED
    BY <2>1, <2>2, <2>3 DEF Search!TypeOK
<1>3. ASSUME index # NoIndex
      PROVE  /\ Search!NoRepeats(index.items)
             /\ index.pos = Search!Positions(index.items)
             /\ Search!ListsRight(index) /\ Search!CountsRight(index)
  <2> DEFINE items == index.items
  <2>1. Whole(index) /\ Dated(Content(index)) /\ Agreeing(index)
    BY <1>3 DEF AgreeInv, SearchInv, IndexRight, IndexAgreeing
  <2>2. Listing(items) /\ index.pos = Search!Positions(items)
    BY <2>1 DEF Whole
  <2>3. Comparable(items)
    BY <2>1, <2>2, ContentIs, DatedIs
  <2>4. Search!NoRepeats(items)
    BY <2>2 DEF Listing, Search!NoRepeats, Search!IsInjective
  <2>5. Once(index.byUpdate, DOMAIN items) /\ index.byUpdate = Search!ByUpdate(items)
    BY <2>1, <2>2, <2>3, SortedIs DEF Agreeing, Search!ByUpdate
  <2>6. /\ Search!ToSet(index.byUpdate) = DOMAIN items
        /\ index.byUpdate = Search!SortedByRank(items, DOMAIN items)
    BY <2>5, ToSetIs DEF Search!ByUpdate
  <2>7. ASSUME NEW c \in Search!Category
        PROVE  /\ Search!NoRepeats(index.byCategory[c])
               /\ Search!ToSet(index.byCategory[c]) =
                     Search!Has(items, LAMBDA x : x.cat = c)
    <3>1. Once(index.byCategory[c], InCat(items, c))
      BY <2>1 DEF Agreeing
    <3>2. Search!NoRepeats(index.byCategory[c])
      BY <3>1 DEF Once, Search!NoRepeats, Search!IsInjective
    <3>3. Search!ToSet(index.byCategory[c]) = InCat(items, c)
      BY <3>1, ToSetIs
    <3> QED
      BY <3>2, <3>3 DEF InCat, Search!Has
  <2>8. ASSUME NEW k \in Search!PoolKey
        PROVE  /\ Search!NoRepeats(index.pools[k]) /\ Len(index.pools[k]) <= Cap
               /\ \A m \in Search!ToSet(index.pools[k]) :
                     k \in Search!PoolKeys(items[index.pos[m]].meta)
    <3> DEFINE s == index.pools[k]
    <3>1. Fits(s, Shown(items, index.pos, k))
      BY <2>1 DEF Agreeing
    <3> HIDE DEF s
    <3>2. Search!NoRepeats(s) /\ Len(s) <= Cap
      BY <3>1 DEF Fits, Search!NoRepeats, Search!IsInjective
    <3>3. ASSUME NEW m \in Search!ToSet(s) PROVE m \in Shown(items, index.pos, k)
      BY <3>1 DEF Fits, Search!ToSet
    <3> QED
      BY <3>2, <3>3 DEF Shown, s
  <2>9. Search!ListsRight(index)
    BY <2>6, <2>7, <2>8 DEF Search!ListsRight
  <2>10. Search!CountsRight(index)
    BY <2>1, Counted DEF Agreeing, Search!CountsRight, InSource, Search!Has
  <2> QED
    BY <2>2, <2>4, <2>9, <2>10
<1> QED
  BY <1>2, <1>3 DEF IndexAgrees, Search!IndexAgrees

\* However it was patched together, the index has the lists, the pools and the
\* counts of its films.
THEOREM IndexAgreesHolds == Search!Spec => []IndexAgrees
<1>1. AgreeInv /\ [Search!Next]_Search!vars => AgreeInv'
  <2> SUFFICES ASSUME AgreeInv, [Search!Next]_Search!vars PROVE AgreeInv'
    OBVIOUS
  <2>1. SearchInv'
    BY SearchStep DEF AgreeInv
  <2>2. CallsTyped' /\ ReadsDated' /\ IndexAgreeing'
    BY CallsStayTyped, ReadsStayDated, IndexAgreesOn
  <2> QED
    BY <2>1, <2>2 DEF AgreeInv
<1>2. Search!Init => AgreeInv
  BY AgreeStarts
<1>3. AgreeInv => IndexAgrees
  BY AgreeEnough
<1> QED
  BY <1>1, <1>2, <1>3, PTL DEF Search!Spec
=============================================================================
