----------------------------- MODULE MCPipeline -----------------------------
(***************************************************************************)
(* What a collect run leaves behind beside the rows: the films on the list *)
(* (module StreamPublish) and in the search index (module SearchIndex),    *)
(* and the time its source was last collected (module CatchUp).  They      *)
(* share no variable, so a behaviour follows the one chosen at its start.  *)
(***************************************************************************)
EXTENDS StreamPublish, TLC

CONSTANTS
    Part,                                                \* the parts followed
    Hour, Requested, MaxHours, Delay, MaxTime, MaxRuns, MaxBreaks,
    MaxClears,                                           \* CatchUp
    Item, Meta, Given, Batch, Cap, Caller, MaxChanges, MaxTroubles,
    New, Gone, NoIndex, Free,                            \* SearchIndex
    film1, film2, main, backup

\* An hour has ticks, the code asks for whole hours, and the clock starts at 1.
ASSUME StatsAssumption ==
    /\ Hour \in Nat \ {0} /\ Requested \in Nat /\ MaxHours \in Nat
    /\ Delay \in Nat /\ MaxTime \in Nat \ {0}

\* Films are numbers, and what the tables say of one is a record; the marks of
\* a film that is not there, of no goroutine and of no index are none of them.
ASSUME SearchAssumption ==
    /\ IsFiniteSet(Item) /\ Item \subseteq Int /\ Cap \in Nat
    /\ Batch \subseteq SUBSET Item /\ Given \subseteq Meta
    /\ New # Gone /\ {New, Gone} \cap Meta = {}
    /\ Free \notin Caller \cup {"build"} /\ "build" \notin Caller
    /\ \A x \in Meta : x = [src |-> x.src, plays |-> x.plays, cat |-> x.cat,
           root |-> x.root, title |-> x.title, stamp |-> x.stamp]
    /\ \A x \in Meta : x.stamp \in Int

VARIABLES
    focus,
    now, collected, anchor, pending, suppressed, turn, breaks, clears, since,
    anchors,                                             \* CatchUp
    tables, index, indexMutex, call, changed, seal, build, lost, changes,
    troubles                                             \* SearchIndex

Stats == INSTANCE CatchUp WITH
    MaxFaults <- MaxBreaks, run <- turn, faults <- breaks

Search == INSTANCE SearchIndex WITH
    Mid <- Item, First <- Given, None <- NoIndex, films <- tables,
    mutex <- indexMutex

statsVars == <<now, collected, anchor, pending, suppressed, turn, breaks,
    clears, since, anchors>>
searchVars == <<tables, index, indexMutex, call, changed, seal, build, lost,
    changes, troubles>>

Films == Permutations({film1, film2})

\* Films of two sources that share titles, categories, and play sources.
Known(src, plays, cat, title, stamp) ==
    [src |-> src, plays |-> plays, cat |-> cat, root |-> "r",
     title |-> title, stamp |-> stamp]
Later == Known("t", {"s", "t"}, "b", {"x", "y"}, 2)
Metas == {Later, Known("s", {"s"}, "a", {"x"}, 1),
          Known("t", {"t"}, "a", {"x"}, 3)}
FirstMetas == {Later}
Batches == {{1}, {1, 2}}

PipelineInit ==
    /\ focus \in Part /\ Init /\ Stats!Init
    /\ IF focus = "search" THEN Search!Init
       ELSE /\ tables = <<>> /\ index = NoIndex /\ indexMutex = Free
            /\ call = <<>> /\ changed = {} /\ seal = <<>> /\ build = <<>>
            /\ lost = {} /\ changes = 0 /\ troubles = 0

PipelineNext ==
    /\ UNCHANGED focus
    /\ \/ focus = "stream" /\ Next /\ UNCHANGED <<statsVars, searchVars>>
       \/ focus = "stats" /\ Stats!Next /\ UNCHANGED <<vars, searchVars>>
       \/ focus = "search" /\ Search!Next /\ UNCHANGED <<vars, statsVars>>

PipelineSpec ==
    PipelineInit /\ [][PipelineNext]_<<focus, vars, statsVars, searchVars>>

\* Whatever runs failed, were restarted or ended together, what a source
\* changed before its last_collect_time is stored.
CatchUpSafe == Stats!CatchUpSafe

\* However it was patched together, the search index has the order and the counts
\* that a scan of the same films would give it, and lists the right films.
IndexAgrees == focus = "search" => Search!IndexAgrees

\* A film that nobody has at hand is in the search index as in the tables, and
\* a search goes by what is in the index.
IndexFresh == focus = "search" => Search!IndexFresh
=============================================================================
