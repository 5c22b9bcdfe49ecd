----------------------------- MODULE Categories -----------------------------
(***************************************************************************)
(* The categories of the sources (repository/category_*.go): each source   *)
(* has a copy of its site's category tree, a row per site type; a mapping  *)
(* from its types to categories; and the categories themselves, which      *)
(* older versions shared between sources of the same names.                *)
(*                                                                         *)
(* A sync replaces the tree and the mapping of one source in a transaction *)
(* that reads a snapshot first (REPEATABLE READ) and writes later; so does *)
(* the refresh after a rule was changed, for one source after another and  *)
(* from trees it has read before; a page that is written makes sure that   *)
(* its source has a root named "other"; a deletion or a new address clears *)
(* the source.  Each then loads the mapping into memory (mappingState).    *)
(***************************************************************************)
EXTENDS Naturals, FiniteSets, FiniteSetsExt, Functions

CONSTANTS Source,     \* collect sources
          Type,       \* the types sites number their categories by, numbers
          OtherType,  \* OtherSourceTypeID, a type no site uses
          Site,       \* the trees a site may answer with, not empty
          Caller,     \* goroutines
          MaxCat,     \* bound: categories created
          Requests    \* bound: operations started

VARIABLES
    tree,      \* source_category: tree[s][t] for the types of source s
    mapping,   \* category_mapping: mapping[s][t], a category id
    category,  \* film_category: category[c] for the categories there are
    nextCat,   \* the next category id
    memory,    \* mappingState: the tree and the mapping as last loaded
    mutex,     \* otherCategoryMu: the goroutine that holds it, if any
    caller,    \* what each goroutine does
    requests,  \* how many operations have been started
    raced      \* history: sources where a transaction wrote from a tree or a
               \* mapping that another had replaced meanwhile

vars == <<tree, mapping, category, nextCat, memory, mutex, caller, requests,
          raced>>
tables == <<tree, mapping, category, nextCat, raced>>

AnyType == Type \cup {OtherType}
Cat == 1 .. MaxCat
Unheld == "nobody"
Legacy == <<"legacy", 0>>
Idle == [at |-> "idle"]

\* A table with row x set to y.
With(f, x, y) == [z \in DOMAIN f \cup {x} |-> IF z = x THEN y ELSE f[z]]

Node(parent, name) == [parent |-> parent, name |-> name]
Nodes == [parent : AnyType \cup {0}, name : {"own", "other"}]
OtherRoots(nodes) ==
    {t \in DOMAIN nodes : nodes[t] = Node(0, "other")}

Row(pid, key, show) == [pid |-> pid, key |-> key, show |-> show]

TypeOK ==
    /\ \A s \in Source :
           /\ DOMAIN tree[s] \subseteq AnyType
           /\ \A t \in DOMAIN tree[s] : tree[s][t] \in Nodes
           /\ DOMAIN mapping[s] \subseteq AnyType
           /\ Range(mapping[s]) \subseteq Cat
    /\ DOMAIN category \subseteq Cat
    /\ \A c \in DOMAIN category :
           category[c] \in [pid : Cat \cup {0}, show : BOOLEAN,
                            key : {Legacy} \cup (Source \X AnyType)]
    /\ nextCat \in 1 .. MaxCat + 1
    /\ mutex \in Caller \cup {Unheld}
    /\ requests \in 0 .. Requests
    /\ raced \subseteq Source

\* A new library; or one of an older version, where all sources shared one
\* category for their first types.
Init ==
    /\ \E old \in BOOLEAN, nodes \in Site :
           /\ tree = [s \in Source |-> IF old THEN nodes ELSE <<>>]
           /\ mapping = [s \in Source |->
                  IF old THEN [t \in DOMAIN nodes |-> 1] ELSE <<>>]
           /\ category = IF old THEN [c \in {1} |-> Row(0, Legacy, TRUE)]
                         ELSE <<>>
           /\ nextCat = IF old THEN 2 ELSE 1
    /\ memory = [tree |-> tree, mapping |-> mapping]
    /\ mutex = Unheld
    /\ caller = [p \in Caller |-> Idle]
    /\ requests = 0 /\ raced = {}

-----------------------------------------------------------------------------
(* Plans                                                                   *)

Least(types) == IF types \cap Type = {} THEN OtherType
                ELSE Min(types \cap Type)

\* appendOtherCategoryPlan: a root named "other" is always in the plan, the
\* site's, else the one stored before, else a new one.
Planned(site, old) ==
    LET kept == OtherRoots(old) \ DOMAIN site
    IN  IF OtherRoots(site) # {} THEN site
        ELSE IF kept # {} THEN With(site, Least(kept), old[Least(kept)])
        ELSE With(site, OtherType, Node(0, "other"))

\* DiffSourceCategoryTree: types renamed, moved or removed.
Changed(old, plan) ==
    {t \in DOMAIN old : t \in DOMAIN plan => old[t] # plan[t]}

At(p, place) == caller[p].at = place
Becomes(p, state) == caller' = [caller EXCEPT ![p] = state]
Asks == requests < Requests /\ requests' = requests + 1

Snapshot == [tree |-> tree, mapping |-> mapping, category |-> category]

\* The categories the sources other than s are mapped to.
MappedByOthers(read, s) ==
    UNION {Range(read.mapping[u]) : u \in Source \ {s}}

-----------------------------------------------------------------------------
(* A sync: SyncSourceCategories, CollectCategory, ApplyCategoryTree        *)

\* The transactions of one source wait for each other (WithSourceExclusive);
\* those of a refresh do not.
Exclusive(s) ==
    \A p \in Caller : At(p, "tx") /\ caller[p].site = s => caller[p].refresh

\* Without a confirmation a tree with changes is only shown.  A site that
\* answers with nothing where there is a tree is an error.
Syncs(p, s, site, confirmed) ==
    /\ At(p, "idle") /\ Asks
    /\ confirmed \/ Changed(tree[s], Planned(site, tree[s])) = {}
    /\ Becomes(p, [at |-> "exclusive", site |-> s, plan |-> site])
    /\ UNCHANGED <<tables, memory, mutex>>

OpensSync(p) ==
    /\ At(p, "exclusive") /\ Exclusive(caller[p].site)
    /\ Becomes(p, [at |-> "tx", site |-> caller[p].site, refresh |-> FALSE,
                   plan |-> caller[p].plan, read |-> Snapshot])
    /\ UNCHANGED <<tables, memory, mutex, requests>>

-----------------------------------------------------------------------------
(* applyCategoryPlans                                                      *)

\* The types that keep their category: mapped, to one of no other source,
\* and the first of the plan's types that are mapped to it.
Reusable(read, s, plan) ==
    LET own == read.mapping[s]
    IN  {t \in DOMAIN plan \cap DOMAIN own :
             own[t] \notin MappedByOthers(read, s)}

Claims(read, s, plan) ==
    LET own == read.mapping[s]
        first(t, kept) == {u \in kept : own[u] = own[t]} = {t}
    IN  {kept \in SUBSET Reusable(read, s, plan) :
            /\ \A t \in kept : first(t, kept)
            /\ {own[t] : t \in kept}
                   = {own[t] : t \in Reusable(read, s, plan)}
            /\ \A t \in kept : plan[t].parent \in DOMAIN own
                   => own[plan[t].parent] # own[t]}

\* Mutant: stale categories are dropped whoever maps them.
StaleAny(read, s, active) == Range(read.mapping[s]) \ active

\* dropStaleCategoriesTx
Stale(read, s, active) ==
    (Range(read.mapping[s]) \ active) \ MappedByOthers(read, s)

\* Mutant: a category is shown again, as when nothing is to be preserved.
VisibleAgain(c) == TRUE

\* A new category is shown, one that is kept stays as it is.
Visible(c) == c \in DOMAIN category => category[c].show

KeyTaken(s, t, c) ==
    \E other \in DOMAIN category \ {c} : category[other].key = <<s, t>>

\* The categories of a plan's types: the kept ones, else new ones in order.
Ids(read, s, plan, kept) ==
    LET new == DOMAIN plan \ kept
        rank == [t \in new |->
            Cardinality({u \in new : u = t \/ Least({u, t}) = u}) - 1]
    IN  [t \in DOMAIN plan |-> IF t \in kept THEN read.mapping[s][t]
                              ELSE nextCat + rank[t]]

\* What a transaction for source s writes that has read a snapshot: the
\* kept types keep id and visibility, the others get new categories.
Applies(s, plan, read, kept) ==
    LET new == DOMAIN plan \ kept
        id == Ids(read, s, plan, kept)
        typeOf(c) == CHOOSE t \in DOMAIN plan : id[t] = c
        pid(t) == IF plan[t].parent = 0 THEN 0 ELSE id[plan[t].parent]
        ids == {id[t] : t \in DOMAIN plan}
        left == DOMAIN category \ Stale(read, s, ids)
        made == {id[t] : t \in new}
    IN  /\ nextCat + Cardinality(new) <= MaxCat + 1
        /\ {id[t] : t \in kept} \subseteq DOMAIN read.category
        /\ \A t \in DOMAIN plan : ~KeyTaken(s, t, id[t])
        /\ category' = [c \in left \cup made |->
               IF c \in ids
               THEN Row(pid(typeOf(c)), <<s, typeOf(c)>>, Visible(c))
               ELSE category[c]]
        /\ nextCat' = nextCat + Cardinality(new)
        /\ mapping' = [mapping EXCEPT ![s] = id]
        /\ tree' = [tree EXCEPT ![s] = plan]
        /\ raced' = IF <<read.tree[s], read.mapping[s]>>
                           = <<tree[s], mapping[s]>>
                    THEN raced ELSE raced \cup {s}

\* Where a transaction ends, a refresh goes on, and a sync reloads.
Continues(p) ==
    IF caller[p].refresh
    THEN [at |-> "refresh", todo |-> caller[p].todo,
          plans |-> caller[p].plans]
    ELSE [at |-> "load", frees |-> FALSE]

CommitsPlan(p) ==
    /\ At(p, "tx")
    /\ LET r == caller[p]
           plan == Planned(r.plan, r.read.tree[r.site])
       IN  \E kept \in Claims(r.read, r.site, plan) :
               Applies(r.site, plan, r.read, kept)
    /\ Becomes(p, Continues(p))
    /\ UNCHANGED <<memory, mutex, requests>>

\* An error rolls the transaction back: a statement, a mapping to a category
\* that is gone, a key that is taken.  A refresh ends there.
FailsPlan(p) ==
    /\ At(p, "tx")
    /\ Becomes(p, Idle)
    /\ UNCHANGED <<tables, memory, mutex, requests>>

-----------------------------------------------------------------------------
(* A refresh: RefreshFutureCategoryMappingsFromSourceCategories            *)

\* The trees of the enabled sources, read before the first transaction.
Refreshes(p, enabled) ==
    /\ At(p, "idle") /\ Asks
    /\ LET todo == {s \in enabled : tree[s] # <<>>}
       IN  Becomes(p, [at |-> "refresh", todo |-> todo,
                       plans |-> [s \in todo |-> tree[s]]])
    /\ UNCHANGED <<tables, memory, mutex>>

OpensRefresh(p) ==
    /\ At(p, "refresh")
    /\ \E s \in caller[p].todo :
           Becomes(p, [at |-> "tx", site |-> s, refresh |-> TRUE,
                       todo |-> caller[p].todo \ {s},
                       plans |-> caller[p].plans,
                       plan |-> caller[p].plans[s], read |-> Snapshot])
    /\ UNCHANGED <<tables, memory, mutex, requests>>

Mapped == UNION {Range(mapping[s]) : s \in Source}

\* deleteOrphanDisplayRootCategories: roots without children and mapping.
SeesOrphans(p) ==
    /\ At(p, "refresh") /\ caller[p].todo = {}
    /\ Becomes(p, [at |-> "orphans", orphans |->
           {c \in DOMAIN category :
                /\ category[c].pid = 0 /\ c \notin Mapped
                /\ \A d \in DOMAIN category : category[d].pid # c}])
    /\ UNCHANGED <<tables, memory, mutex, requests>>

DropsOrphans(p) ==
    /\ At(p, "orphans")
    /\ category' = Restrict(category, DOMAIN category \ caller[p].orphans)
    /\ Becomes(p, [at |-> "load", frees |-> FALSE])
    /\ UNCHANGED <<tree, mapping, nextCat, raced, memory, mutex, requests>>

-----------------------------------------------------------------------------
(* The root named "other": EnsureOtherCategory, createOtherCategory        *)

\* LookupOtherSourceCategory, from memory.
Known(s) ==
    LET roots == OtherRoots(memory.tree[s])
    IN  roots # {} /\ Least(roots) \in DOMAIN memory.mapping[s]

Ensures(p, s) ==
    /\ At(p, "idle") /\ Asks
    /\ ~Known(s)
    /\ Becomes(p, [at |-> "mutex", site |-> s])
    /\ UNCHANGED <<tables, memory, mutex>>

EntersMutex(p) ==
    /\ At(p, "mutex") /\ mutex = Unheld
    /\ IF Known(caller[p].site)
       THEN Becomes(p, Idle) /\ UNCHANGED mutex
       ELSE /\ mutex' = p
            /\ Becomes(p, [at |-> "create", site |-> caller[p].site,
                           read |-> Snapshot])
    /\ UNCHANGED <<tables, memory, requests>>

\* A root there is keeps its mapping if that leads to a category; else the
\* category with its key, or a new one, is mapped.
CreatesOther(p) ==
    /\ At(p, "create")
    /\ LET s == caller[p].site
           read == caller[p].read
           roots == OtherRoots(read.tree[s])
           t == IF roots = {} THEN OtherType ELSE Least(roots)
           stands == /\ roots # {} /\ t \in DOMAIN read.mapping[s]
                     /\ read.mapping[s][t] \in DOMAIN read.category
           named == {c \in DOMAIN read.category :
                         read.category[c].key = <<s, t>>}
           c == IF named = {} THEN nextCat ELSE CHOOSE d \in named : TRUE
       IN  IF stands THEN UNCHANGED tables
           ELSE /\ named = {} => ~KeyTaken(s, t, c) /\ nextCat <= MaxCat
                /\ roots = {} => t \notin DOMAIN tree[s]
                /\ t \notin DOMAIN read.mapping[s]
                       => t \notin DOMAIN mapping[s]
                /\ category' = IF named # {} THEN category
                               ELSE With(category, c, Row(0, <<s, t>>, TRUE))
                /\ nextCat' = IF named = {} THEN nextCat + 1 ELSE nextCat
                /\ tree' = IF roots = {}
                           THEN [tree EXCEPT ![s] =
                                     With(@, t, Node(0, "other"))]
                           ELSE tree
                /\ mapping' = [mapping EXCEPT ![s] = With(@, t, c)]
                /\ raced' = IF <<read.tree[s], read.mapping[s]>>
                                   = <<tree[s], mapping[s]>>
                            THEN raced ELSE raced \cup {s}
    /\ Becomes(p, [at |-> "load", frees |-> TRUE])
    /\ UNCHANGED <<memory, mutex, requests>>

FailsOther(p) ==
    /\ At(p, "create")
    /\ Becomes(p, Idle) /\ mutex' = Unheld
    /\ UNCHANGED <<tables, memory, requests>>

-----------------------------------------------------------------------------
(* A clearing, an order, a reload                                          *)

Clearable(s) == Range(mapping[s]) \ MappedByOthers(Snapshot, s)

\* ClearSourceCategoryDataTx, within the transaction of a deletion or of a
\* new address.
Clears(p, s) ==
    /\ At(p, "idle") /\ Asks
    /\ category' = Restrict(category, DOMAIN category \ Clearable(s))
    /\ tree' = [tree EXCEPT ![s] = <<>>]
    /\ mapping' = [mapping EXCEPT ![s] = <<>>]
    /\ Becomes(p, [at |-> "load", frees |-> FALSE])
    /\ UNCHANGED <<nextCat, raced, memory, mutex>>

\* SaveSourceCategoryOrder: all categories the source is mapped to must
\* exist; those read are shown or hidden later.
Orders(p, s, c) ==
    /\ At(p, "idle") /\ Asks
    /\ c \in Range(mapping[s])
    /\ Range(mapping[s]) \subseteq DOMAIN category
    /\ Becomes(p, [at |-> "order", shown |-> [d \in Range(mapping[s]) |->
                       IF d = c THEN ~category[d].show ELSE category[d].show]])
    /\ UNCHANGED <<tables, memory, mutex>>

WritesOrder(p) ==
    /\ At(p, "order")
    /\ category' = [c \in DOMAIN category |->
           IF c \in DOMAIN caller[p].shown
           THEN [category[c] EXCEPT !.show = caller[p].shown[c]]
           ELSE category[c]]
    /\ Becomes(p, [at |-> "load", frees |-> FALSE])
    /\ UNCHANGED <<tree, mapping, nextCat, raced, memory, mutex, requests>>

\* ReloadMappingRules reads the mapping, then the trees, and stores both.
Loads(p) ==
    /\ At(p, "load")
    /\ Becomes(p, [at |-> "store", frees |-> caller[p].frees,
                   mapping |-> mapping])
    /\ UNCHANGED <<tables, memory, mutex, requests>>

Stores(p) ==
    /\ At(p, "store")
    /\ memory' = [tree |-> tree, mapping |-> caller[p].mapping]
    /\ mutex' = IF caller[p].frees THEN Unheld ELSE mutex
    /\ Becomes(p, Idle)
    /\ UNCHANGED <<tables, requests>>

-----------------------------------------------------------------------------
Asked(p) ==
    \/ \E s \in Source : Ensures(p, s) \/ Clears(p, s)
    \/ \E s \in Source, c \in Cat : Orders(p, s, c)
    \/ \E s \in Source, site \in Site, confirmed \in BOOLEAN :
           Syncs(p, s, site, confirmed)
    \/ \E enabled \in SUBSET Source : Refreshes(p, enabled)

Works(p) ==
    \/ OpensSync(p) \/ CommitsPlan(p) \/ FailsPlan(p)
    \/ OpensRefresh(p) \/ SeesOrphans(p) \/ DropsOrphans(p)
    \/ EntersMutex(p) \/ CreatesOther(p) \/ FailsOther(p)
    \/ WritesOrder(p) \/ Loads(p) \/ Stores(p)

Next == \E p \in Caller : Asked(p) \/ Works(p)

Spec == Init /\ [][Next]_vars

-----------------------------------------------------------------------------
(* Properties                                                              *)

\* The mapping of a source is in step with its tree, and leads to categories
\* that exist, whatever the other sources do with the categories they once
\* shared with it ("categories other sources still use are kept").
InStep ==
    \A s \in Source \ raced :
        /\ DOMAIN mapping[s] = DOMAIN tree[s]
        /\ Range(mapping[s]) \subseteq DOMAIN category

\* A category that carries a source's key is that source's alone, and stands
\* for the type of the key.
KeysTrue ==
    \A s \in Source, u \in Source : \A t \in DOMAIN mapping[u] :
        LET c == mapping[u][t]
        IN  c \in DOMAIN category /\ category[c].key \in {s} \X AnyType
            => u = s /\ (s \notin raced => category[c].key = <<s, t>>)

CategoriesSound == TypeOK /\ InStep /\ KeysTrue

\* A type that stays keeps the category that carries its key, and what an
\* administrator has hidden stays hidden until the next order.
HiddenStaysHidden ==
    [][\A s \in Source \ raced' :
          \A t \in DOMAIN mapping[s] \cap DOMAIN mapping'[s] :
              LET c == mapping[s][t]
              IN  c \in DOMAIN category /\ category[c].key = <<s, t>>
                  => /\ mapping'[s][t] = c
                     /\ \/ category'[c].show = category[c].show
                        \/ \E p \in Caller : At(p, "order")
                                             /\ caller[p]' # caller[p]]_vars
=============================================================================
