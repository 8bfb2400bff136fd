---------------------------- MODULE SimpleBackend ----------------------------
(***************************************************************************)
(* SimpleBackend over a MemoryTree: writes, version-checked transactions   *)
(* and the synchronous notification of listeners.                          *)
(*                                                                         *)
(* The users are authors, who read nodes and later write what they have    *)
(* computed from them (directly, or as a transaction that states the       *)
(* versions they saw), and listeners, who keep a copy of the nodes they    *)
(* hear about.  A rejected transaction throws before it changes anything   *)
(* and is a stuttering step.                                               *)
(***************************************************************************)
EXTENDS LabelRules, FiniteSets

CONSTANTS
    Labels,             \* label rules nodes and listeners may have
    Names,              \* child names a node may list
    Nothing,            \* fplus::nothing: no node, no version
    MaxVersionSequence, \* max_version_sequence of every node
    Authors,            \* users that write
    Listeners,          \* listener names
    Workload,           \* the kinds of write the authors make
    MaxWrites           \* bound: writes in a behaviour

ASSUME BackendAssumption ==
    /\ Labels \subseteq Seq(Nat)
    /\ MaxVersionSequence \in Nat \ {0}
    /\ Nothing \notin [version : 0..MaxVersionSequence - 1, children : SUBSET Names] \union Nat
    /\ Workload \subseteq {"upsert", "delete", "transact", "create"}
    /\ MaxWrites \in Nat

VARIABLES
    tree,               \* tree_ of the MemoryTree
    listeners,          \* node_listeners_
    heard,              \* per listener: the nodes as the callbacks told them
    seen,               \* per author: the nodes as last read
    bumps,              \* history: rewrites that advanced the version, per label
    resets,             \* history: all other changes, per label
    unannounced,        \* history: nodes a delete took along, not written since
    writes              \* how much of MaxWrites is used up

vars == <<tree, listeners, heard, seen, bumps, resets, unannounced, writes>>

-----------------------------------------------------------------------------
(* Data *)

Versions == 0..MaxVersionSequence - 1
Node == [version : Versions, children : SUBSET Names]
Tree == [Labels -> Node \union {Nothing}]
Listener == [name : Listeners, rule : Labels, children : BOOLEAN]

\* What an author knows of a label: the node, and when it was read.
Reading == [node : Node \union {Nothing}, bumps : Nat, resets : Nat]

\* Mutant: the version counts on past its limit.
VersionUnwrapped(v) == v + 1

\* TreeNodeVersion::operator++.
NextVersion(v) == (v + 1) % MaxVersionSequence

\* NewNodeVersion: the version the author saw, the label, the new node.
Change(old, l, n) == [old |-> old, label |-> l, node |-> n]
\* SubTransaction: the change of the parent and those of its descendants.
SubTransaction(p, cs) == [parent |-> p, children |-> cs]

\* Mutant: only the parents of a transaction.
ParentChanges(tx) == {tx[k].parent : k \in DOMAIN tx}

\* The nodes applyTransaction notifies about, parents and descendants.
Changes(tx) == UNION {{tx[k].parent} \union tx[k].children : k \in DOMAIN tx}

-----------------------------------------------------------------------------
(* MemoryTree *)

AbsoluteChildNames(l, n) == {l \o <<Slash>> \o m : m \in n.children} \intersect Labels

\* Everything deleteNode takes along: the nodes reached through child names.
Descendants(t, l) ==
    LET Closed == {S \in SUBSET Labels :
                     \A m \in S \union {l} :
                        t[m] # Nothing => AbsoluteChildNames(m, t[m]) \subseteq S}
    IN  {m \in Labels : \A S \in Closed : m \in S}

DeleteFrom(t, l) ==
    IF t[l] = Nothing THEN t
    ELSE [m \in Labels |-> IF m = l \/ m \in Descendants(t, l) THEN Nothing
                           ELSE t[m]]

\* Mutant: the versions of the descendants are not compared.
CheckParentOnly(t, sub) ==
    LET p == sub.parent
        now == t[p.label]
    IN  \/ now = Nothing /\ p.old = Nothing
        \/ /\ now # Nothing
           /\ p.old = now.version
           /\ p.node # Nothing
           /\ p.node.version = NextVersion(now.version)

\* An absent parent the author expects to be absent is accepted whatever the
\* descendants are; a present one must have the version seen and be advanced by
\* one, and so must the descendants have the versions seen.
canPerformSubTransaction(t, sub) ==
    LET p == sub.parent
        now == t[p.label]
    IN  \/ now = Nothing /\ p.old = Nothing
        \/ /\ now # Nothing
           /\ p.old = now.version
           /\ p.node # Nothing
           /\ p.node.version = NextVersion(now.version)
           /\ \A ch \in sub.children :
                \/ t[ch.label] = Nothing /\ ch.old = Nothing
                \/ t[ch.label] # Nothing /\ ch.old = Nothing /\ ch.node = Nothing
                \/ t[ch.label] # Nothing /\ ch.old = t[ch.label].version

performSubTransaction(t, sub) ==
    [l \in Labels |->
        IF \E ch \in sub.children : ch.label = l
          THEN (CHOOSE ch \in sub.children : ch.label = l).node
          ELSE IF l = sub.parent.label THEN sub.parent.node ELSE t[l]]

\* Every subtransaction is checked against the tree before the first is applied.
CanApply(t, tx) == \A k \in DOMAIN tx : canPerformSubTransaction(t, tx[k])
\* Mutant: only the first subtransaction is performed.
ApplyFirst(t, tx) == performSubTransaction(t, tx[1])

\* The subtransactions are performed in turn: of those that name a label, the
\* last decides what becomes of it.
Apply(t, tx) ==
    [l \in Labels |->
        LET naming == {k \in DOMAIN tx :
                         l \in {ch.label : ch \in {tx[k].parent} \union tx[k].children}}
        IN  IF naming = {} THEN t[l] ELSE performSubTransaction(t, tx[Max(naming)])[l]]

-----------------------------------------------------------------------------
(* Listeners *)

\* The comparisons of the labels, tabulated.
VisitedFor == [keys \in SUBSET Labels |-> [l \in Labels |-> Visited(keys, l)]]
Overlaps == [l \in Labels |-> [rule \in Labels |-> checkLabelRuleOverlap(l, rule)]]

\* The listeners whose callback notifyListeners(l, ...) runs.
Notified(l) ==
    {x \in listeners :
        /\ x.rule \in VisitedFor[{y.rule : y \in listeners}][l]
        /\ \/ x.rule = l
           \/ x.children /\ Overlaps[l][x.rule]}

\* The callbacks for a set of labels, run after the tree has become t.
HeardAfter(ls, t) ==
    [x \in Listeners |-> [l \in Labels |->
        IF l \in ls /\ (\E y \in Notified(l) : y.name = x) THEN t[l]
        ELSE heard[x][l]]]

Increment(count, ls) ==
    [l \in Labels |-> IF l \in ls THEN count[l] + 1 ELSE count[l]]

-----------------------------------------------------------------------------
(* Operations *)

Init ==
    /\ tree \in [Labels -> {Nothing} \union [version : {0}, children : SUBSET Names]]
    /\ listeners = {}
    /\ heard = [x \in Listeners |-> tree]
    /\ seen = [a \in Authors |->
                 [l \in Labels |-> [node |-> Nothing, bumps |-> 0, resets |-> 0]]]
    /\ bumps = [l \in Labels |-> 0]
    /\ resets = [l \in Labels |-> IF tree[l] = Nothing THEN 0 ELSE 1]
    /\ unannounced = {}
    /\ writes = 0

\* An author reads a node with getNode.
Read(a, l) ==
    /\ seen' = [seen EXCEPT ![a][l] =
                  [node |-> tree[l], bumps |-> bumps[l], resets |-> resets[l]]]
    /\ UNCHANGED <<tree, listeners, heard, bumps, resets, unannounced, writes>>

Write(kind) ==
    /\ kind \in Workload
    /\ writes < MaxWrites
    /\ writes' = writes + 1

\* upsertNode with a vector of nodes, here one for each label of new.
UpsertNode(ls, n) ==
    /\ Write("upsert")
    /\ tree' = [l \in Labels |-> IF l \in ls THEN n ELSE tree[l]]
    /\ heard' = HeardAfter(ls, tree')
    /\ resets' = Increment(resets, ls)
    /\ unannounced' = unannounced \ ls
    /\ UNCHANGED <<listeners, seen, bumps>>

DeleteNode(l) ==
    /\ Write("delete")
    /\ tree' = DeleteFrom(tree, l)
    /\ heard' = HeardAfter({l}, tree')
    /\ LET removed == {m \in Labels : tree'[m] # tree[m]}
       IN  /\ resets' = Increment(resets, removed)
           /\ unannounced' = (unannounced \union removed) \ {l}
    /\ UNCHANGED <<listeners, seen, bumps>>

ApplyTransaction(tx) ==
    /\ CanApply(tree, tx)
    /\ tree' = Apply(tree, tx)
    /\ heard' = HeardAfter({ch.label : ch \in Changes(tx)}, tree')
    /\ LET changed == {ch.label : ch \in Changes(tx)}
           advanced == {l \in changed :
                          /\ tree[l] # Nothing /\ tree'[l] # Nothing
                          /\ tree'[l].version = NextVersion(tree[l].version)}
       IN  /\ bumps' = Increment(bumps, advanced)
           /\ resets' = Increment(resets, changed \ advanced)
           /\ unannounced' = unannounced \ changed
    /\ UNCHANGED <<listeners, seen>>

\* registerNodeListener replaces the listener of that name and rule; its owner
\* starts from what the backend holds.
RegisterNodeListener(x) ==
    /\ listeners' =
         {y \in listeners : y.name # x.name \/ y.rule # x.rule} \union {x}
    /\ heard' = [heard EXCEPT ![x.name] = tree]
    /\ UNCHANGED <<tree, seen, bumps, resets, unannounced, writes>>

DeregisterNodeListener(name, rule) ==
    /\ \E y \in listeners : y.name = name /\ y.rule = rule
    /\ listeners' = {y \in listeners : y.name # name \/ y.rule # rule}
    /\ UNCHANGED <<tree, heard, seen, bumps, resets, unannounced, writes>>

-----------------------------------------------------------------------------
(* The transactions authors build from what they have read: they advance the *)
(* version of every node they rewrite.                                       *)

OldVersion(a, l) ==
    LET n == seen[a][l].node IN IF n = Nothing THEN Nothing ELSE n.version

Advance(a, l) ==
    LET n == seen[a][l].node
    IN  IF n = Nothing
          THEN Change(Nothing, l, [version |-> 0, children |-> {}])
          ELSE Change(n.version, l, [n EXCEPT !.version = NextVersion(@)])

Erase(a, l) == Change(OldVersion(a, l), l, Nothing)

\* Kind "create": the author adds a parent together with changes of other nodes.
Kind(sub) ==
    IF sub.parent.old = Nothing /\ sub.children # {} THEN "create" ELSE "transact"

\* What the author may ask for: a parent, and other nodes to rewrite or erase.
Plans == [Labels -> {"rewrite", "erase", "leave"}]

Request(a, p, plan) ==
    LET ChangeOf(l) == IF plan[l] = "rewrite" THEN Advance(a, l) ELSE Erase(a, l)
    IN  SubTransaction(ChangeOf(p),
            {ChangeOf(l) : l \in {m \in Labels \ {p} : plan[m] # "leave"}})

Transact(a) ==
    \E p \in Labels, plan \in Plans :
        LET sub == Request(a, p, plan)
        IN  /\ plan[p] # "leave"
            /\ Write(Kind(sub))
            /\ \/ ApplyTransaction(<<sub>>)
               \/ \E q \in Labels \ {p} :
                    ApplyTransaction(<<sub, SubTransaction(Advance(a, q), {})>>)

Next ==
    \/ \E a \in Authors :
         \/ \E l \in Labels : Read(a, l)
         \/ Transact(a)
    \/ \E ls \in SUBSET Labels : \E n \in Node :
         Cardinality(ls) \in 1..2 /\ UpsertNode(ls, n)
    \/ \E l \in Labels : DeleteNode(l)
    \/ \E x \in Listener : RegisterNodeListener(x)
    \/ \E x \in Listeners, l \in Labels : DeregisterNodeListener(x, l)

Spec == Init /\ [][Next]_vars

-----------------------------------------------------------------------------
(* Properties *)

TypeOK ==
    /\ tree \in Tree
    /\ listeners \in SUBSET Listener
    /\ heard \in [Listeners -> Tree]
    /\ seen \in [Authors -> [Labels -> Reading]]
    /\ bumps \in [Labels -> Nat]
    /\ resets \in [Labels -> Nat]
    /\ unannounced \subseteq Labels
    /\ writes \in 0..MaxWrites

\* The author's reading is out of date, by fewer rewrites than the version
\* counter can tell apart.
Stale(a, l) ==
    /\ seen[a][l].resets = resets[l]
    /\ bumps[l] # seen[a][l].bumps
    /\ bumps[l] - seen[a][l].bumps < MaxVersionSequence

\* Optimistic concurrency: a transaction that states the version of a node that
\* other transactions have advanced since is rejected as a whole, so no rewrite
\* is lost, up to a full turn of the version counter.  (A transaction that
\* creates its parent is accepted before its children are looked at, and may put
\* any version on them: it is outside the promise on either side.)
\* (memory_tree.cpp:85-149)
StaleTransactionRejected ==
    \A a \in Authors, l \in Labels :
        Stale(a, l) =>
            \A p \in Labels, plan \in Plans :
                /\ OldVersion(a, p) # Nothing
                /\ plan[p] # "leave" /\ plan[l] # "leave"
                => ~CanApply(tree, <<Request(a, p, plan)>>)

\* A listener that copies what its callback tells it holds the current node of
\* the rule it listens to, after any sequence of upserts, deletes and
\* transactions; only a node that deleteNode took along with a node above it,
\* and that nobody has written since, is not announced
\* (simple_backend.cpp:71-86, 134-149, 206-237).
ExactListenersCurrent ==
    \A x \in listeners :
        x.rule \notin unannounced => heard[x.name][x.rule] = tree[x.rule]

\* Nobody is told about a node outside the rule it listens to: the loose string
\* comparisons of partialLabelRuleMatch and checkLabelRuleOverlap never combine
\* to a false match (simple_backend.cpp:11-65, 188-237).
NotifiedOnlyInRule ==
    \A l \in Labels : \A x \in Notified(l) :
        x.rule = l \/ (x.children /\ IsAncestorOrSelf(x.rule, l))
=============================================================================
