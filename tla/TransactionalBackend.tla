------------------------ MODULE TransactionalBackend ------------------------
(***************************************************************************)
(* TransactionalBackend: one user builds a transaction in memory, layer by *)
(* layer, over a SimpleBackend that others keep writing to.                *)
(*                                                                         *)
(* With an empty transaction_stack_ every call goes straight to the        *)
(* SimpleBackend; those are the actions of that module.  Calls that throw  *)
(* change nothing and are stuttering steps.                                *)
(***************************************************************************)
EXTENDS SimpleBackend

CONSTANT MaxLayers      \* bound: calls on transaction layers in a behaviour

ASSUME LayersAssumption == MaxLayers \in Nat

VARIABLES
    stack,              \* transaction_stack_
    calls               \* how much of MaxLayers is used up

layerVars == <<stack, calls>>

\* Mutant: only a layer of the very same label matches.
SameLabel(l) ==
    {k \in DOMAIN stack : stack[k].parent.node # Nothing /\ stack[k].parent.label = l}

\* The layers whose parent is present and overlaps the label.  A layer whose
\* parent the transaction deletes no longer matches anything.
Overlapping(l) ==
    {k \in DOMAIN stack :
        /\ stack[k].parent.node # Nothing
        /\ checkLabelRuleOverlap(l, stack[k].parent.label)}

First(ks) == CHOOSE k \in ks : \A j \in ks : k <= j

HoldsChild(k, l) ==
    \E ch \in stack[k].children : ch.node # Nothing /\ ch.label = l

\* The layers in which an upsert of l finds its node.
Tracking(l) ==
    {k \in Overlapping(l) : stack[k].parent.label = l \/ HoldsChild(k, l)}

\* The node as the user of the transaction sees it.
GetNode(l) ==
    IF Tracking(l) = {} THEN tree[l]
    ELSE LET sub == stack[First(Tracking(l))]
         IN  IF sub.parent.label = l THEN sub.parent.node
             ELSE (CHOOSE ch \in sub.children :
                       ch.node # Nothing /\ ch.label = l).node

Layered ==
    /\ calls < MaxLayers
    /\ calls' = calls + 1

\* Replace what layer k holds for l.
Put(k, l, n) ==
    LET sub == stack[k]
    IN  stack' = [stack EXCEPT ![k] =
          IF sub.parent.label = l
            THEN [sub EXCEPT !.parent.node = n]
            ELSE [sub EXCEPT !.children =
                   {IF ch.node # Nothing /\ ch.label = l
                      THEN [ch EXCEPT !.node = n] ELSE ch : ch \in @}]]

\* The version stored as the one to check is the next one, not the present one.
OpenTransactionLayer(l, n) ==
    /\ Layered
    /\ Overlapping(l) = {}
    /\ LET old == IF tree[l] = Nothing THEN Nothing ELSE NextVersion(tree[l].version)
       IN  stack' = Append(stack, SubTransaction(Change(old, l, n), {}))
    /\ UNCHANGED vars

\* upsertNode inside a transaction: the first node of the vector that some layer
\* tracks is stored, and the call returns.
LayerUpsert(ls, n) ==
    /\ Layered
    /\ stack # <<>>
    /\ LET tracked == {i \in DOMAIN ls : Tracking(ls[i]) # {}}
           l == ls[First(tracked)]
       IN  IF tracked = {} THEN UNCHANGED stack
           ELSE Put(First(Tracking(l)), l, n)
    /\ UNCHANGED vars

LayerDelete(l) ==
    /\ Layered
    /\ stack # <<>>
    /\ Overlapping(l) # {}
    /\ LET k == First(Overlapping(l))
       IN  IF k \in Tracking(l) THEN Put(k, l, Nothing)
           ELSE stack' = [stack EXCEPT ![k].children =
                            @ \union {Change(Nothing, l, Nothing)}]
    /\ UNCHANGED vars

\* applyTransaction of the stack; when it throws the stack is not cleared.
CloseTransactionLayers ==
    /\ stack # <<>>
    /\ ApplyTransaction(stack)
    /\ UNCHANGED writes
    /\ stack' = <<>>
    /\ UNCHANGED calls

LayeredInit == Init /\ stack = <<>> /\ calls = 0

LayeredNext ==
    \/ \E l \in Labels, n \in Node : OpenTransactionLayer(l, n)
    \/ \E l, m \in Labels, n \in Node : LayerUpsert(<<l, m>>, n)
    \/ \E l \in Labels : LayerDelete(l)
    \/ CloseTransactionLayers
    \/ Next /\ UNCHANGED layerVars

LayeredSpec == LayeredInit /\ [][LayeredNext]_<<vars, layerVars>>

-----------------------------------------------------------------------------
(* Properties *)

LayersTypeOK ==
    /\ TypeOK
    /\ calls \in 0..MaxLayers
    /\ \A k \in DOMAIN stack :
         /\ stack[k].parent.label \in Labels
         /\ stack[k].parent.node \in Node \union {Nothing}
         /\ stack[k].parent.old \in Versions \union {Nothing}
         /\ \A ch \in stack[k].children : ch.label \in Labels

\* Two layers never cover overlapping nodes: whatever the user opened, wrote or
\* deleted before, at most one layer answers for a label that has a present
\* parent (transactional_backend.cpp:216-243).
LayersDisjoint ==
    \A j, k \in DOMAIN stack :
        /\ j # k
        /\ stack[j].parent.node # Nothing
        /\ stack[k].parent.node # Nothing
        => ~checkLabelRuleOverlap(stack[j].parent.label, stack[k].parent.label)

\* A commit makes the node of every present parent exactly what the user saw
\* through the layers just before (transactional_backend.cpp:9-35, 245-255).
CommitShowsWhatWasSeen ==
    [][stack # <<>> /\ stack' = <<>> =>
         \A k \in DOMAIN stack :
            LET p == stack[k].parent
            IN  p.node # Nothing => tree'[p.label] = GetNode(p.label)]_<<vars, layerVars>>
=============================================================================
