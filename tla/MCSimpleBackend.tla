-------------------------- MODULE MCSimpleBackend --------------------------
(* Label rules for the runs of SimpleBackend (5 and 6 are letters). *)
EXTENDS SimpleBackend, TLC

A_A == <<5, Slash, 5>>
A_AB == <<5, Slash, 5, 6>>
A_A_A == <<5, Slash, 5, Slash, 5>>

ChildName == {<<5>>}
ThreeLabels == {A_A, A_A_A, A_AB}

(* State constraint: child names that lead to none of the labels are left out. *)
ListedChildrenExist ==
    \A l \in Labels : tree[l] # Nothing /\ tree[l].children # {} => AbsoluteChildNames(l, tree[l]) # {}

Unread(a) == \A l \in Labels : seen[a][l] = [node |-> Nothing, bumps |-> 0, resets |-> 0]

(* State constraint: the run follows readers without listeners, over a parent  *)
(* and a child changed by transactions; listeners without readers, over two    *)
(* versions, two until the first write and one until the second; and one       *)
(* reader with one listener until the first write.                             *)
(* A state outside is checked, but not followed.                               *)
Focus ==
    /\ ListedChildrenExist
    /\ \/ /\ listeners = {}
          /\ \A l \in Labels : /\ resets[l] <= 1
                               /\ tree[l] # Nothing => l # A_AB /\ tree[l].children = {}
       \/ /\ Cardinality(listeners) <= 2 - writes
          /\ \A a \in Authors : Unread(a)
          /\ \A l \in Labels : tree[l] # Nothing => tree[l].version <= 1
       \/ /\ Cardinality(listeners) <= 1
          /\ \E a \in Authors : \A b \in Authors \ {a} : Unread(b)
          /\ writes = 0

Symmetry == Permutations(Authors)
=============================================================================
