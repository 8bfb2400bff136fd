--------------------------- MODULE CompositeBackend ---------------------------
(***************************************************************************)
(* CompositeBackend and RedirectedBackend: one tree whose subtrees are kept *)
(* in other backends.  The composite finds the backend of a label rule in  *)
(* the std::map of mounts; the redirected backend puts a prefix before     *)
(* every label.  Both shorten and lengthen the labels on the way by what   *)
(* TreeNode::shortenLabels and prefixLabels do with the text.              *)
(*                                                                         *)
(* The backends below are trees from labels to values.  Children, listeners *)
(* and versions belong to SimpleBackend and are left out.                  *)
(***************************************************************************)
EXTENDS Naturals, Sequences, SequencesExt, LabelRules

CONSTANTS Rules,     \* the label rules users name
          MaxCalls   \* bound: calls in a behaviour

Root == <<>>         \* stands for root_backend_ among the mount labels

VARIABLES
  mounted,   \* mounted[m]: the prefix_ of the redirected backend mounted at m,
             \* <<>> for a backend mounted as it is
  store,     \* store[m]: the tree of the backend at m, a function of labels
  due,       \* history: due[l], the value last written as l
  odd,       \* history: the mounts met labels they do not keep apart
  calls      \* calls so far

ASSUME RulesAssumption == Rules \subseteq Seq(Nat) /\ MaxCalls \in Nat

compVars == <<mounted, store, due, odd, calls>>

NoTree == [l \in {} |-> 0]

CompositeInit(before) ==
  /\ mounted = NoTree
  /\ store = [m \in {Root} |-> before]
  /\ due = before
  /\ odd = FALSE
  /\ calls = 0

-------------------------------------------------------------------------------
(* TreeNode::prefixLabels leaves a label that begins with the prefix alone. *)
prefixLabels(prefix, l) == IF IsPrefix(prefix, l) THEN l ELSE prefix \o l
shortenLabels(prefix, l) == IF IsPrefix(prefix, l) THEN SubSeq(l, Len(prefix) + 1, Len(l)) ELSE l

(* Mutant: "zoo1" lies under the mount "zoo".                              *)
TextLiesUnder(l, m) == IsPrefix(m, l)

(* The test that follows the search in the map.                            *)
LiesUnder(l, m) == l = m \/ IsPrefix(Append(m, Slash), l)

(* upper_bound, then one step down: the greatest mount not above the label. *)
getRelevantBackend(l) ==
  LET floor == {m \in DOMAIN mounted :
                  /\ AtMost(m, l)
                  /\ \A n \in DOMAIN mounted : AtMost(n, l) => AtMost(n, m)}
  IN  IF \E m \in floor : LiesUnder(l, m) THEN CHOOSE m \in floor : LiesUnder(l, m) ELSE Root

(* The part of the label the mounted backend does not see.                 *)
CutOff(l, m) == IF m = Root THEN <<>>
                ELSE IF l = m THEN m
                ELSE Append(m, Slash)

Seen(l) == LET m == getRelevantBackend(l) IN SubSeq(l, Len(CutOff(l, m)) + 1, Len(l))

(* RedirectedBackend, in front of the tree of mount m.                     *)
PrefixOf(m) == IF m = Root THEN <<>> ELSE mounted[m]
ReadLabel(m, l) == PrefixOf(m) \o l
WriteLabel(m, l) == prefixLabels(PrefixOf(m), l)

-------------------------------------------------------------------------------
(* Reading.  getNode gives the node with its label lengthened again;       *)
(* prefixLabels throws when the prefix does not end with a slash.          *)
Readable(l) ==
  LET m == getRelevantBackend(l) IN
    /\ ReadLabel(m, Seen(l)) \in DOMAIN store[m]
    /\ m = Root \/ m # l

getNode(l) ==
  LET m == getRelevantBackend(l)
      key == ReadLabel(m, Seen(l))
      label == shortenLabels(PrefixOf(m), key)
  IN  [label |-> prefixLabels(CutOff(l, m), label), value |-> store[m][key]]

RedirectedTree(m) == {shortenLabels(PrefixOf(m), k) : k \in {k \in DOMAIN store[m] : IsPrefix(PrefixOf(m), k)}}

getFullTree == DOMAIN store[Root] \cup
               UNION {{prefixLabels(Append(m, Slash), k) : k \in RedirectedTree(m)} : m \in DOMAIN mounted}

-------------------------------------------------------------------------------
(* History: labels the lookup or the relabelling confuses.  A mount lies   *)
(* between another mount and a label under it; a label begins with its own *)
(* prefix twice; a label is a mount; the root has a node under a mount.     *)
Hidden(l) == \E m \in DOMAIN mounted : LiesUnder(l, m) /\ m # getRelevantBackend(l)
Repeats(l) == LET m == getRelevantBackend(l)
                  s == Seen(l)
              IN  m # Root /\ (IsPrefix(CutOff(l, m), s) \/ (PrefixOf(m) # <<>> /\ IsPrefix(PrefixOf(m), s)))
Odd(l) == l \in DOMAIN mounted \/ Hidden(l) \/ Repeats(l)

Called == calls < MaxCalls /\ calls' = calls + 1

(* mountBackend, of an empty backend: the exceptions leave the map as it was. *)
Mountable(m) ==
  /\ m \notin DOMAIN mounted
  /\ m \notin DOMAIN store[Root]
  /\ \A n \in DOMAIN mounted : ~checkLabelRuleOverlap(m, n)

mountBackend(m, prefix) ==
  /\ Mountable(m)
  /\ mounted' = [n \in DOMAIN mounted \cup {m} |-> IF n = m THEN prefix ELSE mounted[n]]
  /\ store' = [n \in DOMAIN store \cup {m} |-> IF n = m THEN NoTree ELSE store[n]]
  /\ odd' = (odd \/ \E l \in DOMAIN store[Root] : LiesUnder(l, m))
  /\ UNCHANGED <<due, calls>>

With(f, l, v) == [k \in DOMAIN f \cup {l} |-> IF k = l THEN v ELSE f[k]]
Without(f, l) == [k \in DOMAIN f \ {l} |-> f[k]]

(* One node of an upsert or of a transaction, on its way down.             *)
Stored(st, l, v) ==
  LET m == getRelevantBackend(l)
      short == shortenLabels(CutOff(l, m), l)
  IN  [st EXCEPT ![m] = With(@, WriteLabel(m, short), v)]

upsertNode(l, v) ==
  /\ Called
  /\ store' = Stored(store, l, v)
  /\ due' = With(due, l, v)
  /\ odd' = (odd \/ Odd(l))
  /\ UNCHANGED mounted

deleteNode(l) ==
  LET m == getRelevantBackend(l) IN
  /\ Called
  /\ store' = [store EXCEPT ![m] = Without(@, ReadLabel(m, Seen(l)))]
  /\ due' = Without(due, l)
  /\ odd' = (odd \/ Odd(l))
  /\ UNCHANGED mounted

(* applyTransaction of two nodes: they must share the part that is cut off. *)
SameBackend(l, k) == CutOff(l, getRelevantBackend(l)) = CutOff(k, getRelevantBackend(k))

applyTransaction(l, k, v) ==
  /\ Called
  /\ SameBackend(l, k)
  /\ store' = Stored(Stored(store, l, v), k, v)
  /\ due' = With(With(due, l, v), k, v)
  /\ odd' = (odd \/ Odd(l) \/ Odd(k))
  /\ UNCHANGED mounted

CompositeNext ==
  \/ \E l \in Rules : upsertNode(l, calls) \/ deleteNode(l)
  \/ \E l, k \in Rules : l # k /\ applyTransaction(l, k, calls)

(* What was written through the composite under a label is read back under *)
(* that label and listed under it in the full tree, whichever backend keeps *)
(* it and however its label was cut and prefixed on the way, and the root  *)
(* keeps nothing under a mount (composite_backend.cpp:172), unless labels  *)
(* were used that the mounts confuse: see Odd.                             *)
WrittenIsRead ==
  ~odd => /\ \A l \in DOMAIN due : Readable(l) /\ getNode(l) = [label |-> l, value |-> due[l]]
          /\ getFullTree = DOMAIN due
          /\ \A l \in DOMAIN store[Root], m \in DOMAIN mounted : ~LiesUnder(l, m)
===============================================================================
