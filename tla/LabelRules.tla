----------------------------- MODULE LabelRules -----------------------------
(***************************************************************************)
(* Label rules as the backends compare and order them.                     *)
(*                                                                         *)
(* The code treats a label rule as one string: it searches for slashes,    *)
(* compares prefixes and keeps rules in a std::map, ordered by bytes.  A   *)
(* rule is therefore a sequence of bytes here, of which only the slash and *)
(* the question mark mean anything; other bytes are numbers below or above *)
(* these two, as '-' or 'A' are in ASCII.                                  *)
(***************************************************************************)
EXTENDS Integers, Sequences, SequencesExt

Slash == 2
Query == 4

\* The rule without its query: everything before the first question mark.
StripQuery(r) ==
    IF \E k \in DOMAIN r : r[k] = Query
      THEN SubSeq(r, 1, (CHOOSE k \in DOMAIN r :
                            /\ r[k] = Query
                            /\ \A j \in 1..k - 1 : r[j] # Query) - 1)
      ELSE r

\* Positions count from 1; 0 stands for std::string::npos.
FirstSlash(r) == SelectInSeq(r, LAMBDA b : b = Slash)
LastSlash(r) == SelectLastInSeq(r, LAMBDA b : b = Slash)

\* Mutant: one rule is a prefix of the other, as a string.
PrefixOverlap(a, b) == IsPrefix(a, b) \/ IsPrefix(b, a)

\* checkLabelRuleOverlap past the equality tests.  npos is the greatest
\* position, so a rule without a slash never decides where to cut; when
\* neither has one the character read is not a slash and nothing overlaps.
DirectoriesOverlap(a, b) ==
    LET cuts == {LastSlash(a), LastSlash(b)} \ {0}
        at == IF cuts = {} THEN 0 ELSE Min(cuts)
        restA == SubSeq(a, at + 1, Len(a))
        restB == SubSeq(b, at + 1, Len(b))
    IN  /\ at \in DOMAIN a /\ a[at] = Slash
        /\ at \in DOMAIN b /\ b[at] = Slash
        /\ SubSeq(a, 1, at - 1) = SubSeq(b, 1, at - 1)
        /\ \/ FirstSlash(restA) = 0 /\ FirstSlash(restB) = Len(restA) + 1
           \/ FirstSlash(restB) = 0 /\ FirstSlash(restA) = Len(restB) + 1

checkLabelRuleOverlap(rule1, rule2) ==
    LET a == StripQuery(rule1)
        b == StripQuery(rule2)
    IN  \/ a = <<>> \/ b = <<>>
        \/ a = b
        \/ DirectoriesOverlap(a, b)

\* The notification rule is a prefix of the label, as a string.
partialLabelRuleMatch(label, rule) == IsPrefix(rule, StripQuery(label))

\* The order of std::map<std::string, ...>.
AtMost(a, b) ==
    \/ IsPrefix(a, b)
    \/ \E k \in 1..Len(a) :
         /\ k <= Len(b)
         /\ SubSeq(a, 1, k - 1) = SubSeq(b, 1, k - 1)
         /\ a[k] < b[k]

\* The keys notifyListeners visits for a label: from the greatest key that is
\* not above the label downwards, while the keys are prefixes of the label.
Visited(keys, label) ==
    {k \in keys :
        /\ AtMost(k, label)
        /\ \A j \in keys : AtMost(k, j) /\ AtMost(j, label) =>
                               partialLabelRuleMatch(label, j)}

-----------------------------------------------------------------------------
(* What the comparisons are for, by path segments.                         *)

\* The node of rule a is the node of rule b or above it.
IsAncestorOrSelf(a, b) ==
    \/ a = b
    \/ a = <<>>
    \/ IsPrefix(Append(a, Slash), b)
=============================================================================
