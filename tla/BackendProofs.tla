------------------------------ MODULE BackendProofs ------------------------------
(***************************************************************************)
(* Theorems about LabelRules and SimpleBackend, for any set of label rules,*)
(* authors and listeners and any version counter, and after them about     *)
(* TransactionalBackend: the layers of a transaction never overlap, a      *)
(* commit writes what the user saw, and what the SimpleBackend promises    *)
(* holds below a transaction as well.                                      *)
(***************************************************************************)
EXTENDS TransactionalBackend, TLAPS, SequenceTheorems, WellFoundedInduction

Rule == Seq(Nat)

\* Label rules of nodes carry no query.
Plain(r) == \A k \in DOMAIN r : r[k] # Query

-----------------------------------------------------------------------------
(* Numbers and sequences *)

\* A non-empty set of numbers has a least element; used to know that "the first
\* slash" exists.
LEMMA LeastExists ==
  ASSUME NEW T \in SUBSET Nat, T # {}
  PROVE  Min(T) \in T /\ \A m \in T : Min(T) <= m
<1> DEFINE R == OpToRel(<, Nat)
<1>1. IsWellFoundedOn(R, Nat)
  BY NatLessThanWellFounded
<1> HIDE DEF R
<1>2. PICK x \in T : \A y \in T : ~ (<<y, x>> \in R)
  BY <1>1, WFMin
<1>3. \A y \in T : x <= y
  <2> SUFFICES ASSUME NEW y \in T, y < x PROVE FALSE
    OBVIOUS
  <2>1. <<y, x>> \in R
    BY DEF R, OpToRel
  <2> QED BY <1>2, <2>1
<1> QED BY <1>3 DEF Min

\* A non-empty set of numbers up to a bound has a greatest element.
LEMMA GreatestExists ==
  ASSUME NEW n \in Nat, NEW T \in SUBSET (1..n), T # {}
  PROVE  Max(T) \in T /\ \A m \in T : m <= Max(T)
<1> DEFINE D == {n - k : k \in T}
<1>1. \A k \in T : k \in 1..n /\ n - k \in Nat
  OBVIOUS
<1>2. D \in SUBSET Nat /\ D # {}
  BY <1>1
<1>3. PICK k \in T : Min(D) = n - k
  BY <1>2, LeastExists
<1>4. \A m \in T : m <= k
  <2> SUFFICES ASSUME NEW m \in T PROVE m <= k
    OBVIOUS
  <2>1. n - k <= n - m
    BY <1>2, <1>3, LeastExists
  <2> QED BY <1>1, <2>1
<1>5. \A m \in T : k >= m
  BY <1>1, <1>4
<1> QED BY <1>1, <1>5 DEF Max

\* What IsPrefix says, element by element.
LEMMA PrefixMeaning ==
  ASSUME NEW s \in Rule, NEW t \in Rule
  PROVE  IsPrefix(s, t) <=> Len(s) <= Len(t) /\ \A i \in 1..Len(s) : s[i] = t[i]
<1> USE DEF Rule
<1>1. Len(s) \in Nat /\ Len(t) \in Nat
  OBVIOUS
<1>2. SubSeq(s, 1, Len(s)) = s
  BY SubSeqFull
<1>3. ASSUME Len(s) <= Len(t)
      PROVE  s = SubSeq(t, 1, Len(s)) <=> \A i \in 1..Len(s) : s[i] = t[i]
  <2> DEFINE u == SubSeq(t, 1, Len(s))
  <2>1. \A i \in 1..Len(s) : t[i] \in Nat
    BY <1>1, <1>3, ElementOfSeq
  <2>2. u \in Seq(Nat) /\ Len(u) = Len(s) /\ \A i \in 1..Len(s) : u[i] = t[i]
    BY <1>1, <2>1, SubSeqProperties
  <2> HIDE DEF u
  <2>3. s = u <=> \A i \in 1..Len(s) : s[i] = u[i]
    BY <2>2, SeqEqual
  <2>4. s = u <=> \A i \in 1..Len(s) : s[i] = t[i]
    BY <2>2, <2>3
  <2> QED BY <2>4 DEF u
<1> QED BY <1>2, <1>3 DEF IsPrefix

\* A rule without a query is its own directory part.
LEMMA StripPlain ==
  ASSUME NEW r \in Rule, Plain(r)
  PROVE  StripQuery(r) = r
BY DEF StripQuery, Plain

\* The position of the last slash, 0 if there is none.
LEMMA LastSlashMeaning ==
  ASSUME NEW r \in Rule
  PROVE  /\ LastSlash(r) \in 0..Len(r)
         /\ LastSlash(r) # 0 => r[LastSlash(r)] = Slash
         /\ \A k \in 1..Len(r) : r[k] = Slash => k <= LastSlash(r)
<1> DEFINE I == {i \in 1..Len(r) : r[i] = Slash}
<1>1. LastSlash(r) = IF I # {} THEN Max(I) ELSE 0
  BY DEF LastSlash, SelectLastInSeq
<1>2. Len(r) \in Nat
  BY DEF Rule
<1>3. I # {} => Max(I) \in I /\ \A m \in I : m <= Max(I)
  BY <1>2, GreatestExists
<1> QED BY <1>1, <1>2, <1>3

\* The position of the first slash, 0 if there is none.
LEMMA FirstSlashMeaning ==
  ASSUME NEW r \in Rule
  PROVE  /\ FirstSlash(r) \in 0..Len(r)
         /\ FirstSlash(r) # 0 => r[FirstSlash(r)] = Slash
         /\ FirstSlash(r) = 0 => \A k \in 1..Len(r) : r[k] # Slash
<1> DEFINE I == {i \in 1..Len(r) : r[i] = Slash}
<1>1. FirstSlash(r) = IF I # {} THEN Min(I) ELSE 0
  BY DEF FirstSlash, SelectInSeq
<1>2. Len(r) \in Nat
  BY DEF Rule
<1>3. I # {} => Min(I) \in I
  BY <1>2, LeastExists
<1> QED BY <1>1, <1>2, <1>3

-----------------------------------------------------------------------------
(* How the listener map is ordered and walked *)

LEMMA SameStart ==
  ASSUME NEW s \in Rule, NEW t \in Rule, NEW n \in 0..Len(s), n <= Len(t),
         SubSeq(s, 1, n) = SubSeq(t, 1, n)
  PROVE  \A i \in 1..n : s[i] = t[i]
<1>1. Len(s) \in Nat /\ Len(t) \in Nat
  BY DEF Rule
<1>2. \A i \in 1..n : s[i] \in Nat /\ t[i] \in Nat
  BY <1>1, ElementOfSeq DEF Rule
<1>3. \A i \in 1..n : SubSeq(s, 1, n)[i] = s[i]
  BY <1>1, <1>2, SubSeqProperties
<1>4. \A i \in 1..n : SubSeq(t, 1, n)[i] = t[i]
  BY <1>1, <1>2, SubSeqProperties
<1> QED BY <1>3, <1>4

\* Two rules neither of which comes after the other are the same rule.
LEMMA AtMostAntisymmetric ==
  ASSUME NEW a \in Rule, NEW b \in Rule, AtMost(a, b), AtMost(b, a)
  PROVE  a = b
<1> DEFINE Below(s, t) == \E k \in 1..Len(s) : /\ k <= Len(t)
                                               /\ \A i \in 1..k - 1 : s[i] = t[i]
                                               /\ s[k] < t[k]
<1>1. /\ Len(a) \in Nat /\ Len(b) \in Nat
      /\ \A i \in 1..Len(a) : a[i] \in Nat
      /\ \A i \in 1..Len(b) : b[i] \in Nat
  BY ElementOfSeq DEF Rule
<1>2. ASSUME NEW s \in Rule, NEW t \in Rule, AtMost(s, t)
      PROVE  IsPrefix(s, t) \/ Below(s, t)
  <2> SUFFICES ASSUME NEW k \in 1..Len(s), k <= Len(t),
                      SubSeq(s, 1, k - 1) = SubSeq(t, 1, k - 1), s[k] < t[k]
               PROVE  Below(s, t)
    BY <1>2 DEF AtMost
  <2>1. Len(s) \in Nat /\ Len(t) \in Nat
    BY DEF Rule
  <2>2. k - 1 \in 0..Len(s) /\ k - 1 <= Len(t)
    BY <2>1
  <2>3. \A i \in 1..k - 1 : s[i] = t[i]
    BY <2>2, SameStart
  <2> QED BY <2>3
<1>3. CASE IsPrefix(a, b) /\ IsPrefix(b, a)
  <2>1. Len(a) = Len(b) /\ \A i \in 1..Len(a) : a[i] = b[i]
    BY <1>1, <1>3, PrefixMeaning
  <2> QED BY <2>1, SeqEqual DEF Rule
<1>4. ASSUME NEW s \in Rule, NEW t \in Rule, IsPrefix(s, t), Below(t, s)
      PROVE  FALSE
  <2>1. PICK k \in 1..Len(t) : k <= Len(s) /\ t[k] < s[k]
    BY <1>4
  <2>2. Len(s) \in Nat /\ Len(t) \in Nat
    BY DEF Rule
  <2>3. s[k] = t[k] /\ s[k] \in Nat
    BY <1>4, <2>1, <2>2, PrefixMeaning, ElementOfSeq DEF Rule
  <2> QED BY <2>1, <2>3
<1>5. CASE Below(a, b) /\ Below(b, a)
  <2>1. PICK k \in 1..Len(a) : k <= Len(b) /\ a[k] < b[k] /\ \A i \in 1..k - 1 : a[i] = b[i]
    BY <1>5
  <2>2. PICK j \in 1..Len(b) : j <= Len(a) /\ b[j] < a[j] /\ \A i \in 1..j - 1 : b[i] = a[i]
    BY <1>5
  <2>3. j < k \/ k < j \/ j = k
    OBVIOUS
  <2>4. a[k] \in Nat /\ b[k] \in Nat /\ a[j] \in Nat /\ b[j] \in Nat
    BY <1>1, <2>1, <2>2
  <2>5. CASE j < k
    <3>1. j \in 1..k - 1
      BY <2>5, <1>1
    <3> QED BY <2>1, <2>2, <2>4, <3>1
  <2>6. CASE k < j
    <3>1. k \in 1..j - 1
      BY <2>6, <1>1
    <3> QED BY <2>1, <2>2, <2>4, <3>1
  <2>7. CASE j = k
    BY <2>1, <2>2, <2>4, <2>7
  <2> QED BY <2>3, <2>5, <2>6, <2>7
<1> HIDE DEF Below
<1> QED BY <1>2, <1>3, <1>4, <1>5

\* The walk of notifyListeners always comes to the listeners of the very label
\* (simple_backend.cpp:206-237).
LEMMA ExactIsVisited ==
  ASSUME NEW keys \in SUBSET Rule, NEW l \in keys, Plain(l)
  PROVE  l \in Visited(keys, l)
<1>1. l \in Rule /\ Len(l) \in Nat
  BY DEF Rule
<1>2. IsPrefix(l, l)
  BY <1>1, PrefixMeaning
<1>3. \A j \in keys : AtMost(l, j) /\ AtMost(j, l) => j = l
  BY <1>1, AtMostAntisymmetric
<1>4. AtMost(l, l) /\ partialLabelRuleMatch(l, l)
  BY <1>1, <1>2, StripPlain DEF AtMost, partialLabelRuleMatch
<1> QED BY <1>3, <1>4 DEF Visited

\* It comes only to rules that are prefixes of the label.
LEMMA VisitedIsPrefix ==
  ASSUME NEW keys \in SUBSET Rule, NEW l \in Rule, Plain(l), NEW r \in Visited(keys, l)
  PROVE  r \in keys /\ IsPrefix(r, l)
<1>1. r \in keys /\ r \in Rule /\ AtMost(r, l)
  BY DEF Visited
<1>2. Len(r) \in Nat
  BY <1>1 DEF Rule
<1>3. AtMost(r, r)
  BY <1>1, <1>2, PrefixMeaning DEF AtMost
<1>4. partialLabelRuleMatch(l, r)
  BY <1>1, <1>3 DEF Visited
<1> QED BY <1>1, <1>4, StripPlain DEF partialLabelRuleMatch

-----------------------------------------------------------------------------
(* What the loose comparisons amount to *)

\* What is left of a rule after its first n bytes.
LEMMA RestMeaning ==
  ASSUME NEW s \in Rule, NEW n \in 0..Len(s)
  PROVE  LET rest == SubSeq(s, n + 1, Len(s))
         IN  /\ rest \in Rule /\ Len(rest) = Len(s) - n
             /\ \A i \in 1..Len(s) - n : rest[i] = s[n + i]
<1> DEFINE m == n + 1
           rest == SubSeq(s, m, Len(s))
<1>1. Len(s) \in Nat /\ m \in Int
  BY DEF Rule
<1>2. \A i \in m..Len(s) : s[i] \in Nat
  BY <1>1, ElementOfSeq DEF Rule
<1>3. /\ rest \in Seq(Nat)
      /\ Len(rest) = IF m <= Len(s) THEN Len(s) - m + 1 ELSE 0
      /\ \A i \in 1..Len(s) - m + 1 : rest[i] = s[m + i - 1]
  <2> HIDE DEF m
  <2> QED BY <1>1, <1>2, SubSeqProperties
<1>4. Len(rest) = Len(s) - n
  BY <1>1, <1>3
<1>5. \A i \in 1..Len(s) - n : rest[i] = s[n + i]
  <2> SUFFICES ASSUME NEW i \in 1..Len(s) - n PROVE rest[i] = s[n + i]
    OBVIOUS
  <2>1. i \in 1..Len(s) - m + 1 /\ m + i - 1 = n + i
    BY <1>1
  <2> QED BY <1>3, <2>1
<1> QED BY <1>3, <1>4, <1>5 DEF Rule

\* A prefix that checkLabelRuleOverlap accepts ends where a segment ends: after
\* the last slash of the shorter rule the longer one goes on for exactly as many
\* bytes before its next slash (simple_backend.cpp:11-65).
LEMMA OverlapOfPrefix ==
  ASSUME NEW a \in Rule, NEW b \in Rule, IsPrefix(b, a), DirectoriesOverlap(a, b)
  PROVE  IsPrefix(Append(b, Slash), a)
<1> DEFINE at == LastSlash(b)
           restA == SubSeq(a, at + 1, Len(a))
           restB == SubSeq(b, at + 1, Len(b))
<1>1. /\ Len(a) \in Nat /\ Len(b) \in Nat /\ Len(b) <= Len(a)
      /\ DOMAIN a = 1..Len(a) /\ DOMAIN b = 1..Len(b)
      /\ \A i \in 1..Len(b) : b[i] = a[i]
  BY PrefixMeaning, LenProperties DEF Rule
<1>2. /\ LastSlash(a) \in 0..Len(a) /\ at \in 0..Len(b)
      /\ at # 0 => b[at] = Slash
      /\ \A k \in 1..Len(b) : b[k] = Slash => k <= at
      /\ \A k \in 1..Len(a) : a[k] = Slash => k <= LastSlash(a)
  BY LastSlashMeaning
<1>3. at # 0 => at <= LastSlash(a)
  BY <1>1, <1>2
<1>4. /\ at # 0
      /\ \/ FirstSlash(restA) = 0 /\ FirstSlash(restB) = Len(restA) + 1
         \/ FirstSlash(restB) = 0 /\ FirstSlash(restA) = Len(restB) + 1
  <2> DEFINE cuts == {LastSlash(a), LastSlash(b)} \ {0}
             cut == IF cuts = {} THEN 0 ELSE Min(cuts)
  <2>1. /\ cut \in DOMAIN b /\ b[cut] = Slash
        /\ LET ra == SubSeq(a, cut + 1, Len(a))
               rb == SubSeq(b, cut + 1, Len(b))
           IN  \/ FirstSlash(ra) = 0 /\ FirstSlash(rb) = Len(ra) + 1
               \/ FirstSlash(rb) = 0 /\ FirstSlash(ra) = Len(rb) + 1
    BY DEF DirectoriesOverlap
  <2>2. cuts \in SUBSET Nat
    BY <1>1, <1>2
  <2>3. cuts # {} => Min(cuts) \in cuts /\ \A m \in cuts : Min(cuts) <= m
    BY <2>2, LeastExists
  <2>4. cut = at /\ at # 0
    <3>1. cuts # {} /\ cut = Min(cuts)
      <4>1. cut # 0
        <5>1. 0 \notin DOMAIN b /\ cut \in DOMAIN b
          <6> HIDE DEF cut
          <6> QED BY <1>1, <2>1
        <5> HIDE DEF cut
        <5> QED BY <5>1
      <4> HIDE DEF cuts
      <4> QED BY <4>1
    <3>2. /\ cut \in {LastSlash(a), at} /\ cut # 0
          /\ at # 0 => cut <= at
      BY <2>3, <3>1
    <3>3. cut \in 1..Len(b) /\ b[cut] = Slash
      BY <1>1, <2>1
    <3> HIDE DEF cut, at
    <3> QED BY <1>1, <1>2, <1>3, <3>2, <3>3
  <2> QED BY <2>1, <2>4
<1>6. /\ restA \in Rule /\ Len(restA) = Len(a) - at
      /\ \A i \in 1..Len(a) - at : restA[i] = a[at + i]
  <2>1. at \in 0..Len(a)
    BY <1>1, <1>2
  <2> QED BY <2>1, RestMeaning
<1>7. /\ restB \in Rule /\ Len(restB) = Len(b) - at
      /\ \A i \in 1..Len(b) - at : restB[i] = b[at + i]
  BY <1>2, RestMeaning
<1> HIDE DEF restA, restB, at
<1>8. FirstSlash(restB) # Len(restA) + 1
  BY <1>1, <1>2, <1>6, <1>7, FirstSlashMeaning
<1>9. FirstSlash(restA) = Len(b) - at + 1 /\ FirstSlash(restA) \in 1..Len(a) - at
  BY <1>1, <1>2, <1>4, <1>6, <1>7, <1>8, FirstSlashMeaning
<1>10. restA[Len(b) - at + 1] = Slash
  BY <1>1, <1>2, <1>6, <1>9, FirstSlashMeaning
<1>11. Len(b) + 1 <= Len(a) /\ a[Len(b) + 1] = Slash
  BY <1>1, <1>2, <1>6, <1>9, <1>10
<1>12. /\ Append(b, Slash) \in Rule /\ Len(Append(b, Slash)) = Len(b) + 1
       /\ \A i \in 1..Len(b) : Append(b, Slash)[i] = b[i]
       /\ Append(b, Slash)[Len(b) + 1] = Slash
  BY AppendProperties DEF Rule, Slash
<1>13. \A i \in 1..Len(b) + 1 : Append(b, Slash)[i] = a[i]
  BY <1>1, <1>11, <1>12
<1> QED BY <1>11, <1>12, <1>13, PrefixMeaning

\* A rule the walk comes to and that overlaps the label is the label's or that
\* of a node above it.
LEMMA MatchIsAncestor ==
  ASSUME NEW l \in Rule, Plain(l), NEW r \in Rule, IsPrefix(r, l), checkLabelRuleOverlap(l, r)
  PROVE  IsAncestorOrSelf(r, l)
<1>1. Len(r) \in Nat /\ Len(l) \in Nat /\ DOMAIN r = 1..Len(r) /\ DOMAIN l = 1..Len(l)
  BY LenProperties DEF Rule
<1>2. Len(r) <= Len(l) /\ \A i \in 1..Len(r) : r[i] = l[i]
  BY PrefixMeaning
<1>3. Plain(r)
  BY <1>1, <1>2 DEF Plain
<1>4. StripQuery(r) = r /\ StripQuery(l) = l
  BY <1>3, StripPlain
<1>5. l = <<>> => r = <<>>
  BY <1>1, <1>2 DEF Rule
<1>6. r = <<>> \/ l = r \/ DirectoriesOverlap(l, r)
  BY <1>4, <1>5 DEF checkLabelRuleOverlap
<1> QED BY <1>6, OverlapOfPrefix DEF IsAncestorOrSelf

-----------------------------------------------------------------------------
(* Types *)

NodeChange == [old : Versions \union {Nothing}, label : Labels, node : Node \union {Nothing}]
SubChange == [parent : NodeChange, children : SUBSET NodeChange]
Named(tx) == {ch.label : ch \in Changes(tx)}

LEMMA NothingIsNoNode == Nothing \notin Node /\ Nothing \notin Versions
BY BackendAssumption DEF Node, Versions

\* The version counter turns over at its limit.
LEMMA NextVersionMeaning ==
  ASSUME NEW v \in Versions
  PROVE  /\ NextVersion(v) \in Versions
         /\ NextVersion(v) = IF v + 1 = MaxVersionSequence THEN 0 ELSE v + 1
<1>1. MaxVersionSequence \in Nat \ {0} /\ v \in 0..MaxVersionSequence - 1
  BY BackendAssumption DEF Versions
<1>2. CASE v + 1 = MaxVersionSequence
  <2>1. MaxVersionSequence % MaxVersionSequence = 0
    BY <1>1
  <2> QED BY <1>1, <1>2, <2>1 DEF NextVersion, Versions
<1>3. CASE v + 1 < MaxVersionSequence
  <2>1. (v + 1) % MaxVersionSequence = v + 1
    BY <1>1, <1>3
  <2> QED BY <1>1, <1>3, <2>1 DEF NextVersion, Versions
<1> QED BY <1>1, <1>2, <1>3

LEMMA PerformType ==
  ASSUME NEW t \in Tree, NEW sub \in SubChange
  PROVE  performSubTransaction(t, sub) \in Tree
<1> SUFFICES ASSUME NEW l \in Labels
             PROVE  performSubTransaction(t, sub)[l] \in Node \union {Nothing}
  BY DEF performSubTransaction, Tree
<1>1. CASE \E ch \in sub.children : ch.label = l
  <2> DEFINE c == CHOOSE ch \in sub.children : ch.label = l
  <2>1. c \in sub.children
    BY <1>1
  <2>2. c.node \in Node \union {Nothing}
    BY <2>1 DEF SubChange, NodeChange
  <2> QED BY <1>1, <2>2 DEF performSubTransaction
<1>2. CASE ~\E ch \in sub.children : ch.label = l
  BY <1>2 DEF performSubTransaction, Tree, SubChange, NodeChange
<1> QED BY <1>1, <1>2

\* A transaction leaves the nodes it does not name alone.
LEMMA ApplyMeaning ==
  ASSUME NEW t \in Tree, NEW tx \in Seq(SubChange)
  PROVE  /\ Apply(t, tx) \in Tree
         /\ \A l \in Labels \ Named(tx) : Apply(t, tx)[l] = t[l]
<1> DEFINE naming(l) == {k \in DOMAIN tx :
                           l \in {ch.label : ch \in {tx[k].parent} \union tx[k].children}}
<1>1. Apply(t, tx) =
        [l \in Labels |-> IF naming(l) = {} THEN t[l]
                          ELSE performSubTransaction(t, tx[Max(naming(l))])[l]]
  BY DEF Apply
<1>2. ASSUME NEW l \in Labels, naming(l) # {}
      PROVE  performSubTransaction(t, tx[Max(naming(l))])[l] \in Node \union {Nothing}
  <2>1. Len(tx) \in Nat /\ naming(l) \in SUBSET (1..Len(tx))
    BY LenProperties
  <2>2. Max(naming(l)) \in 1..Len(tx)
    BY <1>2, <2>1, GreatestExists
  <2>3. tx[Max(naming(l))] \in SubChange
    BY <2>2, ElementOfSeq
  <2> QED BY <2>3, PerformType DEF Tree
<1>3. ASSUME NEW l \in Labels \ Named(tx) PROVE naming(l) = {}
  BY DEF Named, Changes
<1> HIDE DEF naming
<1>4. Apply(t, tx) \in Tree
  BY <1>1, <1>2 DEF Tree
<1> QED BY <1>1, <1>3, <1>4

LEMMA HeardType ==
  ASSUME TypeOK, NEW ls, NEW t \in Tree
  PROVE  HeardAfter(ls, t) \in [Listeners -> Tree]
BY DEF HeardAfter, TypeOK, Tree

LEMMA IncrementMeaning ==
  ASSUME NEW count \in [Labels -> Nat], NEW ls
  PROVE  /\ Increment(count, ls) \in [Labels -> Nat]
         /\ \A l \in Labels : Increment(count, ls)[l] = IF l \in ls THEN count[l] + 1 ELSE count[l]
BY DEF Increment

\* What authors ask for is well formed.
LEMMA RequestType ==
  ASSUME TypeOK, NEW a \in Authors, NEW p \in Labels, NEW plan \in Plans
  PROVE  /\ Request(a, p, plan) \in SubChange
         /\ \A q \in Labels : SubTransaction(Advance(a, q), {}) \in SubChange
<1>1. ASSUME NEW l \in Labels
      PROVE  Advance(a, l) \in NodeChange /\ Erase(a, l) \in NodeChange
  <2>1. seen[a][l].node \in Node \union {Nothing}
    BY DEF TypeOK, Reading
  <2>2. 0 \in Versions
    BY BackendAssumption DEF Versions
  <2>3. CASE seen[a][l].node = Nothing
    BY <2>2, <2>3 DEF Advance, Erase, OldVersion, Change, NodeChange, Node
  <2>4. CASE seen[a][l].node \in Node /\ seen[a][l].node # Nothing
    <3>1. /\ seen[a][l].node.version \in Versions
          /\ NextVersion(seen[a][l].node.version) \in Versions
      BY <2>4, NextVersionMeaning DEF Node
    <3> QED BY <2>4, <3>1 DEF Advance, Erase, OldVersion, Change, NodeChange, Node
  <2> QED BY <2>1, <2>3, <2>4
<1>2. Request(a, p, plan) \in SubChange
  BY <1>1 DEF Request, SubTransaction, SubChange
<1> QED BY <1>1, <1>2 DEF SubTransaction, SubChange

\* The parts of TypeOK that an applied transaction touches.
LEMMA ApplyTransactionType ==
  ASSUME TypeOK, NEW tx \in Seq(SubChange), ApplyTransaction(tx), writes' \in 0..MaxWrites
  PROVE  TypeOK'
<1>1. tree' \in Tree
  BY ApplyMeaning DEF ApplyTransaction, TypeOK
<1>2. heard' \in [Listeners -> Tree]
  BY <1>1, HeardType DEF ApplyTransaction
<1>3. bumps' \in [Labels -> Nat] /\ resets' \in [Labels -> Nat]
  <2>1. (\E S : bumps' = Increment(bumps, S)) /\ (\E S : resets' = Increment(resets, S))
    BY Zenon DEF ApplyTransaction
  <2>2. bumps \in [Labels -> Nat] /\ resets \in [Labels -> Nat]
    BY DEF TypeOK
  <2>3. \A S : Increment(bumps, S) \in [Labels -> Nat] /\ Increment(resets, S) \in [Labels -> Nat]
    BY <2>2, IncrementMeaning, Zenon
  <2> QED BY <2>1, <2>3, Zenon
<1>4. unannounced' \subseteq Labels
  BY DEF ApplyTransaction, TypeOK
<1> QED BY <1>1, <1>2, <1>3, <1>4 DEF ApplyTransaction, TypeOK

\* Every transaction of an author is a sequence of well-formed changes.
LEMMA TransactIsApply ==
  ASSUME TypeOK, NEW a \in Authors, Transact(a)
  PROVE  /\ writes' \in 0..MaxWrites
         /\ \E tx \in Seq(SubChange) : ApplyTransaction(tx)
<1>1. PICK p \in Labels, plan \in Plans :
        LET sub == Request(a, p, plan)
        IN  /\ Write(Kind(sub))
            /\ \/ ApplyTransaction(<<sub>>)
               \/ \E q \in Labels \ {p} :
                    ApplyTransaction(<<sub, SubTransaction(Advance(a, q), {})>>)
  BY DEF Transact
<1>2. writes' \in 0..MaxWrites
  BY <1>1, BackendAssumption DEF Write, TypeOK
<1>3. /\ Request(a, p, plan) \in SubChange
      /\ \A q \in Labels : SubTransaction(Advance(a, q), {}) \in SubChange
  BY RequestType
<1>4. /\ <<Request(a, p, plan)>> \in Seq(SubChange)
      /\ \A q \in Labels : <<Request(a, p, plan), SubTransaction(Advance(a, q), {})>> \in Seq(SubChange)
  BY <1>3
<1> QED BY <1>1, <1>2, <1>4

LEMMA TypeInit == Init => TypeOK
<1> SUFFICES ASSUME Init PROVE TypeOK
  OBVIOUS
<1>1. 0 \in Versions /\ MaxWrites \in Nat
  BY BackendAssumption DEF Versions
<1>2. tree \in Tree
  BY <1>1 DEF Init, Tree, Node
<1> QED BY <1>1, <1>2 DEF Init, TypeOK, Reading

LEMMA TypeStep == TypeOK /\ [Next]_vars => TypeOK'
<1> SUFFICES ASSUME TypeOK, [Next]_vars PROVE TypeOK'
  OBVIOUS
<1>1. ASSUME NEW a \in Authors, NEW l \in Labels, Read(a, l) PROVE TypeOK'
  <2>1. [node |-> tree[l], bumps |-> bumps[l], resets |-> resets[l]] \in Reading
    BY DEF TypeOK, Tree, Reading
  <2> QED BY <1>1, <2>1 DEF Read, TypeOK
<1>2. ASSUME NEW a \in Authors, Transact(a) PROVE TypeOK'
  BY <1>2, TransactIsApply, ApplyTransactionType
<1>3. ASSUME NEW ls \in SUBSET Labels, NEW n \in Node, UpsertNode(ls, n) PROVE TypeOK'
  <2>1. tree' \in Tree
    BY <1>3 DEF UpsertNode, TypeOK, Tree
  <2>2. heard' \in [Listeners -> Tree] /\ resets' \in [Labels -> Nat]
    BY <1>3, <2>1, HeardType, IncrementMeaning DEF UpsertNode, TypeOK
  <2> QED BY <1>3, <2>1, <2>2, BackendAssumption DEF UpsertNode, Write, TypeOK
<1>4. ASSUME NEW l \in Labels, DeleteNode(l) PROVE TypeOK'
  <2>1. tree' \in Tree
    BY <1>4 DEF DeleteNode, DeleteFrom, TypeOK, Tree
  <2>2. heard' \in [Listeners -> Tree] /\ resets' \in [Labels -> Nat]
    BY <1>4, <2>1, HeardType, IncrementMeaning DEF DeleteNode, TypeOK
  <2>3. unannounced' \subseteq Labels
    BY <1>4 DEF DeleteNode, TypeOK
  <2>4. writes' \in 0..MaxWrites
    BY <1>4, BackendAssumption DEF DeleteNode, Write, TypeOK
  <2> QED BY <1>4, <2>1, <2>2, <2>3, <2>4 DEF DeleteNode, TypeOK
<1>5. ASSUME NEW x \in Listener, RegisterNodeListener(x) PROVE TypeOK'
  <2>1. listeners' \in SUBSET Listener
    BY <1>5 DEF RegisterNodeListener, TypeOK
  <2>2. x.name \in Listeners
    BY DEF Listener
  <2>3. heard' \in [Listeners -> Tree]
    BY <1>5, <2>2 DEF RegisterNodeListener, TypeOK
  <2> QED BY <1>5, <2>1, <2>3 DEF RegisterNodeListener, TypeOK
<1>6. ASSUME NEW x \in Listeners, NEW l \in Labels, DeregisterNodeListener(x, l) PROVE TypeOK'
  BY <1>6 DEF DeregisterNodeListener, TypeOK
<1>7. CASE UNCHANGED vars
  BY <1>7 DEF vars, TypeOK
<1> QED BY <1>1, <1>2, <1>3, <1>4, <1>5, <1>6, <1>7 DEF Next

\* Trees, listeners and readings keep their types, whatever is written.
THEOREM BackendTypeCorrect == Spec => []TypeOK
BY TypeInit, TypeStep, PTL DEF Spec

-----------------------------------------------------------------------------
(* Optimistic concurrency *)

\* Version w is d rewrites after version v, for less than a full turn.
Ahead(v, d, w) == w = IF v + d < MaxVersionSequence THEN v + d ELSE v + d - MaxVersionSequence

\* What a reading still says about the node: unless the node was reset since,
\* the distance of the versions is the number of rewrites since.
ReadingTracked ==
    \A a \in Authors, l \in Labels :
        LET r == seen[a][l]
        IN  /\ r.bumps <= bumps[l] /\ r.resets <= resets[l]
            /\ r.resets = resets[l] =>
                 /\ r.node = Nothing => tree[l] = Nothing /\ bumps[l] = r.bumps
                 /\ r.node # Nothing =>
                      /\ tree[l] # Nothing
                      /\ bumps[l] - r.bumps < MaxVersionSequence =>
                           Ahead(r.node.version, bumps[l] - r.bumps, tree[l].version)

LEMMA AheadStep ==
  ASSUME NEW v \in Versions, NEW w \in Versions, NEW d \in Nat,
         d + 1 < MaxVersionSequence, Ahead(v, d, w)
  PROVE  Ahead(v, d + 1, NextVersion(w))
<1>1. MaxVersionSequence \in Nat \ {0}
  BY BackendAssumption
<1>2. NextVersion(w) = IF w + 1 = MaxVersionSequence THEN 0 ELSE w + 1
  BY NextVersionMeaning
<1> QED BY <1>1, <1>2 DEF Ahead, Versions

\* Less than a full turn away is another version.
LEMMA AheadDiffers ==
  ASSUME NEW v \in Versions, NEW w \in Versions, NEW d \in Nat \ {0},
         d < MaxVersionSequence, Ahead(v, d, w)
  PROVE  v # w
BY BackendAssumption DEF Ahead, Versions

\* A step keeps the readings tracked if each node is left alone, advanced by one
\* version and counted, or reset and counted.
LEMMA TrackedByCounting ==
  ASSUME TypeOK, TypeOK', ReadingTracked, UNCHANGED seen,
         \A l \in Labels :
            \/ tree'[l] = tree[l] /\ bumps'[l] = bumps[l] /\ resets'[l] = resets[l]
            \/ bumps'[l] = bumps[l] /\ resets'[l] = resets[l] + 1
            \/ /\ bumps'[l] = bumps[l] + 1 /\ resets'[l] = resets[l]
               /\ tree[l] # Nothing /\ tree'[l] # Nothing
               /\ tree'[l].version = NextVersion(tree[l].version)
  PROVE  ReadingTracked'
<1> SUFFICES ASSUME NEW a \in Authors, NEW l \in Labels
             PROVE  LET r == seen[a][l]
                    IN  /\ r.bumps <= bumps'[l] /\ r.resets <= resets'[l]
                        /\ r.resets = resets'[l] =>
                             /\ r.node = Nothing => tree'[l] = Nothing /\ bumps'[l] = r.bumps
                             /\ r.node # Nothing =>
                                  /\ tree'[l] # Nothing
                                  /\ bumps'[l] - r.bumps < MaxVersionSequence =>
                                       Ahead(r.node.version, bumps'[l] - r.bumps, tree'[l].version)
  BY DEF ReadingTracked
<1> DEFINE r == seen[a][l]
<1>1. /\ r.bumps \in Nat /\ r.resets \in Nat /\ bumps[l] \in Nat /\ resets[l] \in Nat
      /\ r.node \in Node \union {Nothing} /\ tree[l] \in Node \union {Nothing}
      /\ MaxVersionSequence \in Nat \ {0}
  BY BackendAssumption DEF TypeOK, Reading, Tree
<1>2. /\ r.bumps <= bumps[l] /\ r.resets <= resets[l]
      /\ r.resets = resets[l] =>
           /\ r.node = Nothing => tree[l] = Nothing /\ bumps[l] = r.bumps
           /\ r.node # Nothing =>
                /\ tree[l] # Nothing
                /\ bumps[l] - r.bumps < MaxVersionSequence =>
                     Ahead(r.node.version, bumps[l] - r.bumps, tree[l].version)
  BY DEF ReadingTracked
<1> HIDE DEF r
<1>3. CASE tree'[l] = tree[l] /\ bumps'[l] = bumps[l] /\ resets'[l] = resets[l]
  BY <1>2, <1>3 DEF r
<1>4. CASE bumps'[l] = bumps[l] /\ resets'[l] = resets[l] + 1
  BY <1>1, <1>2, <1>4 DEF r
<1>5. CASE /\ bumps'[l] = bumps[l] + 1 /\ resets'[l] = resets[l]
           /\ tree[l] # Nothing /\ tree'[l] # Nothing
           /\ tree'[l].version = NextVersion(tree[l].version)
  <2>1. r.bumps <= bumps'[l] /\ r.resets <= resets'[l]
    BY <1>1, <1>2, <1>5
  <2>2. ASSUME r.resets = resets'[l], r.node # Nothing, bumps'[l] - r.bumps < MaxVersionSequence
        PROVE  Ahead(r.node.version, bumps'[l] - r.bumps, tree'[l].version)
    <3>1. /\ bumps[l] - r.bumps \in Nat
          /\ bumps'[l] - r.bumps = bumps[l] - r.bumps + 1
          /\ bumps[l] - r.bumps < MaxVersionSequence
      BY <1>1, <1>2, <1>5, <2>2
    <3>2. Ahead(r.node.version, bumps[l] - r.bumps, tree[l].version)
      BY <1>2, <1>5, <2>2, <3>1
    <3>3. tree[l].version \in Versions /\ r.node.version \in Versions
      BY <1>1, <1>5, <2>2 DEF Node
    <3>4. bumps[l] - r.bumps + 1 < MaxVersionSequence
      BY <2>2, <3>1
    <3>5. Ahead(r.node.version, bumps[l] - r.bumps + 1, NextVersion(tree[l].version))
      BY <3>1, <3>2, <3>3, <3>4, AheadStep, Zenon
    <3> QED BY <1>5, <3>1, <3>5
  <2> QED BY <1>2, <1>5, <2>1, <2>2 DEF r
<1> QED BY <1>3, <1>4, <1>5

LEMMA ApplyTransactionTracked ==
  ASSUME TypeOK, ReadingTracked, NEW tx \in Seq(SubChange), ApplyTransaction(tx),
         writes' \in 0..MaxWrites
  PROVE  ReadingTracked'
<1> DEFINE advanced == {l \in Named(tx) : /\ tree[l] # Nothing /\ tree'[l] # Nothing
                                          /\ tree'[l].version = NextVersion(tree[l].version)}
<1>1. TypeOK'
  BY ApplyTransactionType
<1>2. /\ bumps' = Increment(bumps, advanced)
      /\ resets' = Increment(resets, Named(tx) \ advanced)
      /\ tree' = Apply(tree, tx) /\ seen' = seen
  BY Zenon DEF ApplyTransaction, Named
<1>3. \A l \in Labels \ Named(tx) : tree'[l] = tree[l]
  BY <1>2, ApplyMeaning DEF TypeOK
<1>4. \A l \in Labels :
         /\ bumps'[l] = IF l \in advanced THEN bumps[l] + 1 ELSE bumps[l]
         /\ resets'[l] = IF l \in Named(tx) \ advanced THEN resets[l] + 1 ELSE resets[l]
  <2> HIDE DEF advanced
  <2>1. bumps \in [Labels -> Nat] /\ resets \in [Labels -> Nat]
    BY DEF TypeOK
  <2>2. \A l \in Labels : bumps'[l] = IF l \in advanced THEN bumps[l] + 1 ELSE bumps[l]
    BY <1>2 DEF Increment
  <2>3. \A l \in Labels :
          resets'[l] = IF l \in Named(tx) \ advanced THEN resets[l] + 1 ELSE resets[l]
    BY <1>2 DEF Increment
  <2> QED BY <2>2, <2>3
<1>5. \A l \in Labels :
        \/ tree'[l] = tree[l] /\ bumps'[l] = bumps[l] /\ resets'[l] = resets[l]
        \/ bumps'[l] = bumps[l] /\ resets'[l] = resets[l] + 1
        \/ /\ bumps'[l] = bumps[l] + 1 /\ resets'[l] = resets[l]
           /\ tree[l] # Nothing /\ tree'[l] # Nothing
           /\ tree'[l].version = NextVersion(tree[l].version)
  BY <1>3, <1>4
<1> QED BY <1>1, <1>2, <1>5, TrackedByCounting

LEMMA TrackedInit == Init => ReadingTracked
BY DEF Init, ReadingTracked

LEMMA TrackedStep == TypeOK /\ ReadingTracked /\ [Next]_vars => ReadingTracked'
<1> SUFFICES ASSUME TypeOK, ReadingTracked, [Next]_vars PROVE ReadingTracked'
  OBVIOUS
<1>0. TypeOK'
  BY TypeStep
<1>1. ASSUME NEW a \in Authors, NEW l \in Labels, Read(a, l) PROVE ReadingTracked'
  <2> SUFFICES ASSUME NEW b \in Authors, NEW m \in Labels
               PROVE  LET r == seen'[b][m]
                      IN  /\ r.bumps <= bumps[m] /\ r.resets <= resets[m]
                          /\ r.resets = resets[m] =>
                               /\ r.node = Nothing => tree[m] = Nothing /\ bumps[m] = r.bumps
                               /\ r.node # Nothing =>
                                    /\ tree[m] # Nothing
                                    /\ bumps[m] - r.bumps < MaxVersionSequence =>
                                         Ahead(r.node.version, bumps[m] - r.bumps, tree[m].version)
    BY <1>1 DEF Read, ReadingTracked
  <2>1. CASE b = a /\ m = l
    <3>1. seen'[b][m] = [node |-> tree[m], bumps |-> bumps[m], resets |-> resets[m]]
      BY <1>1, <2>1 DEF Read, TypeOK
    <3>2. bumps[m] \in Nat /\ resets[m] \in Nat /\ tree[m] \in Node \union {Nothing}
      BY DEF TypeOK, Tree
    <3>3. ASSUME tree[m] # Nothing PROVE Ahead(tree[m].version, bumps[m] - bumps[m], tree[m].version)
      <4>1. tree[m].version \in 0..MaxVersionSequence - 1 /\ MaxVersionSequence \in Nat
        BY <3>2, <3>3, BackendAssumption DEF Node, Versions
      <4> QED BY <3>2, <4>1 DEF Ahead
    <3> QED BY <3>1, <3>2, <3>3
  <2>2. CASE ~(b = a /\ m = l)
    <3>1. seen'[b][m] = seen[b][m]
      BY <1>1, <2>2 DEF Read, TypeOK
    <3> QED BY <3>1 DEF ReadingTracked
  <2> QED BY <2>1, <2>2
<1>2. ASSUME NEW a \in Authors, Transact(a) PROVE ReadingTracked'
  BY <1>2, TransactIsApply, ApplyTransactionTracked
<1>3. ASSUME NEW ls \in SUBSET Labels, NEW n \in Node, UpsertNode(ls, n) PROVE ReadingTracked'
  <2>1. \A l \in Labels :
          /\ l \notin ls => tree'[l] = tree[l] /\ resets'[l] = resets[l]
          /\ l \in ls => resets'[l] = resets[l] + 1
    BY <1>3, IncrementMeaning DEF UpsertNode, TypeOK
  <2>2. bumps' = bumps /\ seen' = seen
    BY <1>3 DEF UpsertNode
  <2> QED BY <1>0, <2>1, <2>2, TrackedByCounting
<1>4. ASSUME NEW l \in Labels, DeleteNode(l) PROVE ReadingTracked'
  <2> DEFINE removed == {m \in Labels : tree'[m] # tree[m]}
  <2>1. resets' = Increment(resets, removed) /\ bumps' = bumps /\ seen' = seen
    BY <1>4 DEF DeleteNode
  <2>2. \A m \in Labels : resets'[m] = IF m \in removed THEN resets[m] + 1 ELSE resets[m]
    <3> HIDE DEF removed
    <3>1. resets \in [Labels -> Nat]
      BY DEF TypeOK
    <3> QED BY <2>1 DEF Increment
  <2> QED BY <1>0, <2>1, <2>2, TrackedByCounting
<1>5. ASSUME UNCHANGED <<tree, bumps, resets, seen>> PROVE ReadingTracked'
  BY <1>5 DEF ReadingTracked
<1> QED BY <1>1, <1>2, <1>3, <1>4, <1>5
        DEF Next, RegisterNodeListener, DeregisterNodeListener, vars

\* What a tracked reading is good for: once it is stale, the version it states
\* is not the node's.
LEMMA StaleVersionDiffers ==
  ASSUME TypeOK, ReadingTracked, NEW a \in Authors, NEW l \in Labels, Stale(a, l)
  PROVE  /\ seen[a][l].node # Nothing /\ tree[l] # Nothing
         /\ OldVersion(a, l) # Nothing /\ OldVersion(a, l) # tree[l].version
<1> DEFINE r == seen[a][l]
<1>1. /\ r.bumps \in Nat /\ bumps[l] \in Nat
      /\ r.node \in Node \union {Nothing} /\ tree[l] \in Node \union {Nothing}
  BY DEF TypeOK, Reading, Tree
<1>2. bumps[l] - r.bumps \in Nat \ {0} /\ bumps[l] - r.bumps < MaxVersionSequence
  BY <1>1 DEF Stale, ReadingTracked
<1>3. /\ r.node # Nothing /\ tree[l] # Nothing
      /\ Ahead(r.node.version, bumps[l] - r.bumps, tree[l].version)
  BY <1>1, <1>2 DEF Stale, ReadingTracked
<1>4. r.node.version \in Versions /\ tree[l].version \in Versions
  BY <1>1, <1>3 DEF Node
<1> HIDE DEF r
<1>5. r.node.version # tree[l].version
  BY <1>2, <1>3, <1>4, AheadDiffers, Zenon
<1>6. OldVersion(a, l) = r.node.version
  BY <1>3 DEF OldVersion, r
<1> QED BY <1>3, <1>4, <1>5, <1>6, NothingIsNoNode DEF r

LEMMA StaleIsRejected == TypeOK /\ ReadingTracked => StaleTransactionRejected
<1> SUFFICES ASSUME TypeOK, ReadingTracked, NEW a \in Authors, NEW l \in Labels, Stale(a, l),
                    NEW p \in Labels, NEW plan \in Plans, OldVersion(a, p) # Nothing,
                    plan[p] # "leave", plan[l] # "leave",
                    CanApply(tree, <<Request(a, p, plan)>>)
             PROVE  FALSE
  BY DEF StaleTransactionRejected
<1> DEFINE sub == Request(a, p, plan)
           ChangeOf(m) == IF plan[m] = "rewrite" THEN Advance(a, m) ELSE Erase(a, m)
<1>1. canPerformSubTransaction(tree, sub)
  BY DEF CanApply
<1>2. /\ sub.parent = ChangeOf(p)
      /\ sub.children = {ChangeOf(m) : m \in {k \in Labels \ {p} : plan[k] # "leave"}}
  BY DEF Request, SubTransaction
<1>3. \A m \in Labels : ChangeOf(m).label = m /\ ChangeOf(m).old = OldVersion(a, m)
  BY DEF Advance, Erase, Change, OldVersion
<1>4. /\ seen[a][l].node # Nothing /\ tree[l] # Nothing
      /\ OldVersion(a, l) # Nothing /\ OldVersion(a, l) # tree[l].version
  BY StaleVersionDiffers
<1> HIDE DEF sub, ChangeOf
<1>5. /\ tree[p] # Nothing /\ OldVersion(a, p) = tree[p].version
      /\ \A ch \in sub.children :
           \/ tree[ch.label] = Nothing /\ ch.old = Nothing
           \/ tree[ch.label] # Nothing /\ ch.old = Nothing /\ ch.node = Nothing
           \/ tree[ch.label] # Nothing /\ ch.old = tree[ch.label].version
  BY <1>1, <1>2, <1>3 DEF canPerformSubTransaction
<1>6. CASE l = p
  BY <1>4, <1>5, <1>6
<1>7. CASE l # p
  <2>1. ChangeOf(l) \in sub.children
    BY <1>2, <1>7
  <2> QED BY <1>3, <1>4, <1>5, <2>1
<1> QED BY <1>6, <1>7

\* No transaction overwrites a rewrite its author has not seen, for any number
\* of authors and labels and any limit of the version counter.
THEOREM StaleRejected == Spec => []StaleTransactionRejected
<1> DEFINE I == TypeOK /\ ReadingTracked
<1>1. Init => I
  BY TypeInit, TrackedInit
<1>2. I /\ [Next]_vars => I'
  BY TypeStep, TrackedStep
<1>3. I => StaleTransactionRejected
  BY StaleIsRejected
<1> QED BY <1>1, <1>2, <1>3, PTL DEF Spec

-----------------------------------------------------------------------------
(* Listeners *)

\* The walk through the listener map reaches the listeners of the very rule.
LEMMA ExactIsNotified ==
  ASSUME TypeOK, \A l \in Labels : Plain(l), NEW x \in listeners
  PROVE  x \in Notified(x.rule)
<1> DEFINE keys == {y.rule : y \in listeners}
<1>1. \A y \in listeners : y.rule \in Labels
  BY DEF TypeOK, Listener
<1>2. keys \in SUBSET Labels /\ x.rule \in keys
  BY <1>1
<1>3. Labels \in SUBSET Rule
  BY BackendAssumption DEF Rule
<1> HIDE DEF keys
<1>4. x.rule \in Visited(keys, x.rule)
  BY <1>1, <1>2, <1>3, ExactIsVisited
<1>5. x.rule \in VisitedFor[keys][x.rule]
  BY <1>1, <1>2, <1>4 DEF VisitedFor
<1> QED BY <1>5 DEF Notified, keys

LEMMA HeardByExact ==
  ASSUME TypeOK, \A l \in Labels : Plain(l), NEW x \in listeners, NEW ls, NEW t
  PROVE  HeardAfter(ls, t)[x.name][x.rule] =
           IF x.rule \in ls THEN t[x.rule] ELSE heard[x.name][x.rule]
<1>1. x.name \in Listeners /\ x.rule \in Labels
  BY DEF TypeOK, Listener
<1>2. \E y \in Notified(x.rule) : y.name = x.name
  BY ExactIsNotified
<1> QED BY <1>1, <1>2 DEF HeardAfter

\* A write that announces the nodes ls, and leaves the others alone or takes
\* them along, keeps the listeners current.
LEMMA AnnouncedStep ==
  ASSUME TypeOK, \A l \in Labels : Plain(l), ExactListenersCurrent, UNCHANGED listeners,
         NEW ls, heard' = HeardAfter(ls, tree'),
         \A l \in Labels \ ls : l \notin unannounced' =>
                                  l \notin unannounced /\ tree'[l] = tree[l]
  PROVE  ExactListenersCurrent'
<1> SUFFICES ASSUME NEW x \in listeners, x.rule \notin unannounced'
             PROVE  heard'[x.name][x.rule] = tree'[x.rule]
  BY DEF ExactListenersCurrent
<1>1. x.rule \in Labels
  BY DEF TypeOK, Listener
<1>2. heard'[x.name][x.rule] = IF x.rule \in ls THEN tree'[x.rule] ELSE heard[x.name][x.rule]
  BY HeardByExact
<1> QED BY <1>1, <1>2 DEF ExactListenersCurrent

LEMMA ApplyTransactionAnnounced ==
  ASSUME TypeOK, \A l \in Labels : Plain(l), ExactListenersCurrent,
         NEW tx \in Seq(SubChange), ApplyTransaction(tx)
  PROVE  ExactListenersCurrent'
<1>1. /\ tree' = Apply(tree, tx) /\ heard' = HeardAfter(Named(tx), tree')
      /\ unannounced' = unannounced \ Named(tx) /\ listeners' = listeners
  BY Zenon DEF ApplyTransaction, Named
<1>2. \A l \in Labels \ Named(tx) : tree'[l] = tree[l]
  BY <1>1, ApplyMeaning DEF TypeOK
<1> HIDE DEF Named
<1> QED BY <1>1, <1>2, AnnouncedStep

LEMMA ExactStep ==
  ASSUME \A l \in Labels : Plain(l), TypeOK, ExactListenersCurrent, [Next]_vars
  PROVE  ExactListenersCurrent'
<1>1. ASSUME NEW a \in Authors, Transact(a) PROVE ExactListenersCurrent'
  BY <1>1, TransactIsApply, ApplyTransactionAnnounced
<1>2. ASSUME NEW ls \in SUBSET Labels, NEW n \in Node, UpsertNode(ls, n)
      PROVE  ExactListenersCurrent'
  BY <1>2, AnnouncedStep DEF UpsertNode
<1>3. ASSUME NEW l \in Labels, DeleteNode(l) PROVE ExactListenersCurrent'
  <2>1. /\ heard' = HeardAfter({l}, tree') /\ listeners' = listeners
        /\ unannounced' = (unannounced \union {m \in Labels : tree'[m] # tree[m]}) \ {l}
    BY <1>3 DEF DeleteNode
  <2> QED BY <2>1, AnnouncedStep
<1>4. ASSUME NEW x \in Listener, RegisterNodeListener(x) PROVE ExactListenersCurrent'
  <2> SUFFICES ASSUME NEW y \in listeners', y.rule \notin unannounced
               PROVE  heard'[y.name][y.rule] = tree[y.rule]
    BY <1>4 DEF ExactListenersCurrent, RegisterNodeListener
  <2>1. /\ y \in listeners \/ y = x
        /\ x.name \in Listeners /\ heard \in [Listeners -> Tree]
        /\ heard' = [heard EXCEPT ![x.name] = tree]
        /\ \A z \in listeners : z.name \in Listeners
    BY <1>4 DEF RegisterNodeListener, TypeOK, Listener
  <2>2. CASE y.name = x.name
    BY <2>1, <2>2
  <2>3. CASE y.name # x.name
    BY <2>1, <2>3 DEF ExactListenersCurrent
  <2> QED BY <2>2, <2>3
<1>5. ASSUME NEW x \in Listeners, NEW l \in Labels, DeregisterNodeListener(x, l)
      PROVE  ExactListenersCurrent'
  BY <1>5 DEF DeregisterNodeListener, ExactListenersCurrent
<1>6. ASSUME UNCHANGED <<tree, listeners, heard, unannounced>> PROVE ExactListenersCurrent'
  BY <1>6 DEF ExactListenersCurrent
<1> QED BY <1>1, <1>2, <1>3, <1>4, <1>5, <1>6 DEF Next, Read, vars

\* Listeners hold the current nodes of their rules, whatever is written and in
\* whatever order they come and go, if no label carries a query.
THEOREM ListenersCurrent ==
  ASSUME \A l \in Labels : Plain(l)
  PROVE  Spec => []ExactListenersCurrent
<1> DEFINE I == TypeOK /\ ExactListenersCurrent
<1>1. Init => I
  BY TypeInit DEF Init, ExactListenersCurrent
<1>2. I /\ [Next]_vars => I'
  BY TypeStep, ExactStep
<1> QED BY <1>1, <1>2, PTL DEF Spec

LEMMA NotifiedIsInRule ==
  ASSUME \A l \in Labels : Plain(l), TypeOK
  PROVE  NotifiedOnlyInRule
<1> SUFFICES ASSUME NEW l \in Labels, NEW x \in Notified(l), x.rule # l
             PROVE  x.children /\ IsAncestorOrSelf(x.rule, l)
  BY DEF NotifiedOnlyInRule
<1> DEFINE keys == {y.rule : y \in listeners}
<1>1. \A y \in listeners : y.rule \in Labels
  BY DEF TypeOK, Listener
<1>2. keys \in SUBSET Labels /\ Labels \in SUBSET Rule
  BY <1>1, BackendAssumption DEF Rule
<1>3. x \in listeners /\ x.rule \in VisitedFor[keys][l] /\ x.children /\ Overlaps[l][x.rule]
  BY DEF Notified
<1> HIDE DEF keys
<1>4. x.rule \in Visited(keys, l) /\ checkLabelRuleOverlap(l, x.rule)
  BY <1>1, <1>2, <1>3 DEF VisitedFor, Overlaps
<1>5. x.rule \in Rule /\ l \in Rule
  BY <1>1, <1>2, <1>3
<1>6. IsPrefix(x.rule, l)
  BY <1>2, <1>4, <1>5, VisitedIsPrefix
<1> QED BY <1>3, <1>4, <1>5, <1>6, MatchIsAncestor

\* The string comparisons of the listener map never tell a listener about a node
\* outside its rule, for all labels without a query.
THEOREM NotifiedInRule ==
  ASSUME \A l \in Labels : Plain(l)
  PROVE  Spec => []NotifiedOnlyInRule
<1>1. TypeOK => NotifiedOnlyInRule
  BY NotifiedIsInRule
<1> QED BY <1>1, BackendTypeCorrect, PTL

-----------------------------------------------------------------------------
(***************************************************************************)
(* The stack of a transaction.                                             *)
(*                                                                         *)
(* LayersDisjoint compares present parents only, and says nothing of the   *)
(* children a later layer carries.  LayersInv adds what CommitShowsWhatWas-*)
(* Seen needs: no later layer names the parent of an earlier, present one, *)
(* whether its own parent is still present or not, and no layer names its  *)
(* own parent among its children.                                          *)
(***************************************************************************)

LayersApart ==
    \A j, k \in DOMAIN stack :
        j < k /\ stack[j].parent.node # Nothing =>
            /\ ~checkLabelRuleOverlap(stack[k].parent.label, stack[j].parent.label)
            /\ \A ch \in stack[k].children : ch.label # stack[j].parent.label

ChildrenErase ==
    \A k \in DOMAIN stack : \A ch \in stack[k].children :
        ch.node = Nothing /\ ch.label # stack[k].parent.label

LayersInv ==
    /\ TypeOK
    /\ calls \in 0..MaxLayers
    /\ stack \in Seq(SubChange)
    /\ LayersApart
    /\ ChildrenErase

-----------------------------------------------------------------------------
(* Lemmas *)

LEMMA FirstMeaning ==
  ASSUME NEW ks \in SUBSET Nat, ks # {}
  PROVE  First(ks) \in ks /\ \A j \in ks : First(ks) <= j
BY LeastExists DEF First

LEMMA OverlapsItself ==
  ASSUME NEW l
  PROVE  checkLabelRuleOverlap(l, l)
BY DEF checkLabelRuleOverlap

\* It does not matter which of two rules is compared with the other.
LEMMA OverlapSymmetric ==
  ASSUME NEW r, NEW s, checkLabelRuleOverlap(r, s)
  PROVE  checkLabelRuleOverlap(s, r)
<1>1. ASSUME NEW a, NEW b, DirectoriesOverlap(a, b)
      PROVE  DirectoriesOverlap(b, a)
  <2>1. {LastSlash(a), LastSlash(b)} \ {0} = {LastSlash(b), LastSlash(a)} \ {0}
    OBVIOUS
  <2> QED BY <1>1, <2>1 DEF DirectoriesOverlap
<1> QED BY <1>1 DEF checkLabelRuleOverlap

LEMMA LayerPositions ==
  ASSUME stack \in Seq(SubChange)
  PROVE  /\ Len(stack) \in Nat /\ DOMAIN stack = 1..Len(stack)
         /\ \A k \in DOMAIN stack : k \in Nat /\ stack[k] \in SubChange
         /\ \A l : Overlapping(l) \in SUBSET Nat /\ Tracking(l) \in SUBSET Overlapping(l)
<1>1. Len(stack) \in Nat /\ DOMAIN stack = 1..Len(stack)
  BY LenProperties
<1>2. \A k \in DOMAIN stack : k \in Nat /\ stack[k] \in SubChange
  BY <1>1, ElementOfSeq
<1> QED BY <1>1, <1>2 DEF Overlapping, Tracking

\* The node a layer tracks is its parent: a child in a layer is an erasure.
LEMMA TrackedIsParent ==
  ASSUME ChildrenErase, NEW l, NEW k \in Tracking(l)
  PROVE  k \in DOMAIN stack /\ stack[k].parent.node # Nothing /\ stack[k].parent.label = l
BY DEF ChildrenErase, Tracking, Overlapping, HoldsChild

-----------------------------------------------------------------------------
(* Steps *)

\* Writing or erasing the parent of a layer.
LEMMA PutStep ==
  ASSUME LayersInv, NEW l \in Labels, NEW k \in Tracking(l), NEW n \in Node \union {Nothing},
         Put(k, l, n)
  PROVE  stack' \in Seq(SubChange) /\ LayersApart' /\ ChildrenErase'
<1>1. k \in DOMAIN stack /\ stack[k].parent.node # Nothing /\ stack[k].parent.label = l
  BY TrackedIsParent DEF LayersInv
<1>2. /\ Len(stack) \in Nat /\ DOMAIN stack = 1..Len(stack)
      /\ \A i \in DOMAIN stack : i \in Nat /\ stack[i] \in SubChange
  BY LayerPositions DEF LayersInv
<1> DEFINE sub == [stack[k] EXCEPT !.parent.node = n]
<1>3. stack' = [stack EXCEPT ![k] = sub]
  BY <1>1 DEF Put
<1>4. /\ sub \in SubChange /\ sub.parent.label = stack[k].parent.label
      /\ sub.children = stack[k].children
  BY <1>1, <1>2 DEF SubChange, NodeChange
<1> HIDE DEF sub
<1>5. stack' \in Seq(SubChange)
  BY <1>1, <1>2, <1>3, <1>4, ExceptSeq DEF LayersInv
<1>6. /\ DOMAIN stack' = DOMAIN stack
      /\ \A i \in DOMAIN stack :
           /\ stack'[i].parent.label = stack[i].parent.label
           /\ stack'[i].children = stack[i].children
           /\ stack'[i].parent.node # Nothing => stack[i].parent.node # Nothing
  BY <1>1, <1>2, <1>3, <1>4
<1>7. LayersApart'
  BY <1>6 DEF LayersInv, LayersApart
<1>8. ChildrenErase'
  BY <1>6 DEF LayersInv, ChildrenErase
<1> QED BY <1>5, <1>7, <1>8

LEMMA OpenStep ==
  ASSUME LayersInv, NEW l \in Labels, NEW n \in Node, OpenTransactionLayer(l, n)
  PROVE  stack' \in Seq(SubChange) /\ LayersApart' /\ ChildrenErase'
<1> DEFINE old == IF tree[l] = Nothing THEN Nothing ELSE NextVersion(tree[l].version)
           sub == SubTransaction(Change(old, l, n), {})
<1>1. stack' = Append(stack, sub) /\ Overlapping(l) = {}
  BY DEF OpenTransactionLayer
<1>2. old \in Versions \union {Nothing}
  BY NextVersionMeaning DEF LayersInv, TypeOK, Tree, Node
<1>3. sub \in SubChange /\ sub.parent.label = l /\ sub.children = {}
  BY <1>2 DEF SubTransaction, Change, SubChange, NodeChange
<1> HIDE DEF sub, old
<1>4. /\ Len(stack) \in Nat /\ DOMAIN stack = 1..Len(stack)
  BY LayerPositions DEF LayersInv
<1>5. /\ stack' \in Seq(SubChange) /\ DOMAIN stack' = 1..Len(stack) + 1
      /\ stack'[Len(stack) + 1] = sub
      /\ \A i \in 1..Len(stack) : stack'[i] = stack[i]
  BY <1>1, <1>3, <1>4, AppendProperties DEF LayersInv
<1>6. ASSUME NEW j \in DOMAIN stack', NEW k \in DOMAIN stack', j < k,
             stack'[j].parent.node # Nothing
      PROVE  /\ ~checkLabelRuleOverlap(stack'[k].parent.label, stack'[j].parent.label)
             /\ \A ch \in stack'[k].children : ch.label # stack'[j].parent.label
  <2>1. j \in DOMAIN stack /\ stack'[j] = stack[j]
    BY <1>4, <1>5, <1>6
  <2>2. CASE k = Len(stack) + 1
    BY <1>1, <1>3, <1>5, <1>6, <2>1, <2>2 DEF Overlapping
  <2>3. CASE k \in DOMAIN stack
    BY <1>4, <1>5, <1>6, <2>1, <2>3 DEF LayersInv, LayersApart
  <2> QED BY <1>4, <1>5, <2>2, <2>3
<1>7. ASSUME NEW k \in DOMAIN stack', NEW ch \in stack'[k].children
      PROVE  ch.node = Nothing /\ ch.label # stack'[k].parent.label
  BY <1>3, <1>4, <1>5 DEF LayersInv, ChildrenErase
<1> QED BY <1>5, <1>6, <1>7 DEF LayersApart, ChildrenErase

LEMMA UpsertStep ==
  ASSUME LayersInv, NEW l \in Labels, NEW m \in Labels, NEW n \in Node, LayerUpsert(<<l, m>>, n)
  PROVE  stack' \in Seq(SubChange) /\ LayersApart' /\ ChildrenErase'
<1> DEFINE tracked == {i \in DOMAIN <<l, m>> : Tracking(<<l, m>>[i]) # {}}
           w == <<l, m>>[First(tracked)]
<1>1. CASE tracked = {}
  <2>1. stack' = stack
    BY <1>1, Zenon DEF LayerUpsert
  <2> QED BY <2>1 DEF LayersInv, LayersApart, ChildrenErase
<1>2. CASE tracked # {}
  <2>1. Put(First(Tracking(w)), w, n)
    BY <1>2, Zenon DEF LayerUpsert
  <2>2. tracked \in SUBSET Nat
    OBVIOUS
  <2>3. First(tracked) \in tracked
    BY <1>2, <2>2, FirstMeaning
  <2>4. w \in Labels /\ Tracking(w) # {}
    <3>1. \A i \in DOMAIN <<l, m>> : <<l, m>>[i] \in Labels
      OBVIOUS
    <3>2. \A i \in tracked : <<l, m>>[i] \in Labels /\ Tracking(<<l, m>>[i]) # {}
      BY <3>1, Zenon
    <3> HIDE DEF tracked
    <3> QED BY <2>3, <3>2, Zenon
  <2> HIDE DEF w
  <2>5. First(Tracking(w)) \in Tracking(w)
    BY <2>4, LayerPositions, FirstMeaning DEF LayersInv
  <2> QED BY <2>1, <2>4, <2>5, PutStep
<1> QED BY <1>1, <1>2

LEMMA DeleteStep ==
  ASSUME LayersInv, NEW l \in Labels, LayerDelete(l)
  PROVE  stack' \in Seq(SubChange) /\ LayersApart' /\ ChildrenErase'
<1> DEFINE k == First(Overlapping(l))
           c == Change(Nothing, l, Nothing)
           sub == [stack[k] EXCEPT !.children = @ \union {c}]
<1>1. /\ Len(stack) \in Nat /\ DOMAIN stack = 1..Len(stack)
      /\ \A i \in DOMAIN stack : i \in Nat /\ stack[i] \in SubChange
      /\ Overlapping(l) \in SUBSET Nat
  BY LayerPositions DEF LayersInv
<1>2. k \in Overlapping(l) /\ \A j \in Overlapping(l) : k <= j
  BY <1>1, FirstMeaning DEF LayerDelete
<1>3. k \in DOMAIN stack
  BY <1>2 DEF Overlapping
<1>4. CASE k \in Tracking(l)
  <2>1. Put(k, l, Nothing)
    BY <1>4 DEF LayerDelete
  <2> HIDE DEF k
  <2> QED BY <1>4, <2>1, PutStep
<1>5. CASE k \notin Tracking(l)
  <2>1. stack' = [stack EXCEPT ![k] = sub]
    BY <1>5 DEF LayerDelete
  <2>2. stack[k].parent.label # l
    BY <1>2, <1>5 DEF Tracking
  <2>3. /\ sub \in SubChange /\ sub.parent = stack[k].parent
        /\ sub.children = stack[k].children \union {c}
        /\ c.label = l /\ c.node = Nothing
    BY <1>1, <1>3 DEF SubChange, NodeChange, Change
  <2> HIDE DEF sub, c, k
  <2>4. stack' \in Seq(SubChange)
    BY <1>1, <1>3, <2>1, <2>3, ExceptSeq DEF LayersInv
  <2>5. /\ DOMAIN stack' = DOMAIN stack
        /\ \A i \in DOMAIN stack :
             /\ stack'[i].parent = stack[i].parent
             /\ stack'[i].children = IF i = k THEN stack[k].children \union {c}
                                     ELSE stack[i].children
    BY <1>1, <1>3, <2>1, <2>3
  <2>6. \A j \in DOMAIN stack :
          j < k /\ stack[j].parent.node # Nothing => stack[j].parent.label # l
    BY <1>1, <1>2, <1>3, OverlapsItself DEF Overlapping
  <2>7. LayersApart'
    BY <2>3, <2>5, <2>6 DEF LayersInv, LayersApart
  <2>8. ChildrenErase'
    BY <2>2, <2>3, <2>5 DEF LayersInv, ChildrenErase
  <2> QED BY <2>4, <2>7, <2>8
<1> QED BY <1>4, <1>5

LEMMA CommitStep ==
  ASSUME LayersInv, CloseTransactionLayers
  PROVE  TypeOK' /\ stack' \in Seq(SubChange) /\ LayersApart' /\ ChildrenErase'
<1>1. writes' \in 0..MaxWrites
  BY DEF CloseTransactionLayers, LayersInv, TypeOK
<1>2. TypeOK'
  BY <1>1, ApplyTransactionType DEF CloseTransactionLayers, LayersInv
<1>3. stack' = <<>>
  BY DEF CloseTransactionLayers
<1> QED BY <1>2, <1>3 DEF LayersApart, ChildrenErase

LEMMA LayersInit == LayeredInit => LayersInv
BY TypeInit, LayersAssumption DEF LayeredInit, LayersInv, LayersApart, ChildrenErase

LEMMA LayersStep == LayersInv /\ [LayeredNext]_<<vars, layerVars>> => LayersInv'
<1> SUFFICES ASSUME LayersInv, [LayeredNext]_<<vars, layerVars>> PROVE LayersInv'
  OBVIOUS
<1>1. ASSUME Layered, UNCHANGED vars,
             stack' \in Seq(SubChange) /\ LayersApart' /\ ChildrenErase'
      PROVE  LayersInv'
  <2>1. calls' \in 0..MaxLayers
    BY <1>1, LayersAssumption DEF Layered, LayersInv
  <2>2. TypeOK'
    BY <1>1, TypeStep DEF LayersInv
  <2> QED BY <1>1, <2>1, <2>2 DEF LayersInv
<1>2. ASSUME NEW l \in Labels, NEW n \in Node, OpenTransactionLayer(l, n) PROVE LayersInv'
  BY <1>1, <1>2, OpenStep DEF OpenTransactionLayer
<1>3. ASSUME NEW l \in Labels, NEW m \in Labels, NEW n \in Node, LayerUpsert(<<l, m>>, n)
      PROVE  LayersInv'
  BY <1>1, <1>3, UpsertStep DEF LayerUpsert
<1>4. ASSUME NEW l \in Labels, LayerDelete(l) PROVE LayersInv'
  BY <1>1, <1>4, DeleteStep DEF LayerDelete
<1>5. CASE CloseTransactionLayers
  BY <1>5, CommitStep DEF CloseTransactionLayers, LayersInv
<1>6. CASE [Next]_vars /\ UNCHANGED layerVars
  <2>1. TypeOK'
    BY <1>6, TypeStep DEF LayersInv
  <2> QED BY <1>6, <2>1 DEF layerVars, LayersInv, LayersApart, ChildrenErase
<1> QED BY <1>2, <1>3, <1>4, <1>5, <1>6 DEF LayeredNext

LEMMA LayersInvariant == LayeredSpec => []LayersInv
BY LayersInit, LayersStep, PTL DEF LayeredSpec

-----------------------------------------------------------------------------
(* Commits *)

\* The user sees a present parent in the layer that holds it.
LEMMA UserSeesParent ==
  ASSUME LayersInv, NEW k \in DOMAIN stack, stack[k].parent.node # Nothing
  PROVE  GetNode(stack[k].parent.label) = stack[k].parent.node
<1> DEFINE l == stack[k].parent.label
<1>1. k \in Tracking(l)
  BY OverlapsItself DEF Tracking, Overlapping
<1>2. ASSUME NEW j \in Tracking(l) PROVE j = k
  <2>1. j \in DOMAIN stack /\ stack[j].parent.node # Nothing /\ stack[j].parent.label = l
    BY TrackedIsParent DEF LayersInv
  <2>2. checkLabelRuleOverlap(stack[j].parent.label, stack[k].parent.label)
        /\ checkLabelRuleOverlap(stack[k].parent.label, stack[j].parent.label)
    BY <2>1, OverlapsItself
  <2>3. j \in Nat /\ k \in Nat
    BY <2>1, LayerPositions DEF LayersInv
  <2> QED BY <2>1, <2>2, <2>3 DEF LayersInv, LayersApart
<1>3. First(Tracking(l)) = k
  BY <1>1, <1>2, LayerPositions, FirstMeaning DEF LayersInv
<1> HIDE DEF l
<1> QED BY <1>1, <1>3 DEF GetNode, l

\* No other layer decides what a commit makes of a present parent.
LEMMA CommitWritesParent ==
  ASSUME LayersInv, NEW k \in DOMAIN stack, stack[k].parent.node # Nothing
  PROVE  Apply(tree, stack)[stack[k].parent.label] = stack[k].parent.node
<1> DEFINE l == stack[k].parent.label
           naming == {j \in DOMAIN stack :
                        l \in {ch.label : ch \in {stack[j].parent} \union stack[j].children}}
<1>1. /\ Len(stack) \in Nat /\ DOMAIN stack = 1..Len(stack)
      /\ \A i \in DOMAIN stack : i \in Nat /\ stack[i] \in SubChange
  BY LayerPositions DEF LayersInv
<1>2. l \in Labels
  BY <1>1 DEF SubChange, NodeChange
<1>3. k \in naming /\ naming \in SUBSET (1..Len(stack))
  BY <1>1
<1>4. ASSUME NEW j \in naming, k < j PROVE FALSE
  <2>1. checkLabelRuleOverlap(l, l)
    BY OverlapsItself
  <2> QED BY <1>4, <2>1 DEF LayersInv, LayersApart
<1>5. Max(naming) \in naming /\ \A j \in naming : j <= Max(naming)
  <2> HIDE DEF naming
  <2> QED BY <1>1, <1>3, GreatestExists
<1>6. Max(naming) = k
  <2> HIDE DEF naming
  <2> QED BY <1>1, <1>3, <1>4, <1>5
<1>7. Apply(tree, stack)[l] = performSubTransaction(tree, stack[k])[l]
  <2>1. Apply(tree, stack)[l] = IF naming = {} THEN tree[l]
                                ELSE performSubTransaction(tree, stack[Max(naming)])[l]
    BY <1>2 DEF Apply
  <2> HIDE DEF naming
  <2> QED BY <1>3, <1>6, <2>1
<1>8. ~\E ch \in stack[k].children : ch.label = l
  BY DEF LayersInv, ChildrenErase
<1> QED BY <1>2, <1>7, <1>8 DEF performSubTransaction

LEMMA OnlyCommitEmpties ==
  ASSUME LayersInv, [LayeredNext]_<<vars, layerVars>>, stack # <<>>, stack' = <<>>
  PROVE  CloseTransactionLayers
<1>1. ASSUME NEW l, NEW n, OpenTransactionLayer(l, n) PROVE FALSE
  BY <1>1 DEF OpenTransactionLayer, LayersInv
<1>2. ASSUME NEW k, NEW l, NEW n, Put(k, l, n) PROVE FALSE
  BY <1>2 DEF Put, LayersInv
<1>3. ASSUME NEW ls, NEW n, LayerUpsert(ls, n) PROVE FALSE
  BY <1>2, <1>3 DEF LayerUpsert
<1>4. ASSUME NEW l, LayerDelete(l) PROVE FALSE
  BY <1>2, <1>4 DEF LayerDelete, LayersInv
<1> QED BY <1>1, <1>3, <1>4 DEF LayeredNext, layerVars

-----------------------------------------------------------------------------
(* Theorems *)

\* The layers keep their types, whatever is opened, written and committed.
THEOREM LayersTypeCorrect == LayeredSpec => []LayersTypeOK
<1>1. LayersInv => LayersTypeOK
  <2> SUFFICES ASSUME LayersInv PROVE LayersTypeOK
    OBVIOUS
  <2>1. \A k \in DOMAIN stack : stack[k] \in SubChange
    BY LayerPositions DEF LayersInv
  <2> QED BY <2>1 DEF LayersInv, LayersTypeOK, SubChange, NodeChange
<1> QED BY <1>1, LayersInvariant, PTL

\* No two layers answer for the same node, for any labels, queries included, and
\* any number of layers.
THEOREM LayersAreDisjoint == LayeredSpec => []LayersDisjoint
<1>1. LayersInv => LayersDisjoint
  <2> SUFFICES ASSUME LayersInv, NEW j \in DOMAIN stack, NEW k \in DOMAIN stack, j # k,
                      stack[j].parent.node # Nothing, stack[k].parent.node # Nothing,
                      checkLabelRuleOverlap(stack[j].parent.label, stack[k].parent.label)
               PROVE  FALSE
    BY DEF LayersDisjoint
  <2>1. j \in Nat /\ k \in Nat
    BY LayerPositions DEF LayersInv
  <2>2. checkLabelRuleOverlap(stack[k].parent.label, stack[j].parent.label)
    BY OverlapSymmetric
  <2> QED BY <2>1, <2>2 DEF LayersInv, LayersApart
<1> QED BY <1>1, LayersInvariant, PTL
\* A commit writes the nodes the user saw, however the layers came about: none
\* of the layers performed later undoes the parent of an earlier one.
THEOREM CommitShowsSeen == LayeredSpec => CommitShowsWhatWasSeen
<1> DEFINE Shown == stack # <<>> /\ stack' = <<>> =>
                      \A k \in DOMAIN stack :
                        LET p == stack[k].parent
                        IN  p.node # Nothing => tree'[p.label] = GetNode(p.label)
<1>1. ASSUME LayersInv, [LayeredNext]_<<vars, layerVars>> PROVE [Shown]_<<vars, layerVars>>
  <2> SUFFICES ASSUME stack # <<>>, stack' = <<>>, NEW k \in DOMAIN stack,
                      stack[k].parent.node # Nothing
               PROVE  tree'[stack[k].parent.label] = GetNode(stack[k].parent.label)
    BY DEF Shown
  <2> DEFINE l == stack[k].parent.label
  <2>1. CloseTransactionLayers
    BY <1>1, OnlyCommitEmpties
  <2>2. tree' = Apply(tree, stack)
    BY <2>1 DEF CloseTransactionLayers, ApplyTransaction
  <2>3. Apply(tree, stack)[l] = stack[k].parent.node
    BY <1>1, CommitWritesParent
  <2>4. GetNode(l) = stack[k].parent.node
    BY <1>1, UserSeesParent
  <2> QED BY <2>2, <2>3, <2>4
<1> QED BY <1>1, LayersInvariant, PTL DEF LayeredSpec, CommitShowsWhatWasSeen

\* What the SimpleBackend promises holds below open transactions and their
\* commits as well.
THEOREM LayersKeepBackend ==
  ASSUME \A l \in Labels : Plain(l)
  PROVE  LayeredSpec => [](StaleTransactionRejected /\ ExactListenersCurrent /\ NotifiedOnlyInRule)
<1> DEFINE I == LayersInv /\ ReadingTracked /\ ExactListenersCurrent
<1>1. LayeredInit => I
  BY LayersInit, TrackedInit DEF LayeredInit, Init, ExactListenersCurrent
<1>2. I /\ [LayeredNext]_<<vars, layerVars>> => I'
  <2> SUFFICES ASSUME I, [LayeredNext]_<<vars, layerVars>> PROVE I'
    OBVIOUS
  <2>1. LayersInv'
    BY LayersStep
  <2>2. CASE CloseTransactionLayers
    <3>1. ApplyTransaction(stack) /\ stack \in Seq(SubChange) /\ TypeOK /\ writes' \in 0..MaxWrites
      BY <2>2 DEF CloseTransactionLayers, LayersInv, TypeOK
    <3> QED BY <2>1, <3>1, ApplyTransactionTracked, ApplyTransactionAnnounced
  <2>3. CASE [Next]_vars
    BY <2>1, <2>3, TrackedStep, ExactStep DEF LayersInv
  <2> QED BY <2>2, <2>3
          DEF LayeredNext, OpenTransactionLayer, LayerUpsert, LayerDelete
<1>3. I => StaleTransactionRejected /\ ExactListenersCurrent /\ NotifiedOnlyInRule
  BY StaleIsRejected, NotifiedIsInRule DEF LayersInv
<1> QED BY <1>1, <1>2, <1>3, PTL DEF LayeredSpec
=============================================================================
