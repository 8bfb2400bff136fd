------------------------- MODULE JournalSyncProofs -------------------------
(***************************************************************************)
(* Proofs about JournalSync: the journal is the tail of what the server    *)
(* notified, a journal answer in flight fits the position of its client,   *)
(* and therefore no notification is skipped silently; clients that never   *)
(* fall off the journal hold what the server holds.                        *)
(***************************************************************************)
EXTENDS JournalSync, TLAPS, SequenceTheorems, WellFoundedInduction

\* A non-empty set of numbers below a bound has a greatest element; used to
\* know that "the last notification for a label" exists.
LEMMA GreatestExists ==
  ASSUME NEW n \in Nat, NEW T \in SUBSET (1..n), T # {}
  PROVE  \E k \in T : \A m \in T : m <= k
<1> DEFINE D == {n - k : k \in T}
           R == OpToRel(<, Nat)
<1>1. D \subseteq Nat
  <2> SUFFICES ASSUME NEW k \in T PROVE n - k \in Nat
    OBVIOUS
  <2> k \in 1..n
    OBVIOUS
  <2> QED OBVIOUS
<1>2. D # {}
  <2> PICK t \in T : TRUE
    OBVIOUS
  <2> n - t \in D
    OBVIOUS
  <2> QED OBVIOUS
<1>3. IsWellFoundedOn(R, Nat)
  BY NatLessThanWellFounded
<1> HIDE DEF R
<1>4. PICK x \in D : \A y \in D : ~ (<<y, x>> \in R)
  BY <1>1, <1>2, <1>3, WFMin
<1>5. \A y \in D : x <= y
  <2> SUFFICES ASSUME NEW y \in D, y < x PROVE FALSE
    BY <1>1
  <2> <<y, x>> \in Nat \X Nat
    BY <1>1
  <2> <<y, x>> \in R
    BY DEF R, OpToRel
  <2> QED BY <1>4
<1>6. PICK k \in T : x = n - k
  OBVIOUS
<1>7. \A m \in T : m <= k
  <2> SUFFICES ASSUME NEW m \in T PROVE m <= k
    OBVIOUS
  <2> n - m \in D
    OBVIOUS
  <2> n - k <= n - m
    BY <1>5, <1>6
  <2> m \in 1..n /\ k \in 1..n
    OBVIOUS
  <2> QED OBVIOUS
<1> QED BY <1>7

-----------------------------------------------------------------------------
(* The operators the protocol is built from *)

\* Appending a notification keeps the journal the bounded tail of the log
\* (http3_server.cpp:121-130).
LEMMA NotifyKeepsTail ==
  ASSUME TypeOK, JournalIsTailOfLog, NEW l \in Labels, NEW n \in Node,
         journal' = Notify(journal, l, n),
         log' = Append(log, [label |-> l, node |-> n])
  PROVE  /\ JournalIsTailOfLog'
         /\ journal' \in Seq(Notification)
         /\ log' \in Seq([label : Labels, node : Node])
<1> DEFINE e == [seq |-> LastSeq(journal) + 1, label |-> l, node |-> n]
           longer == Append(journal, e)
<1>1. /\ journal \in Seq(Notification) /\ log \in Seq([label : Labels, node : Node])
      /\ Len(journal) \in 1..MaxJournalSize /\ MaxJournalSize \in Nat \ {0}
      /\ LastSeq(journal) = Len(log) /\ Len(log) \in Nat
  BY JournalAssumption DEF TypeOK, JournalIsTailOfLog
<1>2. e \in Notification
  BY <1>1 DEF Notification
<1>3. /\ longer \in Seq(Notification)
      /\ Len(longer) = Len(journal) + 1
      /\ \A k \in 1..Len(journal) : longer[k] = journal[k]
      /\ longer[Len(journal) + 1] = e
  BY <1>1, <1>2
<1>4. /\ log' \in Seq([label : Labels, node : Node])
      /\ Len(log') = Len(log) + 1
      /\ \A k \in 1..Len(log) : log'[k] = log[k]
      /\ log'[Len(log) + 1] = [label |-> l, node |-> n]
  BY <1>1
<1>5. \A k \in 1..Len(longer) :
         /\ longer[k].seq = Len(log') - (Len(longer) - k)
         /\ longer[k].seq > 0 =>
              /\ longer[k].label = log'[longer[k].seq].label
              /\ longer[k].node = log'[longer[k].seq].node
  <2> SUFFICES ASSUME NEW k \in 1..Len(longer)
               PROVE  /\ longer[k].seq = Len(log') - (Len(longer) - k)
                      /\ longer[k].seq > 0 =>
                           /\ longer[k].label = log'[longer[k].seq].label
                           /\ longer[k].node = log'[longer[k].seq].node
    OBVIOUS
  <2>1. CASE k = Len(journal) + 1
    BY <1>1, <1>3, <1>4, <2>1
  <2>2. CASE k \in 1..Len(journal)
    <3>1. /\ journal[k].seq = Len(log) - (Len(journal) - k)
          /\ journal[k].seq > 0 =>
               /\ journal[k].label = log[journal[k].seq].label
               /\ journal[k].node = log[journal[k].seq].node
      BY <2>2 DEF JournalIsTailOfLog
    <3>2. longer[k] = journal[k]
      BY <1>3, <2>2
    <3>3. journal[k].seq > 0 => journal[k].seq \in 1..Len(log)
      BY <1>1, <2>2, <3>1
    <3> QED BY <1>1, <1>3, <1>4, <3>1, <3>2, <3>3
  <2> QED BY <1>1, <1>3, <2>1, <2>2
<1>6. CASE Len(longer) > MaxJournalSize
  <2>1. journal' = Tail(longer)
    BY <1>6 DEF Notify
  <2>2. longer # <<>>
    BY <1>1, <1>3
  <2>3. /\ journal' \in Seq(Notification)
        /\ Len(journal') = Len(longer) - 1
        /\ \A k \in 1..Len(journal') : journal'[k] = longer[k + 1]
    BY <1>3, <2>1, <2>2, HeadTailProperties
  <2>4. Len(journal') = Len(journal) /\ Len(journal') \in 1..MaxJournalSize
    BY <1>1, <1>3, <2>3
  <2>5. \A k \in 1..Len(journal') :
           /\ k + 1 \in 1..Len(longer)
           /\ Len(longer) - (k + 1) = Len(journal') - k
    BY <1>1, <1>3, <2>3
  <2>6. \A k \in 1..Len(journal') :
           /\ journal'[k].seq = Len(log') - (Len(journal') - k)
           /\ journal'[k].seq > 0 =>
                /\ journal'[k].label = log'[journal'[k].seq].label
                /\ journal'[k].node = log'[journal'[k].seq].node
    <3> SUFFICES ASSUME NEW k \in 1..Len(journal')
                 PROVE  /\ journal'[k].seq = Len(log') - (Len(journal') - k)
                        /\ journal'[k].seq > 0 =>
                             /\ journal'[k].label = log'[journal'[k].seq].label
                             /\ journal'[k].node = log'[journal'[k].seq].node
      OBVIOUS
    <3> DEFINE q == k + 1
    <3>1. /\ q \in 1..Len(longer) /\ journal'[k] = longer[q]
          /\ Len(longer) - q = Len(journal') - k
      BY <2>3, <2>5
    <3> HIDE DEF q, longer
    <3> QED BY <1>5, <3>1
  <2>7. LastSeq(journal') = Len(log')
    <3>1. journal'[Len(journal')].seq = Len(log') - (Len(journal') - Len(journal'))
      BY <1>1, <2>4, <2>6
    <3> QED BY <1>1, <1>4, <2>4, <3>1 DEF LastSeq
  <2> QED BY <1>4, <2>3, <2>4, <2>6, <2>7 DEF JournalIsTailOfLog
<1>7. CASE ~(Len(longer) > MaxJournalSize)
  <2>1. journal' = longer
    BY <1>7 DEF Notify
  <2>2. Len(journal') \in 1..MaxJournalSize
    BY <1>1, <1>3, <1>7, <2>1
  <2>3. LastSeq(journal') = Len(log')
    BY <1>1, <1>3, <1>4, <2>1 DEF LastSeq
  <2> QED BY <1>3, <1>4, <1>5, <2>1, <2>2, <2>3 DEF JournalIsTailOfLog
<1> QED BY <1>6, <1>7

\* The answer to position n continues the log exactly at n, or says that the
\* journal cannot (http3_server.cpp:177-213).
LEMMA ReplyFits ==
  ASSUME TypeOK, JournalIsTailOfLog, NEW n \in Nat
  PROVE  /\ JournalReply(journal, n) \in Seq(Notification)
         /\ \/ ContinuesAt(log, JournalReply(journal, n), n)
            \/ SaysWrong(JournalReply(journal, n))
<1> DEFINE N == Len(journal)
           first == Len(log) - (N - 1)
           it == LowerBound(journal, n)
<1>1. /\ journal \in Seq(Notification) /\ N \in Nat /\ N >= 1
      /\ Len(log) \in Nat /\ LastSeq(journal) = Len(log)
  BY JournalAssumption DEF TypeOK, JournalIsTailOfLog
<1>2. \A k \in 1..N : journal[k].seq = first + (k - 1)
  BY <1>1 DEF JournalIsTailOfLog
<1>3. \A k \in 1..N : journal[k] \in Notification
  BY <1>1
<1>4. journal[1].seq = first
  BY <1>1, <1>2
<1> DEFINE wrong == WrongJournalSequence(journal)
<1>5. wrong \in Seq(Notification) /\ SaysWrong(wrong)
  <2>1. \A m \in Nat : Mark(m) \in Notification /\ Mark(m).seq = m
    BY DEF Mark, Notification, Node
  <2>2. LastSeq(journal) \in Nat
    BY <1>1
  <2> QED BY <2>1, <2>2 DEF WrongJournalSequence, SaysWrong
<1>6. CASE n < first
  <2>1. JournalReply(journal, n) = wrong
    BY <1>4, <1>6 DEF JournalReply
  <2> QED BY <1>5, <2>1
<1>7. CASE n > Len(log)
  <2>1. \A k \in 1..N : journal[k].seq < n
    <3> TAKE k \in 1..N
    <3>1. journal[k].seq = first + (k - 1)
      BY <1>2
    <3>2. first + (k - 1) < n
      BY <1>1, <1>7
    <3> QED BY <3>1, <3>2
  <2>2. it = N + 1
    <3>1. \E k \in 1..N + 1 : /\ \A i \in 1..k - 1 : journal[i].seq < n
                              /\ k <= N => journal[k].seq >= n
      <4> N + 1 \in 1..N + 1
        BY <1>1
      <4> \A i \in 1..(N + 1) - 1 : journal[i].seq < n
        BY <1>1, <2>1
      <4> QED BY <1>1
    <3>2. /\ it \in 1..N + 1
          /\ it <= N => journal[it].seq >= n
      BY <3>1 DEF LowerBound
    <3>3. it <= N => it \in 1..N /\ journal[it].seq \in Nat
      BY <1>1, <1>3, <3>2 DEF Notification
    <3> QED BY <1>1, <2>1, <3>2, <3>3
  <2>3. JournalReply(journal, n) = wrong
    BY <1>1, <1>7, <2>2 DEF JournalReply
  <2> QED BY <1>5, <2>3
<1>8. CASE first <= n /\ n <= Len(log)
  <2> DEFINE at == n - first + 1
  <2>1. at \in 1..N
    BY <1>1, <1>8
  <2>2. it = at
    <3>1. \A i \in 1..at - 1 : journal[i].seq < n
      BY <1>1, <1>2, <1>8
    <3>2. journal[at].seq >= n
      BY <1>1, <1>2, <1>8, <2>1
    <3>3. \E k \in 1..N + 1 : /\ \A i \in 1..k - 1 : journal[i].seq < n
                              /\ k <= N => journal[k].seq >= n
      <4> at \in 1..N + 1
        BY <1>1, <2>1
      <4> QED BY <3>1, <3>2
    <3>4. /\ it \in 1..N + 1
          /\ \A i \in 1..it - 1 : journal[i].seq < n
          /\ it <= N => journal[it].seq >= n
      BY <3>3 DEF LowerBound
    <3>5. ~(it < at)
      <4> SUFFICES ASSUME it < at PROVE FALSE
        OBVIOUS
      <4> it \in 1..N /\ it \in 1..at - 1
        BY <1>1, <2>1, <3>4
      <4> journal[it].seq < n /\ journal[it].seq >= n /\ journal[it].seq \in Nat
        BY <1>3, <3>1, <3>4 DEF Notification
      <4> QED OBVIOUS
    <3>6. ~(at < it)
      <4> SUFFICES ASSUME at < it PROVE FALSE
        OBVIOUS
      <4> at \in 1..it - 1
        BY <1>1, <2>1, <3>4
      <4> journal[at].seq < n /\ journal[at].seq >= n /\ journal[at].seq \in Nat
        BY <1>3, <2>1, <3>2, <3>4 DEF Notification
      <4> QED OBVIOUS
    <3>7. it \in Int /\ at \in Int
      BY <1>1, <2>1, <3>4
    <3> HIDE DEF it, at
    <3> QED BY <3>5, <3>6, <3>7
  <2> DEFINE es == SubSeq(journal, at, N)
  <2>3. JournalReply(journal, n) = es
    BY <1>1, <1>4, <1>8, <2>1, <2>2 DEF JournalReply
  <2>4. /\ es \in Seq(Notification)
        /\ Len(es) = N - at + 1
        /\ \A k \in 1..N - at + 1 : es[k] = journal[at + k - 1]
    <3> at \in Int /\ N \in Int /\ at <= N
      BY <1>1, <2>1
    <3> \A i \in at..N : journal[i] \in Notification
      BY <1>1, <1>3, <2>1
    <3> HIDE DEF at
    <3> QED BY SubSeqProperties
  <2>5. Len(es) >= 1 /\ n + Len(es) - 1 <= Len(log)
    BY <1>1, <1>8, <2>1, <2>4
  <2>6. \A k \in 1..Len(es) :
           /\ es[k].seq = n + k - 1
           /\ es[k].seq > 0 =>
                /\ es[k].label = log[es[k].seq].label
                /\ es[k].node = log[es[k].seq].node
    <3> SUFFICES ASSUME NEW k \in 1..Len(es)
                 PROVE  /\ es[k].seq = n + k - 1
                        /\ es[k].seq > 0 =>
                             /\ es[k].label = log[es[k].seq].label
                             /\ es[k].node = log[es[k].seq].node
      OBVIOUS
    <3> DEFINE q == at + k - 1
    <3>1. q \in 1..N /\ es[k] = journal[q]
      BY <1>1, <2>1, <2>4
    <3>2. journal[q].seq = n + k - 1
      BY <1>1, <1>2, <2>1, <3>1
    <3> HIDE DEF q, es
    <3>3. journal[q].seq > 0 =>
             /\ journal[q].label = log[journal[q].seq].label
             /\ journal[q].node = log[journal[q].seq].node
      BY <3>1 DEF JournalIsTailOfLog
    <3> QED BY <3>1, <3>2, <3>3
  <2> HIDE DEF es
  <2> QED BY <2>3, <2>4, <2>5, <2>6 DEF ContinuesAt
<1> QED BY <1>1, <1>6, <1>7, <1>8

\* Replaying an answer that continues at n is replaying the log from n on, and
\* is never taken for a gap (http3_client_backend.cpp:517-553).
LEMMA ReplayIsLog ==
  ASSUME TypeOK, NEW n \in Nat, NEW es \in Seq(Notification),
         ContinuesAt(log, es, n), NEW nodes
  PROVE  /\ ~NotificationGap(es, n)
         /\ LastSeq(es) \in Nat
         /\ LastSeq(es) >= n
         /\ LastSeq(es) <= Len(log)
         /\ Replay(nodes, es, n) = AfterLog(nodes, n, LastSeq(es))
<1> DEFINE N == Len(es)
<1>1. /\ N \in Nat /\ N >= 1 /\ Len(log) \in Nat
      /\ n + N - 1 <= Len(log)
      /\ \A k \in 1..N : es[k].seq = n + k - 1
  BY DEF TypeOK, ContinuesAt
<1>2. LastSeq(es) = n + N - 1
  BY <1>1 DEF LastSeq
<1>3. ~NotificationGap(es, n)
  <2>1. ~(n < es[1].seq)
    BY <1>1
  <2>2. \A k \in 2..N : ~(es[k].seq > es[k - 1].seq + 1)
    <3> SUFFICES ASSUME NEW k \in 2..N PROVE ~(es[k].seq > es[k - 1].seq + 1)
      OBVIOUS
    <3> k \in 1..N /\ k - 1 \in 1..N
      BY <1>1
    <3> es[k].seq = n + k - 1 /\ es[k - 1].seq = n + (k - 1) - 1
      BY <1>1
    <3> QED OBVIOUS
  <2> QED BY <2>1, <2>2 DEF NotificationGap
<1>4. ASSUME NEW l \in Labels
      PROVE  Replay(nodes, es, n)[l] = AfterLog(nodes, n, LastSeq(es))[l]
  <2> DEFINE last == n + N - 1
             H == {k \in 1..N : es[k].seq > n /\ es[k].label = l}
             G == {k \in n + 1 .. last : log[k].label = l}
             h == CHOOSE k \in H : \A m \in H : m <= k
             g == CHOOSE k \in G : \A m \in G : m <= k
  <2>1. Replay(nodes, es, n)[l] = IF H = {} THEN nodes[l] ELSE es[h].node
    BY DEF Replay
  <2>2. AfterLog(nodes, n, LastSeq(es))[l] = IF G = {} THEN nodes[l] ELSE log[g].node
    BY <1>2 DEF AfterLog
  <2>3. ASSUME NEW k \in 1..N, k > 1
        PROVE  /\ es[k].seq = n + k - 1
               /\ es[k].label = log[n + k - 1].label
               /\ es[k].node = log[n + k - 1].node
    BY <1>1, <2>3 DEF ContinuesAt
  <2>4. ASSUME NEW k \in H PROVE n + k - 1 \in G /\ k \in 2..N
    <3>1. k \in 1..N /\ k > 1
      BY <1>1, <2>4
    <3> QED BY <1>1, <2>3, <2>4, <3>1
  <2>5. ASSUME NEW k \in G PROVE k - n + 1 \in H /\ k - n + 1 \in 2..N
    <3> DEFINE q == k - n + 1
    <3>1. q \in 1..N /\ q > 1 /\ n + q - 1 = k
      BY <1>1, <2>5
    <3>2. es[q].seq = k /\ es[q].label = log[k].label
      BY <2>3, <3>1
    <3> QED BY <1>1, <2>5, <3>1, <3>2
  <2>6. CASE H = {}
    <3>1. G = {}
      BY <2>5, <2>6
    <3> QED BY <2>1, <2>2, <2>6, <3>1
  <2>7. CASE H # {}
    <3> HIDE DEF H, G
    <3>1. H \in SUBSET (1..N)
      BY DEF H
    <3>2. PICK x \in H : \A m \in H : m <= x
      BY <1>1, <2>7, <3>1, GreatestExists
    <3>3. h \in H /\ \A m \in H : m <= h
      BY <3>2
    <3>4. h \in 2..N /\ n + h - 1 \in G
      BY <2>4, <3>3
    <3>5. \A m \in G : m <= n + h - 1
      <4> SUFFICES ASSUME NEW m \in G PROVE m <= n + h - 1
        OBVIOUS
      <4>1. m - n + 1 <= h
        BY <2>5, <3>3
      <4>2. m \in Int /\ h \in Int
        BY <1>1, <3>4 DEF G
      <4> QED BY <4>1, <4>2
    <3>6. g \in G /\ \A m \in G : m <= g
      BY <3>4, <3>5
    <3>7. g = n + h - 1
      <4>1. g \in Int /\ n + h - 1 \in Int
        BY <3>4, <3>6 DEF G
      <4>2. g <= n + h - 1 /\ n + h - 1 <= g
        BY <3>4, <3>5, <3>6
      <4> HIDE DEF g, h
      <4> QED BY <4>1, <4>2
    <3>8. es[h].node = log[n + h - 1].node
      BY <2>3, <3>4
    <3>9. G # {}
      BY <3>4
    <3> QED BY <2>1, <2>2, <2>7, <3>7, <3>8, <3>9
  <2> QED BY <2>6, <2>7
<1>5. Replay(nodes, es, n) = AfterLog(nodes, n, LastSeq(es))
  <2> DEFINE F(l) == Replay(nodes, es, n)[l]
             E(l) == AfterLog(nodes, n, LastSeq(es))[l]
  <2>1. Replay(nodes, es, n) = [l \in Labels |-> F(l)]
    BY DEF Replay
  <2>2. AfterLog(nodes, n, LastSeq(es)) = [l \in Labels |-> E(l)]
    BY DEF AfterLog
  <2> HIDE DEF F, E
  <2>3. \A l \in Labels : F(l) = E(l)
    BY <1>4 DEF F, E
  <2> QED BY <2>1, <2>2, <2>3
<1> QED BY <1>1, <1>2, <1>3, <1>5

\* An answer in flight still continues its position after the log has grown.
LEMMA ContinuesStable ==
  ASSUME NEW lg \in Seq([label : Labels, node : Node]),
         NEW e \in [label : Labels, node : Node],
         NEW n \in Nat, NEW es \in Seq(Notification), ContinuesAt(lg, es, n)
  PROVE  ContinuesAt(Append(lg, e), es, n)
<1> DEFINE more == Append(lg, e)
<1>1. Len(more) = Len(lg) + 1 /\ \A k \in 1..Len(lg) : more[k] = lg[k]
  OBVIOUS
<1>2. /\ Len(es) \in Nat /\ Len(es) >= 1 /\ n + Len(es) - 1 <= Len(lg)
      /\ \A k \in 1..Len(es) :
           /\ es[k].seq = n + k - 1
           /\ es[k].seq > 0 => /\ es[k].label = lg[es[k].seq].label
                               /\ es[k].node = lg[es[k].seq].node
  BY DEF ContinuesAt
<1>3. ASSUME NEW k \in 1..Len(es), es[k].seq > 0 PROVE es[k].seq \in 1..Len(lg)
  <2>1. es[k].seq = n + k - 1
    BY <1>2
  <2>2. k \in Nat /\ k <= Len(es) /\ Len(lg) \in Nat
    BY <1>2
  <2>3. n + k - 1 > 0 /\ n + k - 1 <= Len(lg)
    BY <1>2, <1>3, <2>1, <2>2
  <2> QED BY <2>1, <2>2, <2>3
<1> HIDE DEF more
<1>4. n + Len(es) - 1 <= Len(more)
  BY <1>1, <1>2
<1>5. ASSUME NEW k \in 1..Len(es)
      PROVE  /\ es[k].seq = n + k - 1
             /\ es[k].seq > 0 => /\ es[k].label = more[es[k].seq].label
                                 /\ es[k].node = more[es[k].seq].node
  BY <1>1, <1>2, <1>3
<1>6. ContinuesAt(more, es, n)
  BY <1>2, <1>4, <1>5 DEF ContinuesAt
<1> QED BY <1>6 DEF more

-----------------------------------------------------------------------------
(* The inductive invariant *)

IInv == TypeOK /\ JournalIsTailOfLog /\ JournalAnswerFitsPosition

\* The constructors of requests build requests.
LEMMA RequestTypes ==
  /\ \A l \in Labels, n \in Values : Upsert(l, n) \in QueuedRequest
  /\ \A l \in Labels, n \in Node : NotifyOf(l, n) \in QueuedRequest
  /\ \A l \in Labels : /\ Delete(l) \in QueuedRequest
                       /\ Register(l) \in QueuedRequest
                       /\ Deregister(l) \in QueuedRequest
  /\ Process \in QueuedRequest
  /\ GetPageTree \in QueuedRequest /\ GetFullTree \in QueuedRequest
  /\ \A n \in Nat : GetJournal(n) \in Request /\ GetJournal(n).type = "journal"
                      /\ GetJournal(n).last = n
  /\ \A r \in QueuedRequest : r \in Request /\ r.type # "journal"
BY DEF QueuedRequest, Request, Upsert, NotifyOf, Delete, Register, Deregister,
       Process, GetPageTree, GetFullTree, GetJournal

\* The constructors of streams build streams.
LEMMA StreamTypes ==
  /\ Idle \in Stream
  /\ \A r \in Request : Started(r) \in Stream
  /\ \A r \in Request, nodes \in NodeMap, es \in Seq(Notification) :
        Carrying("answered", r, nodes, es) \in Stream
<1>1. NoNodes \in NodeMap /\ <<>> \in Seq(Notification)
  BY DEF NoNodes, NodeMap, Node
<1> QED BY <1>1 DEF Idle, Started, Carrying, Stream

\* Replacing the stream of one client keeps the type of all of them.
LEMMA PutStream ==
  ASSUME NEW f \in [Clients -> [StreamIds -> Stream]],
         NEW c \in Clients, NEW i \in StreamIds, NEW s \in Stream
  PROVE  [f EXCEPT ![c][i] = s] \in [Clients -> [StreamIds -> Stream]]
<1> [f[c] EXCEPT ![i] = s] \in [StreamIds -> Stream]
  OBVIOUS
<1> QED OBVIOUS

\* The server starts with the journal of one entry and no request under way
\* (http3_server.h:25-31).
LEMMA InitInv == Init => IInv
<1> SUFFICES ASSUME Init PROVE IInv
  OBVIOUS
<1>1. journal \in Seq(Notification) /\ Len(journal) = 1 /\ journal[1].seq = 0
  BY DEF Init, InitialJournal, Mark, Notification, Node
<1>2. TypeOK
  BY <1>1, StreamTypes, JournalAssumption DEF Init, TypeOK, NodeMap, Node
<1>3. JournalIsTailOfLog
  BY <1>1, JournalAssumption DEF Init, JournalIsTailOfLog, LastSeq
<1>4. JournalAnswerFitsPosition
  BY DEF Init, JournalAnswerFitsPosition, Idle, Carrying, NoRequest
<1> QED BY <1>2, <1>3, <1>4 DEF IInv

\* A user's call only queues a request.
LEMMA CallInv ==
  ASSUME IInv, NEW c \in Clients, NEW nc \in NodeMap, NEW r \in QueuedRequest,
         Call(c, nc, r)
  PROVE  IInv'
<1>1. TypeOK'
  <2>1. pending' \in [Clients -> Seq(QueuedRequest)]
    <3> Append(pending[c], r) \in Seq(QueuedRequest)
      BY DEF IInv, TypeOK
    <3> QED BY DEF IInv, TypeOK, Call
  <2>2. cache' \in [Clients -> NodeMap] /\ ops' \in 0..MaxOps
    BY JournalAssumption DEF IInv, TypeOK, Call
  <2> QED BY <2>1, <2>2 DEF IInv, TypeOK, Call, serverVars
<1>2. JournalIsTailOfLog'
  BY DEF IInv, JournalIsTailOfLog, Call, serverVars, LastSeq
<1>3. JournalAnswerFitsPosition'
  <2>1. /\ streams' = streams /\ lastNotification' = lastNotification
        /\ journalWaiting' = journalWaiting /\ log' = log
    BY DEF Call, serverVars
  <2> QED BY <2>1 DEF IInv, JournalAnswerFitsPosition
<1> QED BY <1>1, <1>2, <1>3 DEF IInv

\* Each of the users' calls (http3_client_backend.cpp:71-117, 227-325).
LEMMA UserCallInv ==
  ASSUME IInv, NEW c \in Clients, UserCall(c)
  PROVE  IInv'
<1>1. cache[c] \in NodeMap
  BY DEF IInv, TypeOK
<1>2. ASSUME NEW l \in Labels, NEW n \in Values, UpsertNode(c, l, n) PROVE IInv'
  <2> [cache[c] EXCEPT ![l] = n] \in NodeMap
    BY <1>1 DEF NodeMap, Node
  <2> QED BY <1>2, CallInv, RequestTypes DEF UpsertNode
<1>3. ASSUME NEW l \in Labels, DeleteNode(c, l) PROVE IInv'
  <2> [cache[c] EXCEPT ![l] = Nothing] \in NodeMap
    BY <1>1 DEF NodeMap, Node
  <2> QED BY <1>3, CallInv, RequestTypes DEF DeleteNode
<1>4. ASSUME NEW l \in Labels, RegisterNodeListener(c, l) PROVE IInv'
  BY <1>1, <1>4, CallInv, RequestTypes DEF RegisterNodeListener
<1>5. CASE GetMutablePageTree(c)
  BY <1>1, <1>5, CallInv, RequestTypes DEF GetMutablePageTree
<1>6. CASE RequestFullTreeSync(c)
  BY <1>1, <1>6, CallInv, RequestTypes DEF RequestFullTreeSync
<1>7. ASSUME NEW l \in Labels, DeregisterNodeListener(c, l) PROVE IInv'
  BY <1>1, <1>7, CallInv, RequestTypes DEF DeregisterNodeListener
<1>8. ASSUME NEW l \in Labels, NEW n \in Node, NotifyListeners(c, l, n) PROVE IInv'
  BY <1>1, <1>8, CallInv, RequestTypes DEF NotifyListeners
<1>9. CASE ProcessNotifications(c)
  BY <1>1, <1>9, CallInv, RequestTypes DEF ProcessNotifications
<1> QED BY <1>2, <1>3, <1>4, <1>5, <1>6, <1>7, <1>8, <1>9 DEF UserCall

\* Starting a queued request, or a journal request when none is waiting, on an
\* idle stream (http3_client_backend.cpp:732-808).
LEMMA MaintainInv ==
  ASSUME IInv, NEW c \in Clients, NEW due \in BOOLEAN,
         MaintainRequestHandlers(c, due)
  PROVE  IInv'
<1>1. /\ streams \in [Clients -> [StreamIds -> Stream]]
      /\ pending \in [Clients -> Seq(QueuedRequest)]
      /\ lastNotification \in [Clients -> Nat]
      /\ journalWaiting \in [Clients -> BOOLEAN]
  BY DEF IInv, TypeOK
<1>2. pending[c] # <<>> => /\ Head(pending[c]) \in QueuedRequest
                           /\ Tail(pending[c]) \in Seq(QueuedRequest)
  BY <1>1
<1>3. /\ GetJournal(lastNotification[c]) \in Request
      /\ GetJournal(lastNotification[c]).type = "journal"
      /\ GetJournal(lastNotification[c]).last = lastNotification[c]
  BY <1>1, RequestTypes
<1>4. \A r : Started(r).request = r /\ Started(r).phase = "sent"
  BY DEF Started, Carrying
<1>5. /\ UNCHANGED <<serverVars, cache, lastNotification, ops, restarts>>
      /\ pending' \in [Clients -> Seq(QueuedRequest)]
      /\ journalWaiting' \in [Clients -> BOOLEAN]
      /\ streams' \in [Clients -> [StreamIds -> Stream]]
  <2>1. UNCHANGED <<serverVars, cache, lastNotification, ops, restarts>>
    BY DEF MaintainRequestHandlers
  <2>2. pending' \in [Clients -> Seq(QueuedRequest)]
    BY <1>1, <1>2 DEF MaintainRequestHandlers
  <2>3. journalWaiting' \in [Clients -> BOOLEAN]
    BY <1>1 DEF MaintainRequestHandlers
  <2>4. /\ pending[c] # <<>> => Started(Head(pending[c])) \in Stream
        /\ Started(GetJournal(lastNotification[c])) \in Stream
    BY <1>2, <1>3, StreamTypes, RequestTypes
  <2>5. streams' \in [Clients -> [StreamIds -> Stream]]
    <3>1. CASE \E i \in StreamIds : /\ pending[c] # <<>>
                 /\ streams' = [streams EXCEPT ![c][i] = Started(Head(pending[c]))]
      BY <1>1, <2>4, <3>1, PutStream
    <3>2. CASE \E i \in StreamIds : streams' = [streams EXCEPT
                 ![c][i] = Started(GetJournal(lastNotification[c]))]
      BY <1>1, <2>4, <3>2, PutStream
    <3>3. CASE \E i, k \in StreamIds : /\ pending[c] # <<>>
                 /\ streams' = [streams EXCEPT
                      ![c][i] = Started(Head(pending[c])),
                      ![c][k] = Started(GetJournal(lastNotification[c]))]
      <4>1. PICK i, k \in StreamIds : /\ pending[c] # <<>>
                 /\ streams' = [streams EXCEPT
                      ![c][i] = Started(Head(pending[c])),
                      ![c][k] = Started(GetJournal(lastNotification[c]))]
        BY <3>3
      <4> DEFINE f == [streams EXCEPT ![c][i] = Started(Head(pending[c]))]
      <4>2. f \in [Clients -> [StreamIds -> Stream]]
        BY <1>1, <2>4, <4>1, PutStream
      <4>3. streams' = [f EXCEPT ![c][k] = Started(GetJournal(lastNotification[c]))]
        BY <4>1
      <4> HIDE DEF f
      <4> QED BY <2>4, <4>2, <4>3, PutStream
    <3> QED BY <3>1, <3>2, <3>3 DEF MaintainRequestHandlers
  <2> QED BY <2>1, <2>2, <2>3, <2>5
<1>6. TypeOK'
  BY <1>5 DEF IInv, TypeOK, serverVars
<1>7. JournalIsTailOfLog'
  BY <1>5 DEF IInv, JournalIsTailOfLog, serverVars, LastSeq
<1>8. JournalAnswerFitsPosition'
  <2> SUFFICES ASSUME NEW d \in Clients, NEW i \in StreamIds,
                      streams'[d][i].request.type = "journal"
               PROVE  /\ journalWaiting'[d]
                      /\ streams'[d][i].request.last = lastNotification[d]
                      /\ \A k \in StreamIds :
                           streams'[d][k].request.type = "journal" => k = i
                      /\ streams'[d][i].phase = "answered" =>
                           \/ ContinuesAt(log, streams'[d][i].entries, lastNotification[d])
                           \/ SaysWrong(streams'[d][i].entries)
    <3>1. log' = log /\ lastNotification' = lastNotification
      BY <1>5 DEF serverVars
    <3> QED BY <3>1 DEF JournalAnswerFitsPosition
  <2>1. CASE d # c
    <3> streams'[d] = streams[d] /\ journalWaiting'[d] = journalWaiting[d]
      BY <1>1, <2>1 DEF MaintainRequestHandlers
    <3> QED BY DEF IInv, JournalAnswerFitsPosition
  <2>2. CASE d = c /\ journalWaiting'[c] = journalWaiting[c]
    <3>1. PICK j \in StreamIds :
             /\ pending[c] # <<>>
             /\ streams' = [streams EXCEPT ![c][j] = Started(Head(pending[c]))]
      BY <1>1, <2>2 DEF MaintainRequestHandlers
    <3>2. streams'[c][j].request.type # "journal"
      BY <1>1, <1>2, <1>4, <3>1, RequestTypes
    <3>3. \A k \in StreamIds : k # j => streams'[c][k] = streams[c][k]
      BY <1>1, <3>1
    <3>4. i # j
      BY <2>2, <3>2
    <3> QED BY <2>2, <3>2, <3>3, <3>4 DEF IInv, JournalAnswerFitsPosition
  <2>3. CASE d = c /\ journalWaiting'[c] # journalWaiting[c]
    <3>1. ~journalWaiting[c] /\ journalWaiting'[c]
      BY <1>1, <2>3 DEF MaintainRequestHandlers
    <3>2. \A k \in StreamIds : streams[c][k].request.type # "journal"
      BY <3>1 DEF IInv, JournalAnswerFitsPosition
    <3>3. PICK j \in StreamIds :
             /\ streams'[c][j] = Started(GetJournal(lastNotification[c]))
             /\ \A k \in StreamIds :
                  k # j => streams'[c][k].request.type # "journal"
      <4>1. CASE pending[c] = <<>>
        <5>1. PICK j \in StreamIds : streams' = [streams EXCEPT
                    ![c][j] = Started(GetJournal(lastNotification[c]))]
          BY <1>1, <2>3, <4>1 DEF MaintainRequestHandlers
        <5>2. /\ streams'[c][j] = Started(GetJournal(lastNotification[c]))
              /\ \A k \in StreamIds : k # j => streams'[c][k] = streams[c][k]
          BY <1>1, <5>1
        <5> QED BY <3>2, <5>2
      <4>2. CASE pending[c] # <<>>
        <5>1. PICK m, j \in StreamIds :
                 /\ m # j
                 /\ streams' = [streams EXCEPT
                      ![c][m] = Started(Head(pending[c])),
                      ![c][j] = Started(GetJournal(lastNotification[c]))]
          BY <1>1, <2>3, <4>2 DEF MaintainRequestHandlers
        <5>2. /\ streams'[c][j] = Started(GetJournal(lastNotification[c]))
              /\ streams'[c][m] = Started(Head(pending[c]))
              /\ \A k \in StreamIds :
                   k # j /\ k # m => streams'[c][k] = streams[c][k]
          BY <1>1, <5>1
        <5>3. streams'[c][m].request.type # "journal"
          BY <1>2, <1>4, <4>2, <5>2, RequestTypes
        <5> QED BY <3>2, <5>2, <5>3
      <4> QED BY <4>1, <4>2
    <3>4. i = j
      BY <2>3, <3>3
    <3> QED BY <1>3, <1>4, <2>3, <3>1, <3>3, <3>4
  <2> QED BY <2>1, <2>2, <2>3
<1> QED BY <1>6, <1>7, <1>8 DEF IInv

\* The journal streams that are not touched keep their fit while the log stands
\* still or grows and the positions do not move.
LEMMA UntouchedFits ==
  ASSUME IInv, NEW d \in Clients, NEW k \in StreamIds,
         streams[d][k].request.type = "journal",
         streams[d][k].phase = "answered",
         NEW lg, \/ lg = log
                 \/ \E e \in [label : Labels, node : Node] : lg = Append(log, e)
  PROVE  \/ ContinuesAt(lg, streams[d][k].entries, lastNotification[d])
         \/ SaysWrong(streams[d][k].entries)
<1>1. /\ log \in Seq([label : Labels, node : Node])
      /\ lastNotification[d] \in Nat
      /\ streams[d][k].entries \in Seq(Notification)
  BY DEF IInv, TypeOK, Stream
<1>2. \/ ContinuesAt(log, streams[d][k].entries, lastNotification[d])
      \/ SaysWrong(streams[d][k].entries)
  BY DEF IInv, JournalAnswerFitsPosition
<1> QED BY <1>1, <1>2, ContinuesStable

\* A stream that carries no journal request may change in any way.
LEMMA OtherStreamInv ==
  ASSUME IInv, NEW c \in Clients, NEW i \in StreamIds, NEW s \in Stream,
         streams' = [streams EXCEPT ![c][i] = s],
         s.request.type # "journal",
         lastNotification' = lastNotification, journalWaiting' = journalWaiting,
         \/ log' = log
         \/ \E e \in [label : Labels, node : Node] : log' = Append(log, e)
  PROVE  JournalAnswerFitsPosition'
<1>1. /\ streams \in [Clients -> [StreamIds -> Stream]]
      /\ log \in Seq([label : Labels, node : Node])
      /\ lastNotification \in [Clients -> Nat]
  BY DEF IInv, TypeOK
<1>2. /\ streams'[c][i] = s
      /\ \A d \in Clients, k \in StreamIds :
           d # c \/ k # i => streams'[d][k] = streams[d][k]
  BY <1>1
<1>3. \A d \in Clients, k \in StreamIds :
         streams'[d][k].request.type = "journal" => streams'[d][k] = streams[d][k]
  BY <1>2
<1> SUFFICES ASSUME NEW d \in Clients, NEW k \in StreamIds,
                    streams'[d][k].request.type = "journal"
             PROVE  /\ journalWaiting[d]
                    /\ streams'[d][k].request.last = lastNotification[d]
                    /\ \A m \in StreamIds :
                         streams'[d][m].request.type = "journal" => m = k
                    /\ streams'[d][k].phase = "answered" =>
                         \/ ContinuesAt(log', streams'[d][k].entries, lastNotification[d])
                         \/ SaysWrong(streams'[d][k].entries)
  BY DEF JournalAnswerFitsPosition
<1>6. streams'[d][k] = streams[d][k] /\ streams[d][k].request.type = "journal"
  BY <1>3
<1>7. /\ journalWaiting[d]
      /\ streams[d][k].request.last = lastNotification[d]
      /\ \A m \in StreamIds : streams[d][m].request.type = "journal" => m = k
  BY <1>6 DEF IInv, JournalAnswerFitsPosition
<1>8. streams[d][k].phase = "answered" =>
         \/ ContinuesAt(log', streams[d][k].entries, lastNotification[d])
         \/ SaysWrong(streams[d][k].entries)
  BY <1>6, UntouchedFits
<1> QED BY <1>3, <1>6, <1>7, <1>8

\* The server answers one request (http3_server.cpp:50-218).
LEMMA ServerHandleInv ==
  ASSUME IInv, NEW c \in Clients, NEW i \in StreamIds, ServerHandle(c, i)
  PROVE  IInv'
<1> DEFINE r == streams[c][i].request
<1>1. /\ streams \in [Clients -> [StreamIds -> Stream]]
      /\ tree \in NodeMap /\ mutablePage \in SUBSET Labels
      /\ listeningLabels \in SUBSET Labels
      /\ lastNotification \in [Clients -> Nat]
      /\ TypeOK /\ JournalIsTailOfLog
  BY DEF IInv, TypeOK
<1>2. NoNodes \in NodeMap /\ <<>> \in Seq(Notification)
  BY DEF NoNodes, NodeMap, Node
<1>3. r \in Request /\ streams[c][i].phase = "sent"
  <2>1. streams[c][i].phase = "sent"
    BY DEF ServerHandle
  <2>2. r # NoRequest
    BY DEF ServerHandle, ServeUpsert, ServeDelete, ServePageTree, ServeFullTree,
           ServeRegister, ServeNothing, ServeNotify, ServeJournal, NoRequest
  <2> QED BY <1>1, <2>1, <2>2 DEF Stream
<1>4. /\ UNCHANGED <<clientVars, ops, restarts>>
      /\ lastNotification' = lastNotification /\ journalWaiting' = journalWaiting
  BY DEF ServerHandle, clientVars
<1>5. ASSUME NEW nodes \in NodeMap, NEW es \in Seq(Notification),
             streams' = [streams EXCEPT ![c][i] = Carrying("answered", r, nodes, es)]
      PROVE  /\ streams' \in [Clients -> [StreamIds -> Stream]]
             /\ Carrying("answered", r, nodes, es) \in Stream
             /\ Carrying("answered", r, nodes, es).request = r
             /\ Carrying("answered", r, nodes, es).entries = es
  <2>1. Carrying("answered", r, nodes, es) \in Stream
    BY <1>3, StreamTypes
  <2>2. streams' \in [Clients -> [StreamIds -> Stream]]
    BY <1>1, <1>5, <2>1, PutStream
  <2>3. /\ Carrying("answered", r, nodes, es).request = r
        /\ Carrying("answered", r, nodes, es).entries = es
    BY DEF Carrying
  <2> QED BY <2>1, <2>2, <2>3
<1>6. ASSUME NEW l \in Labels, NEW n \in Node, Announce(l, n),
             tree' \in NodeMap, UNCHANGED <<listeningLabels, mutablePage>>,
             r.type # "journal",
             streams' = [streams EXCEPT ![c][i] = Carrying("answered", r, NoNodes, <<>>)]
      PROVE  IInv'
  <2>2. CASE l \in listeningLabels
    <3>1. journal' = Notify(journal, l, n) /\ log' = Append(log, [label |-> l, node |-> n])
      BY <1>6, <2>2 DEF Announce
    <3>2. /\ JournalIsTailOfLog' /\ journal' \in Seq(Notification)
          /\ log' \in Seq([label : Labels, node : Node])
      BY <1>1, <3>1, NotifyKeepsTail
    <3>3. TypeOK'
      BY <1>2, <1>4, <1>5, <1>6, <3>2 DEF IInv, TypeOK, clientVars
    <3>4. JournalAnswerFitsPosition'
      <4>1. \E e \in [label : Labels, node : Node] : log' = Append(log, e)
        <5> [label |-> l, node |-> n] \in [label : Labels, node : Node]
          OBVIOUS
        <5> QED BY <3>1
      <4>2. /\ Carrying("answered", r, NoNodes, <<>>) \in Stream
            /\ Carrying("answered", r, NoNodes, <<>>).request.type # "journal"
        BY <1>2, <1>5, <1>6
      <4> QED BY <1>4, <1>6, <4>1, <4>2, OtherStreamInv
    <3> QED BY <3>2, <3>3, <3>4 DEF IInv
  <2>3. CASE l \notin listeningLabels
    <3>1. UNCHANGED <<journal, log>>
      BY <1>6, <2>3 DEF Announce
    <3>2. JournalIsTailOfLog'
      BY <1>1, <3>1 DEF JournalIsTailOfLog, LastSeq
    <3>3. TypeOK'
      BY <1>2, <1>4, <1>5, <1>6, <3>1 DEF IInv, TypeOK, clientVars
    <3>4. JournalAnswerFitsPosition'
      <4>1. /\ Carrying("answered", r, NoNodes, <<>>) \in Stream
            /\ Carrying("answered", r, NoNodes, <<>>).request.type # "journal"
        BY <1>2, <1>5, <1>6
      <4> QED BY <1>4, <1>6, <3>1, <4>1, OtherStreamInv
    <3> QED BY <3>2, <3>3, <3>4 DEF IInv
  <2> QED BY <2>2, <2>3
<1>7. ASSUME NEW nodes \in NodeMap,
             streams' = [streams EXCEPT ![c][i] = Carrying("answered", r, nodes, <<>>)],
             r.type # "journal", UNCHANGED <<tree, journal, log>>,
             listeningLabels' \in SUBSET Labels, mutablePage' \in SUBSET Labels
      PROVE  IInv'
  <2>1. JournalIsTailOfLog'
    BY <1>1, <1>7 DEF JournalIsTailOfLog, LastSeq
  <2>2. TypeOK'
    BY <1>2, <1>4, <1>5, <1>7 DEF IInv, TypeOK, clientVars
  <2>3. JournalAnswerFitsPosition'
    <3>1. /\ Carrying("answered", r, nodes, <<>>) \in Stream
          /\ Carrying("answered", r, nodes, <<>>).request.type # "journal"
      BY <1>2, <1>5, <1>7
    <3> QED BY <1>4, <1>7, <3>1, OtherStreamInv
  <2> QED BY <2>1, <2>2, <2>3 DEF IInv
<1>8. CASE ServeUpsert(c, i)
  <2>1. /\ r.type = "upsert" /\ ServerStore(r.label, r.node)
        /\ streams' = [streams EXCEPT ![c][i] = Carrying("answered", r, NoNodes, <<>>)]
    BY <1>8 DEF ServeUpsert, Answer
  <2>2. r.label \in Labels /\ r.node \in Node
    BY <1>3, <2>1 DEF Request, QueuedRequest, Node
  <2>3. /\ Announce(r.label, r.node) /\ tree' \in NodeMap
        /\ UNCHANGED <<listeningLabels, mutablePage>>
    BY <1>1, <2>1, <2>2 DEF ServerStore, NodeMap
  <2> QED BY <1>6, <2>1, <2>2, <2>3
<1>9. CASE ServeDelete(c, i)
  <2>1. /\ r.type = "delete" /\ ServerStore(r.label, Nothing)
        /\ streams' = [streams EXCEPT ![c][i] = Carrying("answered", r, NoNodes, <<>>)]
    BY <1>9 DEF ServeDelete, Answer
  <2>2. r.label \in Labels /\ Nothing \in Node
    BY <1>3, <2>1 DEF Request, QueuedRequest, Node
  <2>3. /\ Announce(r.label, Nothing) /\ tree' \in NodeMap
        /\ UNCHANGED <<listeningLabels, mutablePage>>
    BY <1>1, <2>1, <2>2 DEF ServerStore, NodeMap
  <2> QED BY <1>6, <2>1, <2>2, <2>3
<1>10. CASE ServeRegister(c, i)
  <2>1. r.type = "register"
    BY <1>10 DEF ServeRegister
  <2>2. r.label \in Labels
    BY <1>3, <2>1 DEF Request, QueuedRequest
  <2>3. /\ streams' = [streams EXCEPT ![c][i] = Carrying("answered", r, NoNodes, <<>>)]
        /\ UNCHANGED <<tree, journal, log>>
        /\ listeningLabels' \in SUBSET Labels /\ mutablePage' \in SUBSET Labels
    BY <1>1, <1>10, <2>2 DEF ServeRegister, Answer
  <2> QED BY <1>2, <1>7, <2>1, <2>3
<1>11. CASE ServePageTree(c, i)
  <2>1. Present(tree, mutablePage) \in NodeMap
    BY <1>1 DEF Present, NodeMap, Node
  <2>2. /\ r.type = "pageTree"
        /\ streams' = [streams EXCEPT
              ![c][i] = Carrying("answered", r, Present(tree, mutablePage), <<>>)]
        /\ UNCHANGED serverVars
    BY <1>11 DEF ServePageTree, Answer
  <2> QED BY <1>1, <1>7, <2>1, <2>2 DEF serverVars
<1>12. CASE ServeFullTree(c, i)
  <2>1. /\ r.type = "fullTree"
        /\ streams' = [streams EXCEPT ![c][i] = Carrying("answered", r, tree, <<>>)]
        /\ UNCHANGED serverVars
    BY <1>12 DEF ServeFullTree, Answer
  <2> QED BY <1>1, <1>7, <2>1 DEF serverVars
<1>13. CASE ServeNothing(c, i)
  <2>1. /\ r.type # "journal"
        /\ streams' = [streams EXCEPT ![c][i] = Carrying("answered", r, NoNodes, <<>>)]
        /\ UNCHANGED serverVars
    BY <1>13 DEF ServeNothing, Answer
  <2> QED BY <1>1, <1>2, <1>7, <2>1 DEF serverVars
<1>14. CASE ServeNotify(c, i)
  <2>1. /\ r.type = "notify" /\ Announce(r.label, r.node)
        /\ streams' = [streams EXCEPT ![c][i] = Carrying("answered", r, NoNodes, <<>>)]
        /\ tree' = tree /\ UNCHANGED <<listeningLabels, mutablePage>>
    BY <1>14 DEF ServeNotify, Answer
  <2>2. r.label \in Labels /\ r.node \in Node
    BY <1>3, <2>1 DEF Request, QueuedRequest, Node
  <2> QED BY <1>1, <1>6, <2>1, <2>2
<1>15. CASE ServeJournal(c, i)
  <2> DEFINE es == JournalReply(journal, r.last)
             s == Carrying("answered", r, NoNodes, es)
  <2>1. r.last = lastNotification[c] /\ r.last \in Nat
    BY <1>1, <1>15 DEF IInv, JournalAnswerFitsPosition, ServeJournal
  <2>2. /\ es \in Seq(Notification)
        /\ ContinuesAt(log, es, r.last) \/ SaysWrong(es)
    BY <1>1, <2>1, ReplyFits
  <2>3. streams' = [streams EXCEPT ![c][i] = s] /\ UNCHANGED serverVars
    BY <1>15 DEF ServeJournal, Answer
  <2> HIDE DEF es
  <2>4. JournalIsTailOfLog'
    BY <1>1, <2>3 DEF JournalIsTailOfLog, LastSeq, serverVars
  <2>5. TypeOK'
    BY <1>2, <1>4, <1>5, <2>2, <2>3 DEF IInv, TypeOK, clientVars, serverVars
  <2>6. JournalAnswerFitsPosition'
    <3>1. /\ streams'[c][i] = s
          /\ \A d \in Clients, k \in StreamIds :
               d # c \/ k # i => streams'[d][k] = streams[d][k]
      BY <1>1, <2>3
    <3>2. s.request = r /\ s.entries = es
      BY DEF Carrying
    <3>3. \A d \in Clients, k \in StreamIds :
             streams'[d][k].request = streams[d][k].request
      BY <3>1, <3>2
    <3> SUFFICES ASSUME NEW d \in Clients, NEW k \in StreamIds,
                        streams'[d][k].request.type = "journal"
                 PROVE  /\ journalWaiting[d]
                        /\ streams'[d][k].request.last = lastNotification[d]
                        /\ \A m \in StreamIds :
                             streams'[d][m].request.type = "journal" => m = k
                        /\ streams'[d][k].phase = "answered" =>
                             \/ ContinuesAt(log, streams'[d][k].entries, lastNotification[d])
                             \/ SaysWrong(streams'[d][k].entries)
      <4> log' = log
        BY <2>3 DEF serverVars
      <4> QED BY <1>4 DEF JournalAnswerFitsPosition
    <3>4. /\ journalWaiting[d]
          /\ streams'[d][k].request.last = lastNotification[d]
          /\ \A m \in StreamIds :
               streams'[d][m].request.type = "journal" => m = k
      BY <3>3 DEF IInv, JournalAnswerFitsPosition
    <3>5. CASE d = c /\ k = i
      BY <2>1, <2>2, <3>1, <3>2, <3>4, <3>5
    <3>6. CASE d # c \/ k # i
      <4> streams'[d][k] = streams[d][k]
        BY <3>1, <3>6
      <4> QED BY <3>4 DEF IInv, JournalAnswerFitsPosition
    <3> QED BY <3>5, <3>6
  <2> QED BY <2>4, <2>5, <2>6 DEF IInv
<1> QED
  BY <1>8, <1>9, <1>10, <1>11, <1>12, <1>13, <1>14, <1>15 DEF ServerHandle

\* Processing an answer that carries no journal entries frees its stream
\* (http3_client_backend.cpp:327-516).
LEMMA OtherResponseInv ==
  ASSUME IInv, NEW c \in Clients, NEW i \in StreamIds, ProcessOtherResponse(c, i)
  PROVE  IInv'
<1>1. /\ streams \in [Clients -> [StreamIds -> Stream]]
      /\ cache \in [Clients -> NodeMap]
      /\ streams' = [streams EXCEPT ![c][i] = Idle]
      /\ lastNotification' = lastNotification /\ journalWaiting' = journalWaiting
      /\ UNCHANGED <<serverVars, pending, ops, restarts>>
  BY DEF IInv, TypeOK, ProcessOtherResponse
<1>2. Idle \in Stream /\ Idle.request.type # "journal"
  BY StreamTypes DEF Idle, Carrying, NoRequest
<1>3. streams' \in [Clients -> [StreamIds -> Stream]]
  BY <1>1, <1>2, PutStream
<1>4. cache' \in [Clients -> NodeMap]
  <2>1. streams[c][i].nodes \in NodeMap /\ cache[c] \in NodeMap
    BY <1>1 DEF Stream
  <2>2. Overlay(cache[c], streams[c][i].nodes) \in NodeMap
    BY <2>1 DEF Overlay, NodeMap
  <2> QED BY <1>1, <2>2 DEF ProcessOtherResponse
<1>5. TypeOK'
  BY <1>1, <1>3, <1>4 DEF IInv, TypeOK, serverVars
<1>6. JournalIsTailOfLog'
  BY <1>1 DEF IInv, JournalIsTailOfLog, serverVars, LastSeq
<1>7. JournalAnswerFitsPosition'
  <2> log' = log
    BY <1>1 DEF serverVars
  <2> QED BY <1>1, <1>2, OtherStreamInv
<1> QED BY <1>5, <1>6, <1>7 DEF IInv

\* Replaying notifications into a cache gives a cache
\* (http3_client_backend.cpp:668-686).
LEMMA ReplayTypes ==
  ASSUME NEW nodes \in NodeMap, NEW es \in Seq(Notification), NEW n \in Nat
  PROVE  Replay(nodes, es, n) \in NodeMap
<1>1. Len(es) \in Nat /\ \A k \in 1..Len(es) : es[k].node \in Node
  <2>1. \A k \in 1..Len(es) : es[k] \in Notification
    OBVIOUS
  <2> QED BY <2>1 DEF Notification
<1>2. ASSUME NEW l \in Labels
      PROVE  LET H == {k \in 1..Len(es) : es[k].seq > n /\ es[k].label = l}
             IN  (IF H = {} THEN nodes[l]
                  ELSE es[CHOOSE k \in H : \A m \in H : m <= k].node) \in Node
  <2> DEFINE H == {k \in 1..Len(es) : es[k].seq > n /\ es[k].label = l}
             h == CHOOSE k \in H : \A m \in H : m <= k
  <2>1. H # {} => h \in 1..Len(es)
    <3> SUFFICES ASSUME H # {} PROVE h \in 1..Len(es)
      OBVIOUS
    <3>1. H \in SUBSET (1..Len(es))
      OBVIOUS
    <3> HIDE DEF H
    <3>2. \E k \in H : \A m \in H : m <= k
      BY <1>1, <3>1, GreatestExists
    <3> QED BY <3>1, <3>2
  <2>2. nodes[l] \in Node
    BY DEF NodeMap
  <2> HIDE DEF H, h
  <2>3. (IF H = {} THEN nodes[l] ELSE es[h].node) \in Node
    BY <1>1, <2>1, <2>2
  <2> QED BY <2>3 DEF H, h
<1> QED BY <1>2 DEF Replay, NodeMap

\* Processing a journal answer moves the position and frees the only journal
\* stream of the client (http3_client_backend.cpp:517-554).
LEMMA JournalResponseInv ==
  ASSUME IInv, NEW c \in Clients, NEW i \in StreamIds,
         ProcessJournalResponse(c, i)
  PROVE  IInv'
<1> DEFINE es == streams[c][i].entries
           n == lastNotification[c]
<1>1. /\ streams \in [Clients -> [StreamIds -> Stream]]
      /\ cache \in [Clients -> NodeMap]
      /\ pending \in [Clients -> Seq(QueuedRequest)]
      /\ lastNotification \in [Clients -> Nat]
      /\ journalWaiting \in [Clients -> BOOLEAN]
      /\ log \in Seq([label : Labels, node : Node])
      /\ TypeOK
  BY DEF IInv, TypeOK
<1>2. /\ streams' = [streams EXCEPT ![c][i] = Idle]
      /\ lastNotification' = [lastNotification EXCEPT ![c] = LastSeq(es)]
      /\ journalWaiting' = [journalWaiting EXCEPT ![c] = FALSE]
      /\ streams[c][i].phase = "answered"
      /\ streams[c][i].request.type = "journal"
      /\ UNCHANGED <<serverVars, ops, restarts>>
  BY DEF ProcessJournalResponse, SetJournalRequestComplete
<1>3. Idle \in Stream /\ Idle.request.type # "journal"
  BY StreamTypes DEF Idle, Carrying, NoRequest
<1>4. es \in Seq(Notification) /\ n \in Nat
  BY <1>1 DEF Stream
<1>5. /\ ContinuesAt(log, es, n) \/ SaysWrong(es)
      /\ \A k \in StreamIds : streams[c][k].request.type = "journal" => k = i
  BY <1>2 DEF IInv, JournalAnswerFitsPosition
<1>6. LastSeq(es) \in Nat
  <2> HIDE DEF es, n
  <2>1. Len(es) \in Nat /\ Len(es) >= 1
    BY <1>4, <1>5 DEF ContinuesAt, SaysWrong
  <2>2. es[Len(es)] \in Notification
    BY <1>4, <2>1
  <2> QED BY <2>2 DEF LastSeq, Notification
<1>7. streams' \in [Clients -> [StreamIds -> Stream]]
  BY <1>1, <1>2, <1>3, PutStream
<1>8. cache' \in [Clients -> NodeMap]
  <2>1. Replay(cache[c], es, n) \in NodeMap
    BY <1>1, <1>4, ReplayTypes
  <2>2. \/ cache' = cache
        \/ cache' = [cache EXCEPT ![c] = Replay(cache[c], es, n)]
    BY DEF ProcessJournalResponse, SetJournalRequestComplete
  <2> QED BY <1>1, <2>1, <2>2
<1>9. pending' \in [Clients -> Seq(QueuedRequest)]
  <2>1. Append(pending[c], GetPageTree) \in Seq(QueuedRequest)
    BY <1>1, RequestTypes
  <2>2. \/ pending' = pending
        \/ pending' = [pending EXCEPT ![c] = Append(pending[c], GetPageTree)]
    BY DEF ProcessJournalResponse, SetJournalRequestComplete
  <2> QED BY <1>1, <2>1, <2>2
<1>10. TypeOK'
  <2>1. /\ lastNotification' \in [Clients -> Nat]
        /\ journalWaiting' \in [Clients -> BOOLEAN]
    BY <1>1, <1>2, <1>6
  <2> QED BY <1>1, <1>2, <1>7, <1>8, <1>9, <2>1 DEF TypeOK, serverVars
<1>11. JournalIsTailOfLog'
  BY <1>2 DEF IInv, JournalIsTailOfLog, serverVars, LastSeq
<1>12. JournalAnswerFitsPosition'
  <2>1. /\ \A d \in Clients, k \in StreamIds :
             d # c => /\ streams'[d][k] = streams[d][k]
                      /\ lastNotification'[d] = lastNotification[d]
                      /\ journalWaiting'[d] = journalWaiting[d]
        /\ \A k \in StreamIds : streams'[c][k].request.type # "journal"
        /\ log' = log
    <3>1. /\ streams'[c][i] = Idle
          /\ \A k \in StreamIds : k # i => streams'[c][k] = streams[c][k]
          /\ \A d \in Clients : d # c => streams'[d] = streams[d]
      BY <1>1, <1>2
    <3> QED BY <1>1, <1>2, <1>3, <1>5, <3>1 DEF serverVars
  <2> SUFFICES ASSUME NEW d \in Clients, NEW k \in StreamIds,
                      streams'[d][k].request.type = "journal"
               PROVE  /\ journalWaiting'[d]
                      /\ streams'[d][k].request.last = lastNotification'[d]
                      /\ \A m \in StreamIds :
                           streams'[d][m].request.type = "journal" => m = k
                      /\ streams'[d][k].phase = "answered" =>
                           \/ ContinuesAt(log', streams'[d][k].entries, lastNotification'[d])
                           \/ SaysWrong(streams'[d][k].entries)
    BY DEF JournalAnswerFitsPosition
  <2>2. d # c
    BY <2>1
  <2> QED BY <2>1, <2>2 DEF IInv, JournalAnswerFitsPosition
<1> QED BY <1>10, <1>11, <1>12 DEF IInv

\* A restart empties the journal and drops every stream.
LEMMA RestartInv ==
  ASSUME IInv, ServerRestart
  PROVE  IInv'
<1>1. /\ journal' = InitialJournal /\ log' = <<>>
      /\ listeningLabels' = {} /\ restarts < MaxRestarts /\ restarts' = restarts + 1
      /\ streams' = [c \in Clients |-> [i \in StreamIds |-> Idle]]
      /\ UNCHANGED <<clientVars, ops>>
      /\ \/ tree' = tree /\ mutablePage' = mutablePage
         \/ tree' = NoNodes /\ mutablePage' = {}
  BY DEF ServerRestart, NoNodes
<1>2. journal' \in Seq(Notification) /\ Len(journal') = 1 /\ journal'[1].seq = 0
  BY <1>1 DEF InitialJournal, Mark, Notification, Node
<1>3. tree' \in NodeMap /\ mutablePage' \in SUBSET Labels
  BY <1>1 DEF IInv, TypeOK, NoNodes, NodeMap, Node
<1>4. restarts' \in 0..MaxRestarts
  BY <1>1, JournalAssumption DEF IInv, TypeOK
<1>5. streams' \in [Clients -> [StreamIds -> Stream]]
  BY <1>1, StreamTypes
<1>6. TypeOK'
  BY <1>1, <1>2, <1>3, <1>4, <1>5 DEF IInv, TypeOK, clientVars
<1>7. JournalIsTailOfLog'
  BY <1>1, <1>2, JournalAssumption DEF JournalIsTailOfLog, LastSeq
<1>8. JournalAnswerFitsPosition'
  BY <1>1 DEF JournalAnswerFitsPosition, Idle, Carrying, NoRequest
<1> QED BY <1>6, <1>7, <1>8 DEF IInv

\* IInv is inductive: every action of the server and of the clients keeps it.
LEMMA StepInv == IInv /\ [Next]_vars => IInv'
<1> SUFFICES ASSUME IInv, [Next]_vars PROVE IInv'
  OBVIOUS
<1>1. ASSUME NEW c \in Clients, UserCall(c) PROVE IInv'
  BY <1>1, UserCallInv
<1>2. ASSUME NEW c \in Clients, NEW due \in BOOLEAN, MaintainRequestHandlers(c, due)
      PROVE  IInv'
  BY <1>2, MaintainInv
<1>3. ASSUME NEW c \in Clients, NEW i \in StreamIds, ServerHandle(c, i) PROVE IInv'
  BY <1>3, ServerHandleInv
<1>4. ASSUME NEW c \in Clients, NEW i \in StreamIds, ProcessJournalResponse(c, i)
      PROVE  IInv'
  BY <1>4, JournalResponseInv
<1>5. ASSUME NEW c \in Clients, NEW i \in StreamIds, ProcessOtherResponse(c, i)
      PROVE  IInv'
  BY <1>5, OtherResponseInv
<1>6. CASE ServerRestart
  BY <1>6, RestartInv
<1>7. CASE UNCHANGED vars
  <2>1. TypeOK'
    BY <1>7 DEF IInv, TypeOK, vars, serverVars, clientVars
  <2>2. JournalIsTailOfLog'
    BY <1>7 DEF IInv, JournalIsTailOfLog, LastSeq, vars, serverVars
  <2>3. JournalAnswerFitsPosition'
    BY <1>7 DEF IInv, JournalAnswerFitsPosition, vars, serverVars, clientVars
  <2> QED BY <2>1, <2>2, <2>3 DEF IInv
<1> QED BY <1>1, <1>2, <1>3, <1>4, <1>5, <1>6, <1>7 DEF Next

-----------------------------------------------------------------------------
(* Theorems *)

\* The inductive invariant holds in every state of every behaviour.
LEMMA InvariantHolds == Spec => []IInv
<1>1. Init => IInv
  BY InitInv
<1>2. IInv /\ [Next]_vars => IInv'
  BY StepInv
<1> QED BY <1>1, <1>2, PTL DEF Spec

\* The route and the clients keep their state well formed, for any number of
\* clients, streams and labels and any journal bound.
THEOREM TypeCorrect == Spec => []TypeOK
<1>1. IInv => TypeOK
  BY DEF IInv
<1> QED BY <1>1, InvariantHolds, PTL

\* The journal is always the unbroken bounded tail of what was notified
\* (http3_server.cpp:121-130).
THEOREM JournalTailCorrect == Spec => []JournalIsTailOfLog
<1>1. IInv => JournalIsTailOfLog
  BY DEF IInv
<1> QED BY <1>1, InvariantHolds, PTL

\* The journal answer on its way to a client fits the position of the client
\* (http3_client_backend.cpp:711-726, http3_server.cpp:177-213).
THEOREM AnswerFitsCorrect == Spec => []JournalAnswerFitsPosition
<1>1. IInv => JournalAnswerFitsPosition
  BY DEF IInv
<1> QED BY <1>1, InvariantHolds, PTL

\* No step moves a client past a notification it has neither applied nor
\* replaced by a request for the mutable page (http3_client_backend.cpp:517-553).
THEOREM NoSkipCorrect == Spec => NoNotificationSkipped
<1> DEFINE Moves ==
      \A c \in Clients :
         lastNotification'[c] # lastNotification[c] =>
            \/ pending'[c] = Append(pending[c], GetPageTree)
            \/ /\ lastNotification'[c] \in lastNotification[c] + 1 .. Len(log)
               /\ cache'[c] = AfterLog(cache[c], lastNotification[c],
                                       lastNotification'[c])
<1>1. IInv /\ [Next]_vars => [Moves]_vars
  <2> SUFFICES ASSUME IInv, Next, NEW c \in Clients,
                      lastNotification'[c] # lastNotification[c]
               PROVE  \/ pending'[c] = Append(pending[c], GetPageTree)
                      \/ /\ lastNotification'[c] \in lastNotification[c] + 1 .. Len(log)
                         /\ cache'[c] = AfterLog(cache[c], lastNotification[c],
                                                 lastNotification'[c])
    OBVIOUS
  <2>1. PICK d \in Clients, i \in StreamIds : ProcessJournalResponse(d, i)
    <3>1. ASSUME NEW d \in Clients, UserCall(d) PROVE lastNotification' = lastNotification
      BY <3>1 DEF UserCall, UpsertNode, DeleteNode, RegisterNodeListener,
                  DeregisterNodeListener, NotifyListeners, ProcessNotifications,
                  GetMutablePageTree, RequestFullTreeSync, Call
    <3>2. ASSUME NEW d \in Clients, NEW due \in BOOLEAN, MaintainRequestHandlers(d, due)
          PROVE  lastNotification' = lastNotification
      BY <3>2 DEF MaintainRequestHandlers
    <3>3. ASSUME NEW d \in Clients, NEW i \in StreamIds,
                 ServerHandle(d, i) \/ ProcessOtherResponse(d, i)
          PROVE  lastNotification' = lastNotification
      BY <3>3 DEF ServerHandle, ProcessOtherResponse, clientVars
    <3>4. ServerRestart => lastNotification' = lastNotification
      BY DEF ServerRestart, clientVars
    <3> QED BY <3>1, <3>2, <3>3, <3>4 DEF Next
  <2> DEFINE es == streams[d][i].entries
             n == lastNotification[d]
  <2>2. /\ lastNotification' = [lastNotification EXCEPT ![d] = LastSeq(es)]
        /\ streams[d][i].phase = "answered"
        /\ streams[d][i].request.type = "journal"
        /\ cache' = IF NotificationGap(es, n) THEN cache
                    ELSE [cache EXCEPT ![d] = Replay(cache[d], es, n)]
        /\ pending' = IF NotificationGap(es, n)
                        THEN [pending EXCEPT ![d] = Append(pending[d], GetPageTree)]
                        ELSE pending
    BY <2>1 DEF ProcessJournalResponse, SetJournalRequestComplete
  <2>3. /\ TypeOK /\ lastNotification \in [Clients -> Nat]
        /\ pending \in [Clients -> Seq(QueuedRequest)]
        /\ cache \in [Clients -> NodeMap]
        /\ es \in Seq(Notification) /\ n \in Nat /\ Len(log) \in Nat
    BY DEF IInv, TypeOK, Stream
  <2>4. d = c /\ lastNotification'[c] = LastSeq(es)
    BY <2>2, <2>3
  <2>5. ContinuesAt(log, es, n) \/ SaysWrong(es)
    BY <2>2 DEF IInv, JournalAnswerFitsPosition
  <2>6. CASE ContinuesAt(log, es, n)
    <3>1. /\ ~NotificationGap(es, n) /\ LastSeq(es) \in Nat
          /\ LastSeq(es) >= n /\ LastSeq(es) <= Len(log)
          /\ Replay(cache[d], es, n) = AfterLog(cache[d], n, LastSeq(es))
      BY <2>3, <2>6, ReplayIsLog
    <3>2. cache'[c] = AfterLog(cache[c], n, LastSeq(es))
      BY <2>2, <2>3, <2>4, <3>1
    <3>3. LastSeq(es) # n
      BY <2>4
    <3>4. LastSeq(es) \in n + 1 .. Len(log)
      BY <2>3, <3>1, <3>3
    <3> QED BY <2>4, <3>2, <3>4
  <2>7. CASE SaysWrong(es)
    <3>1. NotificationGap(es, n)
      <4>1. Len(es) = 3 /\ es[1].seq = 0 /\ es[2].seq = 2
        BY <2>7 DEF SaysWrong
      <4>2. 2 \in 2..Len(es) /\ es[2].seq > es[2 - 1].seq + 1
        BY <4>1
      <4> QED BY <4>2 DEF NotificationGap
    <3> QED BY <2>2, <2>3, <2>4, <3>1
  <2> QED BY <2>5, <2>6, <2>7
<1>2. Spec => [][Moves]_vars
  BY <1>1, InvariantHolds, PTL DEF Spec
<1> QED BY <1>2 DEF NoNotificationSkipped

-----------------------------------------------------------------------------
(* Clients that never fall off the journal *)

(* The calls that neither ask for nodes nor announce what is not stored. *)
Writes == {"upsert", "delete", "register", "deregister", "process"}

(* Client c has a write of label l that the server has not stored yet. *)
Unserved(c, l) ==
    \/ \E k \in 1..Len(pending[c]) :
          pending[c][k].type \in {"upsert", "delete"} /\ pending[c][k].label = l
    \/ \E i \in StreamIds :
          /\ streams[c][i].phase = "sent"
          /\ streams[c][i].request.type \in {"upsert", "delete"}
          /\ streams[c][i].request.label = l

OnlyWrites ==
    \A c \in Clients :
        /\ \A k \in 1..Len(pending[c]) : pending[c][k].type \in Writes
        /\ \A i \in StreamIds :
              streams[c][i].request.type \in Writes \union {"journal", "none"}

(* What was notified last of a label is what the server holds. *)
LogShowsTree ==
    \A k \in 1..Len(log) :
        /\ log[k].label \in listeningLabels
        /\ (\A m \in k + 1 .. Len(log) : log[m].label # log[k].label)
              => log[k].node = tree[log[k].label]

(* A cache differs from the server only where something is under way in one
   direction or the other. *)
DifferenceUnderWay ==
    \A c \in Clients :
        /\ lastNotification[c] <= Len(log)
        /\ \A l \in Labels : Notified(l) =>
              \/ Unserved(c, l)
              \/ \E k \in lastNotification[c] + 1 .. Len(log) : log[k].label = l
              \/ cache[c][l] = tree[l]

Following == OnlyWrites /\ LogShowsTree /\ DifferenceUnderWay

(* No client finds a gap: the journal reaches back to every position. *)
NeverBehind == [][\A c \in Clients : pending'[c] # Append(pending[c], GetPageTree)]_vars

\* A user's call changes the cache only where it queues a write
\* (http3_client_backend.cpp, upsertNode to processNotifications).
LEMMA CallFollows ==
  ASSUME Workload \subseteq Writes, IInv, Following,
         NEW c \in Clients, NEW nc \in NodeMap, NEW r \in QueuedRequest, Call(c, nc, r),
         \A l \in Labels : nc[l] # cache[c][l] =>
            r.type \in {"upsert", "delete"} /\ r.label = l
  PROVE  Following'
<1>1. /\ pending \in [Clients -> Seq(QueuedRequest)] /\ cache \in [Clients -> NodeMap]
      /\ pending' = [pending EXCEPT ![c] = Append(pending[c], r)]
      /\ cache' = [cache EXCEPT ![c] = nc]
      /\ UNCHANGED <<tree, listeningLabels, log, lastNotification, streams>>
      /\ r.type \in Writes
  BY DEF IInv, TypeOK, Call, serverVars
<1>2. /\ \A d \in Clients : d # c => pending'[d] = pending[d] /\ cache'[d] = cache[d]
      /\ cache'[c] = nc
      /\ Len(pending[c]) \in Nat /\ Len(pending'[c]) = Len(pending[c]) + 1
      /\ \A k \in 1..Len(pending[c]) : pending'[c][k] = pending[c][k]
      /\ pending'[c][Len(pending[c]) + 1] = r
  BY <1>1
<1>3. OnlyWrites'
  BY <1>1, <1>2 DEF Following, OnlyWrites
<1>4. LogShowsTree'
  BY <1>1 DEF Following, LogShowsTree
<1>5. \A d \in Clients, l \in Labels : Unserved(d, l) => Unserved(d, l)'
  BY <1>1, <1>2 DEF Unserved
<1>6. \A l \in Labels : cache'[c][l] # cache[c][l] => Unserved(c, l)'
  <2> SUFFICES ASSUME NEW l \in Labels, cache'[c][l] # cache[c][l] PROVE Unserved(c, l)'
    OBVIOUS
  <2>1. r.type \in {"upsert", "delete"} /\ r.label = l
    BY <1>2
  <2>2. Len(pending[c]) + 1 \in 1..Len(pending'[c])
    BY <1>2
  <2> QED BY <1>2, <2>1, <2>2 DEF Unserved
<1>7. DifferenceUnderWay'
  BY <1>1, <1>2, <1>5, <1>6 DEF Following, DifferenceUnderWay, Notified
<1> QED BY <1>3, <1>4, <1>7 DEF Following

\* Every user's call is such a call.
LEMMA UserCallFollows ==
  ASSUME Workload \subseteq Writes, IInv, Following, NEW c \in Clients, UserCall(c)
  PROVE  Following'
<1>1. cache[c] \in NodeMap
  BY DEF IInv, TypeOK
<1>2. ASSUME NEW l \in Labels, NEW n \in Values, UpsertNode(c, l, n) PROVE Following'
  <2> DEFINE nc == [cache[c] EXCEPT ![l] = n]
  <2>1. nc \in NodeMap /\ \A m \in Labels : nc[m] # cache[c][m] => m = l
    BY <1>1 DEF NodeMap, Node
  <2>2. Upsert(l, n) \in QueuedRequest /\ Upsert(l, n).type = "upsert" /\ Upsert(l, n).label = l
    BY RequestTypes DEF Upsert
  <2>3. Call(c, nc, Upsert(l, n))
    BY <1>2 DEF UpsertNode
  <2> HIDE DEF nc
  <2> QED BY <2>1, <2>2, <2>3, CallFollows
<1>3. ASSUME NEW l \in Labels, DeleteNode(c, l) PROVE Following'
  <2> DEFINE nc == [cache[c] EXCEPT ![l] = Nothing]
  <2>1. nc \in NodeMap /\ \A m \in Labels : nc[m] # cache[c][m] => m = l
    BY <1>1 DEF NodeMap, Node
  <2>2. Delete(l) \in QueuedRequest /\ Delete(l).type = "delete" /\ Delete(l).label = l
    BY RequestTypes DEF Delete
  <2>3. Call(c, nc, Delete(l))
    BY <1>3 DEF DeleteNode
  <2> HIDE DEF nc
  <2> QED BY <2>1, <2>2, <2>3, CallFollows
<1>4. ASSUME NEW r \in QueuedRequest, Call(c, cache[c], r) PROVE Following'
  BY <1>1, <1>4, CallFollows
<1> QED
  BY <1>2, <1>3, <1>4, RequestTypes
  DEF UserCall, RegisterNodeListener, DeregisterNodeListener, NotifyListeners,
      ProcessNotifications, GetMutablePageTree, RequestFullTreeSync

\* A request that is given a stream is still on its way to the server
\* (http3_client_backend.cpp:688-732).
LEMMA MaintainFollows ==
  ASSUME IInv, Following, NEW c \in Clients, NEW due \in BOOLEAN,
         MaintainRequestHandlers(c, due)
  PROVE  Following'
<1> DEFINE asked == Started(GetJournal(lastNotification[c]))
           sent == Started(Head(pending[c]))
<1>1. /\ streams \in [Clients -> [StreamIds -> Stream]]
      /\ pending \in [Clients -> Seq(QueuedRequest)]
      /\ UNCHANGED <<tree, listeningLabels, log, cache, lastNotification>>
  BY DEF IInv, TypeOK, MaintainRequestHandlers, serverVars
<1>2. /\ asked.request.type = "journal"
      /\ sent.phase = "sent" /\ sent.request = Head(pending[c])
  BY DEF Started, Carrying, GetJournal
<1> HIDE DEF asked, sent
<1>3. PICK k \in StreamIds :
        \/ /\ pending' = pending
           /\ streams[c][k].phase = "idle"
           /\ streams' = [streams EXCEPT ![c][k] = asked]
        \/ /\ pending[c] # <<>> /\ pending' = [pending EXCEPT ![c] = Tail(pending[c])]
           /\ streams[c][k].phase = "idle"
           /\ \/ streams' = [streams EXCEPT ![c][k] = sent]
              \/ \E j \in StreamIds :
                   /\ j # k /\ streams[c][j].phase = "idle"
                   /\ streams' = [streams EXCEPT ![c][k] = sent, ![c][j] = asked]
  BY DEF MaintainRequestHandlers, asked, sent
<1>4. \A d \in Clients : d # c => pending'[d] = pending[d] /\ streams'[d] = streams[d]
  BY <1>1, <1>3
<1>5. \A j \in StreamIds : \/ streams'[c][j] = streams[c][j]
                           \/ streams[c][j].phase = "idle" /\ streams'[c][j] = asked
                           \/ /\ streams[c][j].phase = "idle" /\ streams'[c][j] = sent
                              /\ pending[c] # <<>>
  BY <1>1, <1>3
<1>6. \/ pending'[c] = pending[c]
      \/ /\ pending[c] # <<>> /\ pending'[c] = Tail(pending[c])
         /\ streams'[c][k] = sent
  BY <1>1, <1>3
<1>7. pending[c] # <<>> =>
        /\ Len(pending[c]) \in Nat \ {0} /\ Len(Tail(pending[c])) = Len(pending[c]) - 1
        /\ \A m \in 1..Len(pending[c]) - 1 : Tail(pending[c])[m] = pending[c][m + 1]
        /\ Head(pending[c]) = pending[c][1]
  <2> pending[c] \in Seq(QueuedRequest)
    BY <1>1
  <2> QED BY HeadTailProperties, EmptySeq
<1>8. \A l \in Labels : Unserved(c, l) => Unserved(c, l)'
  <2> SUFFICES ASSUME NEW l \in Labels, Unserved(c, l) PROVE Unserved(c, l)'
    OBVIOUS
  <2>1. ASSUME NEW j \in StreamIds, streams[c][j].phase = "sent",
               streams[c][j].request.type \in {"upsert", "delete"},
               streams[c][j].request.label = l
        PROVE  Unserved(c, l)'
    <3>1. streams'[c][j] = streams[c][j]
      BY <1>5, <2>1
    <3> QED BY <2>1, <3>1 DEF Unserved
  <2>2. ASSUME NEW m \in 1..Len(pending[c]), pending[c][m].type \in {"upsert", "delete"},
               pending[c][m].label = l
        PROVE  Unserved(c, l)'
    <3>1. CASE pending'[c] = pending[c]
      BY <2>2, <3>1 DEF Unserved
    <3>2. CASE /\ pending[c] # <<>> /\ pending'[c] = Tail(pending[c])
               /\ streams'[c][k] = sent
      <4>1. CASE m = 1
        BY <1>2, <1>7, <2>2, <3>2, <4>1 DEF Unserved
      <4>2. CASE m # 1
        <5> DEFINE q == m - 1
        <5>1. q \in 1..Len(pending'[c]) /\ pending'[c][q] = pending[c][m]
          BY <1>7, <3>2, <4>2
        <5> HIDE DEF q
        <5> QED BY <2>2, <5>1 DEF Unserved
      <4> QED BY <4>1, <4>2
    <3> QED BY <1>6, <3>1, <3>2
  <2> QED BY <2>1, <2>2 DEF Unserved
<1>9. \A d \in Clients, l \in Labels : Unserved(d, l) => Unserved(d, l)'
  <2> SUFFICES ASSUME NEW d \in Clients, NEW l \in Labels, Unserved(d, l)
               PROVE  Unserved(d, l)'
    OBVIOUS
  <2>1. CASE d = c
    BY <1>8, <2>1
  <2>2. CASE d # c
    BY <1>4, <2>2 DEF Unserved
  <2> QED BY <2>1, <2>2
<1>10. OnlyWrites'
  <2> SUFFICES ASSUME NEW d \in Clients
               PROVE  /\ \A m \in 1..Len(pending'[d]) : pending'[d][m].type \in Writes
                      /\ \A i \in StreamIds :
                           streams'[d][i].request.type \in Writes \union {"journal", "none"}
    BY DEF OnlyWrites
  <2>1. /\ \A m \in 1..Len(pending[d]) : pending[d][m].type \in Writes
        /\ \A i \in StreamIds :
             streams[d][i].request.type \in Writes \union {"journal", "none"}
    BY DEF Following, OnlyWrites
  <2>2. CASE d # c
    BY <1>4, <2>1, <2>2
  <2>3. CASE d = c
    <3>1. pending[c] # <<>> => sent.request.type \in Writes
      BY <1>2, <1>7, <2>1, <2>3
    <3>2. \A m \in 1..Len(pending'[c]) : pending'[c][m].type \in Writes
      <4>1. CASE pending'[c] = pending[c]
        BY <2>1, <2>3, <4>1
      <4>2. CASE pending[c] # <<>> /\ pending'[c] = Tail(pending[c])
        <5> SUFFICES ASSUME NEW m \in 1..Len(pending'[c]) PROVE pending'[c][m].type \in Writes
          OBVIOUS
        <5> DEFINE q == m + 1
        <5>1. q \in 1..Len(pending[c]) /\ pending'[c][m] = pending[c][q]
          BY <1>7, <4>2
        <5> HIDE DEF q
        <5> QED BY <2>1, <2>3, <5>1
      <4> QED BY <1>6, <4>1, <4>2
    <3> QED BY <1>2, <1>5, <2>1, <2>3, <3>1, <3>2
  <2> QED BY <2>2, <2>3
<1>11. LogShowsTree'
  BY <1>1 DEF Following, LogShowsTree
<1>12. DifferenceUnderWay'
  BY <1>1, <1>9 DEF Following, DifferenceUnderWay, Notified
<1> QED BY <1>10, <1>11, <1>12 DEF Following

\* A write that the server stores is in the log behind every client's position
\* if anybody was ever notified of its label (http3_server.cpp:121-130).
LEMMA StoreFollows ==
  ASSUME IInv, Following, NEW c \in Clients, NEW i \in StreamIds,
         NEW l \in Labels, NEW n \in Node,
         streams[c][i].request.label = l, ServerStore(l, n),
         streams[c][i].request.type \in {"upsert", "delete"},
         Answer(c, i, NoNodes, <<>>), UNCHANGED clientVars
  PROVE  Following'
<1> DEFINE N == Len(log)
<1>1. /\ streams \in [Clients -> [StreamIds -> Stream]] /\ tree \in NodeMap
      /\ log \in Seq([label : Labels, node : Node]) /\ N \in Nat
      /\ lastNotification \in [Clients -> Nat]
      /\ tree' = [tree EXCEPT ![l] = n] /\ listeningLabels' = listeningLabels
      /\ UNCHANGED <<pending, cache, lastNotification>>
  BY DEF IInv, TypeOK, ServerStore, clientVars
<1>2. /\ streams'[c][i].request = streams[c][i].request
      /\ \A d \in Clients, k \in StreamIds :
            d # c \/ k # i => streams'[d][k] = streams[d][k]
  BY <1>1 DEF Answer, Carrying
<1>3. OnlyWrites'
  BY <1>1, <1>2 DEF Following, OnlyWrites
<1>4. tree'[l] = n /\ \A m \in Labels : m # l => tree'[m] = tree[m]
  BY <1>1 DEF NodeMap
<1>5. \A d \in Clients, m \in Labels : m # l /\ Unserved(d, m) => Unserved(d, m)'
  BY <1>1, <1>2 DEF Unserved
<1>6. \A k \in 1..N : log[k].label \in Labels
  <2>1. log \in Seq([label : Labels, node : Node])
    BY <1>1
  <2>2. \A k \in 1..N : log[k] \in [label : Labels, node : Node]
    BY <2>1, ElementOfSeq
  <2> QED BY <2>2
<1>7. CASE l \in listeningLabels
  <2>1. /\ Len(log') = N + 1 /\ log'[N + 1].label = l /\ log'[N + 1].node = n
        /\ \A k \in 1..N : log'[k] = log[k]
    <3> DEFINE e == [label |-> l, node |-> n]
    <3>1. log' = Append(log, e)
      BY <1>7 DEF ServerStore, Announce
    <3>2. e \in [label : Labels, node : Node] /\ e.label = l /\ e.node = n
      OBVIOUS
    <3> HIDE DEF e
    <3> QED BY <1>1, <3>1, <3>2
  <2>2. LogShowsTree'
    <3> SUFFICES ASSUME NEW k \in 1..Len(log')
                 PROVE  /\ log'[k].label \in listeningLabels
                        /\ (\A m \in k + 1 .. Len(log') : log'[m].label # log'[k].label)
                              => log'[k].node = tree'[log'[k].label]
      BY <1>1 DEF LogShowsTree
    <3>1. CASE k = N + 1
      BY <1>4, <1>7, <2>1, <3>1
    <3>2. CASE k \in 1..N
      <4>1. /\ log'[k] = log[k] /\ log[k].label \in Labels
            /\ log[k].label \in listeningLabels
            /\ (\A m \in k + 1 .. N : log[m].label # log[k].label)
                  => log[k].node = tree[log[k].label]
        BY <1>6, <2>1, <3>2 DEF Following, LogShowsTree
      <4>2. CASE log[k].label = l
        <5> N + 1 \in k + 1 .. Len(log')
          BY <1>1, <2>1, <3>2
        <5> QED BY <2>1, <4>1, <4>2
      <4>3. CASE log[k].label # l
        <5>1. \A m \in k + 1 .. N : m \in k + 1 .. Len(log') /\ log'[m] = log[m]
          BY <1>1, <2>1, <3>2
        <5> QED BY <1>4, <4>1, <4>3, <5>1
      <4> QED BY <4>2, <4>3
    <3> QED BY <1>1, <2>1, <3>1, <3>2
  <2>3. DifferenceUnderWay'
    <3> SUFFICES ASSUME NEW d \in Clients
                 PROVE  /\ lastNotification[d] <= Len(log')
                        /\ \A m \in Labels : Notified(m)' =>
                             \/ Unserved(d, m)'
                             \/ \E k \in lastNotification[d] + 1 .. Len(log') : log'[k].label = m
                             \/ cache[d][m] = tree'[m]
      BY <1>1 DEF DifferenceUnderWay
    <3>1. lastNotification[d] \in Nat /\ lastNotification[d] <= N
      BY <1>1 DEF Following, DifferenceUnderWay
    <3> SUFFICES ASSUME NEW m \in Labels, Notified(m)'
                 PROVE  \/ Unserved(d, m)'
                        \/ \E k \in lastNotification[d] + 1 .. Len(log') : log'[k].label = m
                        \/ cache[d][m] = tree'[m]
      BY <1>1, <2>1, <3>1
    <3>2. CASE m = l
      <4> N + 1 \in lastNotification[d] + 1 .. Len(log')
        BY <1>1, <2>1, <3>1
      <4> QED BY <2>1, <3>2
    <3>3. CASE m # l
      <4>1. PICK j \in 1..Len(log') : log'[j].label = m
        BY DEF Notified
      <4>2. Notified(m)
        <5> j \in 1..N
          BY <1>1, <2>1, <3>3, <4>1
        <5> QED BY <2>1, <4>1 DEF Notified
      <4>3. \/ Unserved(d, m)
            \/ \E k \in lastNotification[d] + 1 .. N : log[k].label = m
            \/ cache[d][m] = tree[m]
        BY <4>2 DEF Following, DifferenceUnderWay
      <4>4. \A k \in lastNotification[d] + 1 .. N :
               k \in lastNotification[d] + 1 .. Len(log') /\ log'[k] = log[k]
        BY <1>1, <2>1, <3>1
      <4> QED BY <1>4, <1>5, <3>3, <4>3, <4>4
    <3> QED BY <3>2, <3>3
  <2> QED BY <1>3, <2>2, <2>3 DEF Following
<1>8. CASE l \notin listeningLabels
  <2>1. log' = log
    BY <1>8 DEF ServerStore, Announce
  <2>2. \A k \in 1..N : log[k].label # l
    BY <1>8 DEF Following, LogShowsTree
  <2>3. LogShowsTree'
    BY <1>1, <1>4, <1>6, <2>1, <2>2 DEF Following, LogShowsTree
  <2>4. DifferenceUnderWay'
    BY <1>1, <1>4, <1>5, <2>1, <2>2 DEF Following, DifferenceUnderWay, Notified
  <2> QED BY <1>3, <2>3, <2>4 DEF Following
<1> QED BY <1>7, <1>8

\* Only stores change what the server holds (http3_server.cpp:50-218).
LEMMA ServerFollows ==
  ASSUME IInv, Following, NEW c \in Clients, NEW i \in StreamIds, ServerHandle(c, i)
  PROVE  Following'
<1> DEFINE r == streams[c][i].request
<1>1. /\ streams \in [Clients -> [StreamIds -> Stream]] /\ streams[c][i] \in Stream
      /\ UNCHANGED clientVars
      /\ r.type \in Writes \union {"journal", "none"}
  BY DEF IInv, TypeOK, ServerHandle, Following, OnlyWrites
<1>2. r \in Request \union {NoRequest}
  BY <1>1 DEF Stream
<1>3. CASE ServeUpsert(c, i)
  <2>1. r.label \in Labels /\ r.node \in Node
    BY <1>2, <1>3 DEF ServeUpsert, Request, QueuedRequest, NoRequest, Node
  <2> QED BY <1>1, <1>3, <2>1, StoreFollows DEF ServeUpsert
<1>4. CASE ServeDelete(c, i)
  <2>1. r.label \in Labels /\ Nothing \in Node
    BY <1>2, <1>4 DEF ServeDelete, Request, QueuedRequest, NoRequest, Node
  <2> QED BY <1>1, <1>4, <2>1, StoreFollows DEF ServeDelete
<1>5. CASE ServeRegister(c, i) \/ ServeNothing(c, i) \/ ServeJournal(c, i)
  <2>1. /\ r.type \notin {"upsert", "delete"}
        /\ tree' = tree /\ log' = log /\ listeningLabels \subseteq listeningLabels'
        /\ UNCHANGED <<cache, pending, lastNotification>>
        /\ \E nodes, es : Answer(c, i, nodes, es)
    BY <1>1, <1>5 DEF ServeRegister, ServeNothing, ServeJournal, serverVars, clientVars
  <2>2. /\ streams'[c][i].request = r
        /\ \A d \in Clients, k \in StreamIds :
              d # c \/ k # i => streams'[d][k] = streams[d][k]
    BY <1>1, <2>1 DEF Answer, Carrying
  <2>3. OnlyWrites'
    BY <2>1, <2>2 DEF Following, OnlyWrites
  <2>4. LogShowsTree'
    BY <2>1 DEF Following, LogShowsTree
  <2>5. \A d \in Clients, l \in Labels : Unserved(d, l) => Unserved(d, l)'
    BY <2>1, <2>2 DEF Unserved
  <2>6. DifferenceUnderWay'
    BY <2>1, <2>5 DEF Following, DifferenceUnderWay, Notified
  <2> QED BY <2>3, <2>4, <2>6 DEF Following
<1> QED
  BY <1>1, <1>3, <1>4, <1>5
  DEF ServerHandle, ServePageTree, ServeFullTree, ServeNotify, Writes

\* Without a gap, replaying a journal answer takes the cache to the last of the
\* notifications in it, label by label (http3_client_backend.cpp:517-553).
LEMMA ResponseFollows ==
  ASSUME IInv, Following, NEW c \in Clients, NEW i \in StreamIds,
         \/ ProcessOtherResponse(c, i)
         \/ /\ ProcessJournalResponse(c, i)
            /\ pending'[c] # Append(pending[c], GetPageTree)
  PROVE  Following'
<1>1. /\ streams \in [Clients -> [StreamIds -> Stream]] /\ cache \in [Clients -> NodeMap]
      /\ pending \in [Clients -> Seq(QueuedRequest)]
      /\ lastNotification \in [Clients -> Nat] /\ TypeOK /\ Len(log) \in Nat
      /\ streams[c][i].phase = "answered"
      /\ streams' = [streams EXCEPT ![c][i] = Idle]
      /\ UNCHANGED <<tree, listeningLabels, log>>
  BY DEF IInv, TypeOK, ProcessOtherResponse, ProcessJournalResponse, serverVars
<1>2. /\ streams'[c][i] = Idle /\ Idle.request.type = "none"
      /\ \A d \in Clients, k \in StreamIds :
            d # c \/ k # i => streams'[d][k] = streams[d][k]
  BY <1>1 DEF Idle, Carrying, NoRequest
<1>3. LogShowsTree'
  BY <1>1 DEF Following, LogShowsTree
<1>4. ASSUME pending' = pending
      PROVE  OnlyWrites' /\ \A d \in Clients, l \in Labels : Unserved(d, l) => Unserved(d, l)'
  <2>1. OnlyWrites'
    BY <1>2, <1>4 DEF Following, OnlyWrites
  <2>2. \A d \in Clients, l \in Labels : Unserved(d, l) => Unserved(d, l)'
    BY <1>1, <1>2, <1>4 DEF Unserved
  <2> QED BY <2>1, <2>2
<1>5. CASE ProcessOtherResponse(c, i)
  <2>1. streams[c][i].request.type \in Writes \union {"journal", "none"}
    BY DEF Following, OnlyWrites
  <2>2. UNCHANGED <<cache, pending, lastNotification>>
    BY <1>5, <2>1 DEF ProcessOtherResponse, Writes
  <2>3. DifferenceUnderWay'
    BY <1>1, <1>4, <2>2 DEF Following, DifferenceUnderWay, Notified
  <2> QED BY <1>3, <1>4, <2>2, <2>3 DEF Following
<1>6. CASE /\ ProcessJournalResponse(c, i)
           /\ pending'[c] # Append(pending[c], GetPageTree)
  <2> DEFINE es == streams[c][i].entries
             a == lastNotification[c]
             b == LastSeq(es)
  <2>1. /\ es \in Seq(Notification) /\ a \in Nat
        /\ lastNotification' = [lastNotification EXCEPT ![c] = b]
        /\ cache' = IF NotificationGap(es, a) THEN cache
                    ELSE [cache EXCEPT ![c] = Replay(cache[c], es, a)]
        /\ pending' = IF NotificationGap(es, a)
                        THEN [pending EXCEPT ![c] = Append(pending[c], GetPageTree)]
                        ELSE pending
        /\ ContinuesAt(log, es, a) \/ SaysWrong(es)
    <3>1. es \in Seq(Notification) /\ a \in Nat
      BY <1>1 DEF Stream
    <3>2. ContinuesAt(log, es, a) \/ SaysWrong(es)
      BY <1>6 DEF ProcessJournalResponse, IInv, JournalAnswerFitsPosition
    <3> QED BY <1>6, <3>1, <3>2 DEF ProcessJournalResponse
  <2>2. ~NotificationGap(es, a)
    BY <1>1, <1>6, <2>1
  <2>3. ContinuesAt(log, es, a)
    <3>1. SaysWrong(es) => NotificationGap(es, a)
      <4> SUFFICES ASSUME SaysWrong(es) PROVE NotificationGap(es, a)
        OBVIOUS
      <4>1. Len(es) = 3 /\ es[1].seq = 0 /\ es[2].seq = 2
        BY DEF SaysWrong
      <4>2. 2 \in 2..Len(es) /\ es[2].seq > es[2 - 1].seq + 1
        BY <4>1
      <4> QED BY <4>2 DEF NotificationGap
    <3> QED BY <2>1, <2>2, <3>1
  <2>4. /\ b \in Nat /\ b >= a /\ b <= Len(log)
        /\ Replay(cache[c], es, a) = AfterLog(cache[c], a, b)
    BY <1>1, <2>1, <2>3, ReplayIsLog
  <2>5. /\ pending' = pending /\ cache'[c] = AfterLog(cache[c], a, b)
        /\ lastNotification'[c] = b
        /\ \A d \in Clients : d # c =>
              cache'[d] = cache[d] /\ lastNotification'[d] = lastNotification[d]
    BY <1>1, <2>1, <2>2, <2>4
  <2> HIDE DEF es, a, b
  <2>6. ASSUME NEW l \in Labels, Notified(l), ~Unserved(c, l)',
               \A k \in b + 1 .. Len(log) : log[k].label # l
        PROVE  cache'[c][l] = tree[l]
    <3> DEFINE H == {k \in a + 1 .. b : log[k].label = l}
               h == CHOOSE k \in H : \A m \in H : m <= k
    <3>1. cache'[c][l] = IF H = {} THEN cache[c][l] ELSE log[h].node
      BY <2>5 DEF AfterLog
    <3>2. CASE H = {}
      <4>1. \A k \in a + 1 .. Len(log) : log[k].label # l
        <5> SUFFICES ASSUME NEW k \in a + 1 .. Len(log), log[k].label = l PROVE FALSE
          OBVIOUS
        <5>1. k \in a + 1 .. b \/ k \in b + 1 .. Len(log)
          BY <1>1, <2>1, <2>4
        <5>2. k \notin a + 1 .. b
          BY <3>2
        <5> QED BY <2>6, <5>1, <5>2
      <4>2. ~Unserved(c, l)
        BY <1>4, <2>5, <2>6
      <4> QED BY <2>6, <3>1, <3>2, <4>1, <4>2 DEF Following, DifferenceUnderWay, a
    <3>3. CASE H # {}
      <4>1. H \in SUBSET (1..b)
        BY <2>1, <2>4
      <4>2. \A k \in H : k \in 1..Len(log) /\ log[k].label = l
        BY <1>1, <2>1, <2>4
      <4>3. \A k \in a + 1 .. b : log[k].label = l => k \in H
        OBVIOUS
      <4> HIDE DEF H
      <4>4. h \in H /\ \A m \in H : m <= h
        BY <2>4, <3>3, <4>1, GreatestExists
      <4> HIDE DEF h
      <4>5. h \in a + 1 .. b
        BY <4>4 DEF H
      <4>6. \A m \in h + 1 .. Len(log) : log[m].label # log[h].label
        <5> SUFFICES ASSUME NEW m \in h + 1 .. Len(log), log[m].label = l PROVE FALSE
          BY <4>2, <4>4
        <5>1. CASE m \in a + 1 .. b
          BY <2>1, <2>4, <4>3, <4>4, <4>5, <5>1
        <5>2. CASE m \in b + 1 .. Len(log)
          BY <2>6, <5>2
        <5> QED BY <1>1, <2>1, <2>4, <4>5, <5>1, <5>2
      <4> QED BY <3>1, <3>3, <4>2, <4>4, <4>6 DEF Following, LogShowsTree
    <3> QED BY <3>2, <3>3
  <2>7. DifferenceUnderWay'
    <3> SUFFICES ASSUME NEW d \in Clients
                 PROVE  /\ lastNotification'[d] <= Len(log)
                        /\ \A l \in Labels : Notified(l) =>
                             \/ Unserved(d, l)'
                             \/ \E k \in lastNotification'[d] + 1 .. Len(log) : log[k].label = l
                             \/ cache'[d][l] = tree[l]
      BY <1>1 DEF DifferenceUnderWay, Notified
    <3>1. CASE d = c
      BY <2>4, <2>5, <2>6, <3>1
    <3>2. CASE d # c
      BY <1>4, <2>5, <3>2 DEF Following, DifferenceUnderWay
    <3> QED BY <3>1, <3>2
  <2> QED BY <1>3, <1>4, <2>5, <2>7 DEF Following
<1> QED BY <1>5, <1>6

\* Nothing has been notified at first.
LEMMA FollowingInit == Init => Following
<1> SUFFICES ASSUME Init PROVE Following
  OBVIOUS
<1>1. /\ Len(log) = 0 /\ \A c \in Clients : Len(pending[c]) = 0 /\ lastNotification[c] = 0
      /\ \A c \in Clients, i \in StreamIds : streams[c][i] = Idle
      /\ Idle.request.type = "none"
  BY DEF Init, Idle, Carrying, NoRequest
<1> QED BY <1>1 DEF Following, OnlyWrites, LogShowsTree, DifferenceUnderWay, Notified

\* Whatever a client does, it stays only behind in what is under way, unless it
\* falls off the journal.
LEMMA FollowingHolds ==
  ASSUME Workload \subseteq Writes, MaxRestarts = 0
  PROVE  Spec /\ NeverBehind => [](IInv /\ Following)
<1> DEFINE NoGap == \A c \in Clients : pending'[c] # Append(pending[c], GetPageTree)
<1>1. IInv /\ Following /\ [Next]_vars /\ [NoGap]_vars => Following'
  <2> SUFFICES ASSUME IInv, Following, [Next]_vars, [NoGap]_vars PROVE Following'
    OBVIOUS
  <2>1. CASE UNCHANGED vars
    BY <2>1 DEF vars, serverVars, clientVars, Following, OnlyWrites, LogShowsTree,
                DifferenceUnderWay, Unserved, Notified
  <2>2. ASSUME NEW c \in Clients, UserCall(c) PROVE Following'
    BY <2>2, UserCallFollows
  <2>3. ASSUME NEW c \in Clients, NEW due \in BOOLEAN, MaintainRequestHandlers(c, due)
        PROVE  Following'
    BY <2>3, MaintainFollows
  <2>4. ASSUME NEW c \in Clients, NEW i \in StreamIds, ServerHandle(c, i) PROVE Following'
    BY <2>4, ServerFollows
  <2>5. ASSUME NEW c \in Clients, NEW i \in StreamIds, NoGap,
               ProcessJournalResponse(c, i) \/ ProcessOtherResponse(c, i)
        PROVE  Following'
    BY <2>5, ResponseFollows
  <2>6. ~ServerRestart
    BY DEF ServerRestart, IInv, TypeOK
  <2> QED BY <2>1, <2>2, <2>3, <2>4, <2>5, <2>6 DEF Next
<1> HIDE DEF NoGap
<1>2. Spec /\ [][NoGap]_vars => [](IInv /\ Following)
  BY <1>1, FollowingInit, InvariantHolds, PTL DEF Spec
<1> QED BY <1>2 DEF NeverBehind, NoGap

\* Where nothing is under way, nothing differs.
LEMMA QuietIsCurrent ==
  ASSUME IInv, Following, NEW c \in Clients, Quiet(c), NEW l \in Labels, Notified(l)
  PROVE  cache[c][l] = tree[l]
<1>1. ~Unserved(c, l)
  BY DEF Quiet, Unserved
<1>2. lastNotification[c] + 1 .. Len(log) = {}
  BY DEF Quiet, IInv, TypeOK
<1> QED BY <1>1, <1>2 DEF Following, DifferenceUnderWay

\* Clients that only write and listen, and that never fall off the journal, hold
\* the server's node of every notified label the server still has as soon as
\* nothing is under way, in whatever order the writes, answers and notifications of
\* any number of clients arrive (http3_client_backend.cpp:517-553,
\* http3_server.cpp:121-130).  The hypotheses are needed: a page fetched over a gap
\* can be older than what the journal brought, and a restart begins the numbers anew.
THEOREM LiveIsCurrent ==
  ASSUME Workload \subseteq Writes, MaxRestarts = 0
  PROVE  Spec /\ NeverBehind => []LiveNodesCurrent
<1>1. IInv /\ Following => LiveNodesCurrent
  BY QuietIsCurrent DEF LiveNodesCurrent
<1> QED BY <1>1, FollowingHolds, PTL

\* Under the same hypotheses, no deleted node stays in the cache of a client that
\* has caught up (http3_client_backend.cpp:517-553, http3_server.cpp:121-130).
THEOREM DeletedIsGone ==
  ASSUME Workload \subseteq Writes, MaxRestarts = 0
  PROVE  Spec /\ NeverBehind => []DeletedNodesGone
<1>1. IInv /\ Following => DeletedNodesGone
  BY QuietIsCurrent DEF DeletedNodesGone
<1> QED BY <1>1, FollowingHolds, PTL
=============================================================================
