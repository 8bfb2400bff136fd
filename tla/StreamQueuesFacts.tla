--------------------------- MODULE StreamQueuesFacts ---------------------------
(***************************************************************************)
(* Proofs about StreamQueues, for any number of streams and calls, any set  *)
(* of routes and assets, any length of the messages and any number of       *)
(* chunks that nghttp3 asks for at a time.                                  *)
(*                                                                         *)
(* The heart of the inductive invariant are two pipelines per stream.  The  *)
(* chunks of a request are, from the route back to the message that is      *)
(* still to be sent, what the route has gathered and Up(i); until the route *)
(* executes them they make up the request, afterwards none is left.  The    *)
(* chunks of the answer are Down(i), which is the whole answer from the     *)
(* execution to the delivery and nothing before and after.  A step moves    *)
(* chunks between two neighbours of a pipeline.  A static asset has a       *)
(* pipeline of its own, since the server sends it under another identifier. *)
(***************************************************************************)
EXTENDS StreamQueues, TLAPS, SequenceTheorems, FiniteSetTheorems, WellFoundedInduction

-------------------------------------------------------------------------------
(* The inductive invariant. *)

(* The chunks of a stream, and those of a kind. *)
Lane(i) == {c \in Chunks : c.id = i}
Kind(k) == {c \in Chunks : c.kind = k}

ClientMessages == [out : Seq(Chunks), got : Seq(Chunks), complete : BOOLEAN, finished : BOOLEAN]
Streams == [open : BOOLEAN, up : Seq(Chunks), upFin : BOOLEAN, started : BOOLEAN,
            down : Seq(Chunks), downFin : BOOLEAN]
Responses == [got : Seq(Chunks), open : BOOLEAN, finished : BOOLEAN]

ClientTypes ==
  /\ calls \in 0 .. MaxCalls /\ nextId \in Ids
  /\ paths \in [Ids -> Urls \cup {NoUrl}]
  /\ msg \in [Ids -> ClientMessages]
  /\ delivered \in [Ids -> Seq(Seq(Chunks))]
  /\ cq \in Seq(Ids)
  /\ cin \in [Ids -> Seq(Chunks)] /\ cout \in [Ids -> Seq(Chunks)]
  /\ cw \in {Idle, [pc |-> "searching"]} \cup [pc : {"called"}, id : Ids, out : Seq(Chunks)]
  /\ cio \in {Idle, [pc |-> "open"], [pc |-> "dead"]}
             \cup [pc : {"send"}, url : Urls, plan : Seq(Ids)]

ServerTypes ==
  /\ snext \in Nat
  /\ spaths \in [AllIds -> Urls \cup {NoUrl}]
  /\ sq \in Seq(AllIds)
  /\ sin \in [AllIds -> Seq(Chunks)] /\ sout \in [AllIds -> Seq(Chunks)]
  /\ ongoing \in [AllIds -> Responses]
  /\ execs \in [AllIds -> Nat]
  /\ sw \in {Idle} \cup [pc : {"served", "closed"}, id : AllIds]
  /\ sio \in {Idle} \cup [pc : {"push"}, url : Urls, chunk : Chunks, ready : BOOLEAN]

Types == ClientTypes /\ ServerTypes /\ http \in [Urls -> Streams]

Used == {i \in Ids : paths[i] # NoUrl}
Opened == {j \in AllIds : spaths[j] # NoUrl}
UpLane(u) == {c \in Chunks : c.id \in Ids /\ paths[c.id] = u}
DownLane(u) == {c \in Chunks : c.id \in AllIds /\ spaths[c.id] = u}

Unused(i) ==
  /\ msg[i] = NoMsg /\ delivered[i] = <<>> /\ cin[i] = <<>> /\ cout[i] = <<>>
  /\ sin[i] = <<>> /\ sout[i] = <<>> /\ ongoing[i] = NoResponse /\ execs[i] = 0

(* Every identifier in a queue or in the hands of a thread was given out. *)
Known ==
  /\ cq \in Seq(Used) /\ (cw.pc = "called" => cw.id \in Used)
  /\ sq \in Seq(Opened) /\ (sw # Idle => sw.id \in Opened)
  /\ \A i \in Ids : paths[i] = NoUrl => Unused(i)
  /\ \A i \in Ids : spaths[i] # NoUrl => spaths[i] = paths[i] /\ spaths[i] \notin StaticUrls
  /\ \A x \in StaticIds : spaths[x] # NoUrl => 
       spaths[x] \in StaticUrls /\ x < snext /\ \E i \in Ids : paths[i] = spaths[x]

(* Every chunk lies in a queue of its stream, or on the HTTP/3 stream of its URL. *)
Lanes ==
  /\ \A i \in Ids : msg[i].out \in Seq(Lane(i)) /\ cout[i] \in Seq(Lane(i))
  /\ cw.pc = "called" => cw.out \in Seq(Lane(cw.id))
  /\ \A j \in AllIds : sout[j] \in Seq(Lane(j))
  /\ \A u \in Urls : http[u].up \in Seq(UpLane(u)) /\ http[u].down \in Seq(DownLane(u))
  /\ sio # Idle => sio.chunk \in UpLane(sio.url) /\ sio.url \notin StaticUrls

NoRepeat(p) == \A j, k \in 1 .. Len(p) : j # k => p[j] # p[k]

(* How a HTTP/3 stream goes through its life, and what its reader may rely on
   between its two looks at the queues. *)
Flags ==
  /\ \A u \in Urls :
       /\ IF http[u].open THEN \E i \in Ids : paths[i] = u ELSE http[u] = NoStream
       /\ http[u].started => http[u].upFin /\ http[u].up = <<>>
       /\ u \in StaticUrls => http[u].up = <<>> /\ (http[u].open => http[u].upFin)
       /\ http[u].downFin \/ http[u].down # <<>> => http[u].started
  /\ cio.pc = "send" =>
       /\ cio.url \notin StaticUrls /\ http[cio.url].open /\ ~http[cio.url].upFin
       /\ NoRepeat(cio.plan) /\ cio.plan \in Seq({i \in Ids : paths[i] = cio.url})

Served == {i \in Ids : paths[i] \in StaticUrls /\ execs[i] = 1}

(* The server never runs out of identifiers for its assets. *)
Counts == snext = MaxIds + 1 + Cardinality(Served) /\ Cardinality(Used) <= calls

(* How often a handler is queued, and the one the updater runs. *)
Count(s, i) == Len(Kept(s, {i}))
Calling(i) == cw.pc = "called" /\ cw.id = i

InHand(i) == IF Calling(i) THEN cw.out ELSE <<>>
Pushed(i) == IF sio = Idle THEN <<>> ELSE OfStream(<<sio.chunk>>, i)

Req(s) == OfKind(s, "req")

Up(i) == Req(sin[i]) \o (Req(Pushed(i)) \o (Req(WireUp(i))
         \o (Req(cout[i]) \o (Req(InHand(i)) \o Req(msg[i].out)))))
Down(i) == msg[i].got \o (cin[i] \o (WireDown(i) \o sout[i]))

(* The way of a request. *)
Asking(i) ==
  /\ execs[i] \in {0, 1}
  /\ ~ongoing[i].open => ongoing[i] = NoResponse
  /\ msg[i].out \in Seq(Kind("req"))
  /\ execs[i] = 0 => /\ ~ongoing[i].finished
                     /\ ongoing[i].got \o Up(i) = RequestOf(i)
  /\ execs[i] = 1 => /\ Up(i) = <<>>
                     /\ ongoing[i].finished \/ ongoing[i].got = <<>>
  /\ sw.pc = "closed" /\ sw.id = i => execs[i] = 1 /\ sout[i] = <<>>

(* The way of its answer. *)
Answering(i) ==
  /\ execs[i] = 0 => Down(i) = <<>> /\ delivered[i] = <<>>
  /\ execs[i] = 1 /\ delivered[i] = <<>> => Down(i) = AnswerOf(i)
  /\ execs[i] = 1 /\ delivered[i] # <<>> => Down(i) = <<>> /\ delivered[i] = <<AnswerOf(i)>>

(* One handler of the client per stream, until the answer is delivered. *)
Single(i) ==
  /\ Count(cq, i) + (IF Calling(i) THEN 1 ELSE 0) <= 1
  /\ delivered[i] # <<>> => /\ Len(delivered[i]) = 1 /\ Count(cq, i) = 0
                            /\ Calling(i) => cw.out = Close(i)

Completes ==
  /\ \A i \in Ids : msg[i].complete <=> delivered[i] # <<>>
  /\ cw.pc = "called" /\ cw.out = Close(cw.id) => msg[cw.id].complete
  /\ sw.pc = "closed" => sw.id \in Ids

(* The way of an asset: its placeholder makes the client open the stream once, and
   the server sends it under an identifier x. *)
Held(i) == cout[i] \o ((IF InHand(i) = Close(i) THEN <<>> ELSE InHand(i)) \o msg[i].out)

Sending(i, u, x) ==
  /\ spaths[x] = u /\ \A y \in StaticIds : spaths[y] = u => y = x
  /\ http[u].open =>
       /\ http[u].started /\ ~msg[i].complete
       /\ msg[i].got \o (cin[i] \o (OfStream(http[u].down, x) \o sout[x])) = AnswerOf(x)
       /\ http[u].downFin => sout[x] = <<>>
  /\ ~http[u].open /\ ~msg[i].complete =>
       \E rest \in Seq(Chunks) : cin[i] = rest \o Close(0) /\ msg[i].got \o rest = AnswerOf(x)
  /\ msg[i].complete => msg[i].got = <<>> /\ cin[i] = <<>> /\ delivered[i][1] = AnswerOf(x)

Alone(i, u) == \A j \in Ids : paths[j] = u => j = i

Unsent(i, u) ==
  /\ ~http[u].started /\ msg[i].got = <<>> /\ cin[i] = <<>> /\ ~msg[i].complete
  /\ \A x \in StaticIds : spaths[x] # u

Fetched(i, u) ==
  /\ Alone(i, u)
  /\ execs[i] \in {0, 1}
  /\ Held(i) \in {<<>>, Placeholder(i)}
  /\ execs[i] = 1 \/ http[u].open => Held(i) = <<>>
  /\ execs[i] = 0 => Unsent(i, u)
  /\ execs[i] = 1 => \E x \in StaticIds : Sending(i, u, x)

Fetching(i) == Fetched(i, paths[i])

AllAsk == \A i \in Ids : Routed(i) => Asking(i)
AllAnswer == \A i \in Ids : Routed(i) => Answering(i)
AllSingle == \A i \in Ids : Routed(i) \/ MaxFetches = 1 => Single(i)
AllFetch == \A i \in Ids : IsStatic(i) => Fetching(i)

(* Handlers of the server. *)
Handlers(i) == Count(sq, i) + (IF sw.pc = "served" /\ sw.id = i THEN 1 ELSE 0)

Handling ==
  \A i \in Ids :
    /\ Handlers(i) <= 2
    /\ OfKind(sin[i], "req") # <<>> => Handlers(i) > 0
    /\ sio # Idle /\ sio.chunk.id = i =>
         IF sio.ready THEN sio.chunk.kind = "req" => Handlers(i) > 0 ELSE Handlers(i) <= 1

Inv ==
  /\ Types /\ Known /\ Lanes /\ Flags /\ Counts /\ Completes
  /\ AllAsk /\ AllAnswer /\ AllSingle /\ AllFetch /\ Handling

-------------------------------------------------------------------------------
(* Sequences, their filters and the plans of the queues. *)

(* Induction for a set of numbers. *)
LEMMA SetInduction ==
  ASSUME NEW A, 0 \in A, \A n \in Nat : n \in A => n + 1 \in A
  PROVE  \A n \in Nat : n \in A
<1> SUFFICES ASSUME NEW w \in Nat, w \notin A PROVE FALSE
  OBVIOUS
<1> DEFINE R == OpToRel(<, Nat)
<1> DEFINE T == {n \in Nat : n \notin A}
<1>1. IsWellFoundedOn(R, Nat)
  BY NatLessThanWellFounded
<1>2. T \in SUBSET Nat /\ T # {}
  OBVIOUS
<1> HIDE DEF R
<1>3. PICK x \in T : \A y \in T : ~ (<<y, x>> \in R)
  BY <1>1, <1>2, WFMin
<1>4. x \in Nat /\ x # 0 /\ x - 1 \in Nat
  BY <1>3
<1>5. x - 1 \in T
  BY <1>3, <1>4
<1>6. <<x - 1, x>> \in R
  BY <1>4 DEF R, OpToRel
<1> QED
  BY <1>3, <1>5, <1>6

(* A set of numbers has a least one. *)
LEMMA LeastExists ==
  ASSUME NEW T, T \subseteq Nat, T # {}
  PROVE  \E x \in T : \A y \in T : x <= y
<1> DEFINE R == OpToRel(<, Nat)
<1>1. IsWellFoundedOn(R, Nat)
  BY NatLessThanWellFounded
<1> HIDE DEF R
<1>2. PICK x \in T : \A y \in T : ~ (<<y, x>> \in R)
  BY <1>1, WFMin
<1>3. \A y \in T : x <= y
  <2> SUFFICES ASSUME NEW y \in T PROVE x <= y
    OBVIOUS
  <2>1. x \in Nat /\ y \in Nat
    OBVIOUS
  <2>2. y < x => <<y, x>> \in R
    BY <2>1 DEF R, OpToRel
  <2> QED
    BY <1>2, <2>1, <2>2
<1> QED
  BY <1>2, <1>3

(* Min chooses it. *)
LEMMA MinIsLeast ==
  ASSUME NEW T, T \subseteq Nat, T # {}
  PROVE  Min(T) \in T /\ \A y \in T : Min(T) <= y
BY LeastExists DEF Min

(* Induction for a set of sequences, by their last elements. *)
LEMMA SeqInduction ==
  ASSUME NEW S, NEW A, <<>> \in A,
         \A p \in Seq(S), x \in S : p \in A => Append(p, x) \in A
  PROVE  \A s \in Seq(S) : s \in A
<1> DEFINE B == {n \in Nat : \A s \in Seq(S) : Len(s) = n => s \in A}
<1>1. 0 \in B
  <2> SUFFICES ASSUME NEW s \in Seq(S), Len(s) = 0 PROVE s \in A
    OBVIOUS
  <2> QED
    BY EmptySeq
<1>2. ASSUME NEW n \in Nat, n \in B PROVE n + 1 \in B
  <2> SUFFICES ASSUME NEW s \in Seq(S), Len(s) = n + 1 PROVE s \in A
    OBVIOUS
  <2>1. s # <<>>
    BY EmptySeq
  <2>2. PICK p \in Seq(S), x \in S : s = Append(p, x)
    BY <2>1, SequenceEmptyOrAppend
  <2>3. Len(p) = n
    <3>1. Len(s) = Len(p) + 1 /\ Len(p) \in Nat
      BY <2>2, AppendProperties, LenProperties
    <3> QED
      BY <3>1
  <2> QED
    BY <1>2, <2>2, <2>3
<1> HIDE DEF B
<1>3. \A n \in Nat : n \in B
  BY <1>1, <1>2, SetInduction
<1> QED
  BY <1>3, LenProperties DEF B

(* One step of the filter. *)
KeptStep(s, T, g, n) ==
  IF n = 0 THEN <<>> ELSE IF s[n] \in T THEN Append(g[n - 1], s[n]) ELSE g[n - 1]

(* Its recursive function exists. *)
LEMMA KeptExists ==
  ASSUME NEW s, NEW T
  PROVE  \A n \in Nat : \E g : g = [k \in 0 .. n |-> KeptStep(s, T, g, k)]
<1> DEFINE A == {n \in Nat : \E g : g = [k \in 0 .. n |-> KeptStep(s, T, g, k)]}
<1>1. 0 \in A
  <2> DEFINE g == [k \in 0 .. 0 |-> <<>>]
  <2>1. g = [k \in 0 .. 0 |-> KeptStep(s, T, g, k)]
    BY DEF KeptStep
  <2> QED
    BY <2>1
<1>2. ASSUME NEW n \in Nat, n \in A PROVE n + 1 \in A
  <2>1. PICK g : g = [k \in 0 .. n |-> KeptStep(s, T, g, k)]
    BY <1>2
  <2> DEFINE h == [k \in 0 .. n + 1 |-> IF k <= n THEN g[k] ELSE KeptStep(s, T, g, n + 1)]
  <2>2. ASSUME NEW k \in 0 .. n + 1 PROVE h[k] = KeptStep(s, T, h, k)
    <3>1. \A j \in 0 .. n : h[j] = g[j]
      OBVIOUS
    <3>2. k # 0 => k - 1 \in 0 .. n
      OBVIOUS
    <3>3. KeptStep(s, T, h, k) = KeptStep(s, T, g, k)
      BY <3>1, <3>2 DEF KeptStep
    <3>4. CASE k <= n
      <4>1. h[k] = g[k] /\ g[k] = KeptStep(s, T, g, k)
        BY <3>4, <2>1
      <4> QED
        BY <4>1, <3>3
    <3>5. CASE k = n + 1
      BY <3>3, <3>5
    <3> QED
      BY <3>4, <3>5
  <2>3. h = [k \in 0 .. n + 1 |-> KeptStep(s, T, h, k)]
    BY <2>2
  <2> HIDE DEF h
  <2> QED
    BY <2>3
<1> HIDE DEF A
<1>3. \A n \in Nat : n \in A
  BY <1>1, <1>2, SetInduction
<1> QED
  BY <1>3 DEF A

(* What it computes, element by element: g holds what is kept of each prefix. *)
KeptBy(s, T, g) ==
  /\ Kept(s, T) = g[Len(s)] /\ g[0] = <<>>
  /\ \A n \in 1 .. Len(s) : g[n] = IF s[n] \in T THEN Append(g[n - 1], s[n]) ELSE g[n - 1]

(* Such a g exists. *)
LEMMA KeptFunction ==
  ASSUME NEW S, NEW s \in Seq(S), NEW T
  PROVE  \E g : KeptBy(s, T, g)
<1> DEFINE N == Len(s)
<1>1. N \in Nat
  BY LenProperties
<1> DEFINE g == CHOOSE g : g = [k \in 0 .. N |-> KeptStep(s, T, g, k)]
<1>2. g = [k \in 0 .. N |-> KeptStep(s, T, g, k)]
  BY <1>1, KeptExists
<1>3. Kept(s, T) = g[N]
  BY DEF Kept, KeptStep
<1> HIDE DEF g
<1>4. g[0] = <<>>
  BY <1>1, <1>2 DEF KeptStep
<1>5. \A n \in 1 .. N : g[n] = KeptStep(s, T, g, n)
  BY <1>1, <1>2
<1> HIDE DEF N
<1>6. \A n \in 1 .. N : g[n] = IF s[n] \in T THEN Append(g[n - 1], s[n]) ELSE g[n - 1]
  BY <1>1, <1>5 DEF KeptStep
<1>7. KeptBy(s, T, g)
  BY <1>3, <1>4, <1>6 DEF N, KeptBy
<1> QED
  BY <1>7

(* Nothing of an empty sequence is kept, *)
LEMMA KeptEmpty ==
  ASSUME NEW T PROVE Kept(<<>>, T) = <<>>
<1>1. ASSUME NEW s \in Seq(Nat), Len(s) = 0 PROVE Kept(s, T) = <<>>
  <2>1. PICK g : KeptBy(s, T, g)
    BY KeptFunction
  <2> QED
    BY <1>1, <2>1 DEF KeptBy
<1> QED
  BY <1>1, EmptySeq

(* a new last element is kept or not, *)
LEMMA KeptAppend ==
  ASSUME NEW S, NEW s \in Seq(S), NEW x \in S, NEW T
  PROVE  Kept(Append(s, x), T) = IF x \in T THEN Append(Kept(s, T), x) ELSE Kept(s, T)
<1> DEFINE t == Append(s, x)
           N == Len(s)
<1>1. /\ t \in Seq(S) /\ Len(t) = N + 1 /\ t[N + 1] = x /\ N \in Nat
      /\ \A k \in 1 .. N : t[k] = s[k]
  BY AppendProperties, LenProperties
<1> HIDE DEF t
<1>2. PICK g : KeptBy(s, T, g)
  BY KeptFunction
<1>3. PICK h : KeptBy(t, T, h)
  BY <1>1, KeptFunction
<1>4. /\ Kept(s, T) = g[N] /\ g[0] = <<>>
      /\ \A n \in 1 .. N : g[n] = IF s[n] \in T THEN Append(g[n - 1], s[n]) ELSE g[n - 1]
  BY <1>2 DEF KeptBy
<1>5. /\ Kept(t, T) = h[Len(t)] /\ h[0] = <<>>
      /\ \A n \in 1 .. Len(t) : h[n] = IF t[n] \in T THEN Append(h[n - 1], t[n]) ELSE h[n - 1]
  BY <1>3 DEF KeptBy
<1> HIDE DEF N
<1> DEFINE A == {n \in Nat : n <= N => g[n] = h[n]}
<1>6. 0 \in A
  BY <1>4, <1>5
<1>7. ASSUME NEW n \in Nat, n \in A PROVE n + 1 \in A
  <2> SUFFICES ASSUME n + 1 <= N PROVE g[n + 1] = h[n + 1]
    OBVIOUS
  <2>1. n + 1 \in 1 .. N /\ n + 1 \in 1 .. Len(t) /\ (n + 1) - 1 = n /\ n <= N
    BY <1>1
  <2>2. g[n] = h[n] /\ t[n + 1] = s[n + 1]
    BY <1>7, <2>1, <1>1
  <2>3. g[n + 1] = IF s[n + 1] \in T THEN Append(g[n], s[n + 1]) ELSE g[n]
    BY <1>4, <2>1
  <2>4. h[n + 1] = IF t[n + 1] \in T THEN Append(h[n], t[n + 1]) ELSE h[n]
    BY <1>5, <2>1
  <2> QED
    BY <2>2, <2>3, <2>4
<1> HIDE DEF A
<1>8. N \in A
  BY <1>1, <1>6, <1>7, SetInduction
<1>9. g[N] = h[N]
  BY <1>1, <1>8 DEF A
<1>10. N + 1 \in 1 .. Len(t) /\ (N + 1) - 1 = N
  BY <1>1
<1>11. h[N + 1] = IF x \in T THEN Append(h[N], x) ELSE h[N]
  BY <1>1, <1>5, <1>10
<1> QED
  BY <1>1, <1>4, <1>5, <1>9, <1>11 DEF t

(* what is kept lies in T, *)
LEMMA KeptType ==
  ASSUME NEW S, NEW T
  PROVE  \A s \in Seq(S) : Kept(s, T) \in Seq(S) /\ Kept(s, T) \in Seq(S \cap T)
<1> DEFINE A == {s \in Seq(S) : Kept(s, T) \in Seq(S \cap T)}
<1>1. <<>> \in A
  BY KeptEmpty, EmptySeq
<1>2. ASSUME NEW p \in Seq(S), NEW x \in S, p \in A PROVE Append(p, x) \in A
  <2>1. Append(p, x) \in Seq(S)
    BY AppendProperties
  <2>2. Kept(p, T) \in Seq(S \cap T)
    BY <1>2
  <2>3. x \in T => Append(Kept(p, T), x) \in Seq(S \cap T)
    BY <2>2, AppendProperties
  <2> QED
    BY <2>1, <2>2, <2>3, KeptAppend
<1> HIDE DEF A
<1>3. \A s \in Seq(S) : s \in A
  BY <1>1, <1>2, SeqInduction
<1>4. \A s \in Seq(S) : Kept(s, T) \in Seq(S \cap T)
  BY <1>3 DEF A
<1>5. S \cap T \subseteq S
  OBVIOUS
<1> QED
  BY <1>4, <1>5, SeqMonotonic

(* and the kept elements of two sequences follow each other. *)
LEMMA KeptConcat ==
  ASSUME NEW S, NEW T, NEW s \in Seq(S)
  PROVE  \A t \in Seq(S) : Kept(s \o t, T) = Kept(s, T) \o Kept(t, T)
<1> DEFINE A == {t \in Seq(S) : Kept(s \o t, T) = Kept(s, T) \o Kept(t, T)}
<1>1. <<>> \in A
  <2>1. Kept(s, T) \in Seq(S) /\ Kept(<<>>, T) = <<>>
    BY KeptEmpty, KeptType
  <2>2. s \o <<>> = s /\ Kept(s, T) \o <<>> = Kept(s, T)
    BY <2>1, ConcatEmptySeq
  <2> QED
    BY <2>1, <2>2, EmptySeq
<1>2. ASSUME NEW p \in Seq(S), NEW x \in S, p \in A PROVE Append(p, x) \in A
  <2>1. Append(p, x) \in Seq(S) /\ s \o p \in Seq(S) /\ <<x>> \in Seq(S)
    BY AppendProperties, ConcatProperties
  <2>2. s \o Append(p, x) = Append(s \o p, x)
    <3>1. Append(p, x) = p \o <<x>> /\ Append(s \o p, x) = (s \o p) \o <<x>>
      BY <2>1, AppendIsConcat
    <3> QED
      BY <3>1, <2>1, ConcatAssociative
  <2>3. Kept(s \o p, T) = Kept(s, T) \o Kept(p, T)
    BY <1>2
  <2>4. Kept(s, T) \in Seq(S) /\ Kept(p, T) \in Seq(S) /\ Kept(s \o p, T) \in Seq(S)
    BY <2>1, KeptType
  <2>5. CASE x \in T
    <3> DEFINE q == s \o p
    <3>0. Kept(Append(p, x), T) = Append(Kept(p, T), x)
      BY <2>5, KeptAppend
    <3>q. q \in Seq(S)
      BY <2>1
    <3>1. Kept(Append(q, x), T) = Append(Kept(q, T), x)
      <4> HIDE DEF q
      <4> QED
        BY <3>q, <2>5, KeptAppend
    <3>2. Append(Kept(s \o p, T), x) = (Kept(s, T) \o Kept(p, T)) \o <<x>>
          /\ Append(Kept(p, T), x) = Kept(p, T) \o <<x>>
      BY <2>3, <2>4, AppendIsConcat
    <3>3. (Kept(s, T) \o Kept(p, T)) \o <<x>> = Kept(s, T) \o (Kept(p, T) \o <<x>>)
      BY <2>1, <2>4, ConcatAssociative, SMTT(40)
    <3> QED
      BY <2>1, <2>2, <3>0, <3>1, <3>2, <3>3
  <2>6. CASE x \notin T
    <3>1. Kept(Append(s \o p, x), T) = Kept(s \o p, T) /\ Kept(Append(p, x), T) = Kept(p, T)
      BY <2>1, <2>6, KeptAppend
    <3> QED
      BY <2>1, <2>2, <2>3, <3>1
  <2> QED
    BY <2>5, <2>6
<1> HIDE DEF A
<1>3. \A t \in Seq(S) : t \in A
  BY <1>1, <1>2, SeqInduction
<1> QED
  BY <1>3 DEF A

(* Of a single element all or nothing is kept. *)
LEMMA KeptOne ==
  ASSUME NEW x, NEW T
  PROVE  Kept(<<x>>, T) = IF x \in T THEN <<x>> ELSE <<>>
<1> DEFINE s == <<>>
<1>1. s \in Seq({x}) /\ Append(s, x) = <<x>> /\ x \in {x}
  OBVIOUS
<1>2. Kept(s, T) = s
  BY KeptEmpty
<1> HIDE DEF s
<1>3. Kept(Append(s, x), T) = IF x \in T THEN Append(Kept(s, T), x) ELSE Kept(s, T)
  BY <1>1, KeptAppend
<1> QED
  BY <1>1, <1>2, <1>3 DEF s

(* A filter that everything passes, and one that nothing passes. *)
LEMMA KeptAll ==
  ASSUME NEW S, NEW T
  PROVE  /\ S \subseteq T => \A s \in Seq(S) : Kept(s, T) = s
         /\ S \cap T = {} => \A s \in Seq(S) : Kept(s, T) = <<>>
<1> DEFINE A == {s \in Seq(S) : (S \subseteq T => Kept(s, T) = s) /\ (S \cap T = {} => Kept(s, T) = <<>>)}
<1>1. <<>> \in A
  BY KeptEmpty, EmptySeq
<1>2. ASSUME NEW p \in Seq(S), NEW x \in S, p \in A PROVE Append(p, x) \in A
  BY <1>2, AppendProperties, KeptAppend
<1> HIDE DEF A
<1>3. \A s \in Seq(S) : s \in A
  BY <1>1, <1>2, SeqInduction
<1> QED
  BY <1>3 DEF A

(* What passes is there. *)
LEMMA KeptMember ==
  ASSUME NEW S, NEW T, NEW s \in Seq(S), NEW k \in 1 .. Len(s), s[k] \in T
  PROVE  Kept(s, T) # <<>>
<1> DEFINE A == {q \in Seq(S) : (\E j \in 1 .. Len(q) : q[j] \in T) => Kept(q, T) # <<>>}
<1>1. <<>> \in A
  BY EmptySeq
<1>2. ASSUME NEW p \in Seq(S), NEW x \in S, p \in A PROVE Append(p, x) \in A
  <2>1. /\ Append(p, x) \in Seq(S) /\ Len(Append(p, x)) = Len(p) + 1 /\ Len(p) \in Nat
        /\ \A j \in 1 .. Len(p) : Append(p, x)[j] = p[j]
        /\ Append(p, x)[Len(p) + 1] = x
    BY AppendProperties, LenProperties
  <2> SUFFICES ASSUME NEW j \in 1 .. Len(Append(p, x)), Append(p, x)[j] \in T
               PROVE  Kept(Append(p, x), T) # <<>>
    BY <2>1
  <2>2. Kept(p, T) \in Seq(S)
    BY KeptType
  <2>3. CASE x \in T
    BY <2>2, <2>3, KeptAppend, AppendProperties
  <2>4. CASE x \notin T
    <3>1. j \in 1 .. Len(p) /\ p[j] \in T
      BY <2>1, <2>4
    <3>2. Kept(p, T) # <<>>
      BY <1>2, <3>1
    <3> QED
      BY <3>2, <2>4, KeptAppend
  <2> QED
    BY <2>3, <2>4
<1> HIDE DEF A
<1>3. s \in A
  BY <1>1, <1>2, SeqInduction
<1> QED
  BY <1>3 DEF A

(* What is left nowhere is nowhere. *)
LEMMA KeptNothing ==
  ASSUME NEW S, NEW T, NEW s \in Seq(S), Kept(s, T) = <<>>
  PROVE  s \in Seq(S \ T)
<1>1. \A k \in 1 .. Len(s) : s[k] \in S \ T
  BY KeptMember, ElementOfSeq
<1>2. Len(s) \in Nat /\ s \in [1 .. Len(s) -> S] /\ DOMAIN s = 1 .. Len(s)
  BY LenProperties
<1>3. s \in [1 .. Len(s) -> S \ T]
  BY <1>1, <1>2
<1> QED
  BY <1>2, <1>3, SeqDef

(* Concatenation is associative. *)
LEMMA Assoc == \A S : \A a, b, c \in Seq(S) : (a \o b) \o c = a \o (b \o c)
BY ConcatAssociative

(* The parts of an empty sequence are empty. *)
LEMMA BothEmpty ==
  ASSUME NEW S, NEW a \in Seq(S), NEW b \in Seq(S), a \o b = <<>> PROVE a = <<>> /\ b = <<>>
<1>1. Len(a \o b) = Len(a) + Len(b) /\ Len(a) \in Nat /\ Len(b) \in Nat
  BY ONLY a \in Seq(S), b \in Seq(S), ConcatProperties, LenProperties
<1>2. Len(a \o b) = 0
  BY EmptySeq
<1>3. Len(a) = 0 /\ Len(b) = 0
  BY ONLY <1>1, <1>2
<1> QED
  BY ONLY <1>3, a \in Seq(S), b \in Seq(S), EmptySeq

(* Moving something between two neighbours of a chain. *)
LEMMA Move ==
  ASSUME NEW S, NEW a \in Seq(S), NEW b \in Seq(S), NEW c \in Seq(S),
         NEW d \in Seq(S), NEW e \in Seq(S), b \o c = d \o e
  PROVE  a \o b \o c = a \o d \o e
<1>1. (a \o b) \o c = a \o (b \o c)
  BY ONLY Assoc, a \in Seq(S), b \in Seq(S), c \in Seq(S), SMTT(40)
<1>2. (a \o d) \o e = a \o (d \o e)
  BY ONLY Assoc, a \in Seq(S), d \in Seq(S), e \in Seq(S), SMTT(40)
<1> QED
  BY <1>1, <1>2, Zenon

(* A sequence that is not empty is its first element and the rest. *)
LEMMA HeadThenTail ==
  ASSUME NEW S, NEW s \in Seq(S), s # <<>>
  PROVE  s = <<Head(s)>> \o Tail(s) /\ Head(s) \in S /\ Tail(s) \in Seq(S)
<1>1. Head(s) \in S /\ Tail(s) \in Seq(S) /\ Len(s) \in Nat \ {0}
  BY HeadTailProperties, EmptySeq
<1>2. 1 \in 1 .. Len(s) /\ Len(s) \in 1 .. Len(s) /\ s[1] = Head(s)
  BY <1>1
<1>3. SubSeq(s, 1, Len(s)) = <<s[1]>> \o SubSeq(s, 1 + 1, Len(s))
  BY <1>2, SubSeqRecursiveFirst
<1>4. SubSeq(s, 1, Len(s)) = s /\ Tail(s) = SubSeq(s, 2, Len(s))
  BY SubSeqFull, TailIsSubSeq
<1> QED
  BY <1>1, <1>2, <1>3, <1>4

(* A sequence is cut after n elements. *)
LEMMA Cut ==
  ASSUME NEW S, NEW q \in Seq(S), NEW n \in 0 .. Len(q)
  PROVE  /\ SubSeq(q, 1, n) \in Seq(S) /\ SubSeq(q, n + 1, Len(q)) \in Seq(S)
         /\ Len(SubSeq(q, 1, n)) = n
         /\ q = SubSeq(q, 1, n) \o SubSeq(q, n + 1, Len(q))
<1>1. Len(q) \in Nat /\ \A k \in 1 .. Len(q) : q[k] \in S
  BY LenProperties, ElementOfSeq
<1>2. n \in Int /\ n + 1 \in Int /\ 1 \in 1 .. Len(q) + 1 /\ n \in 1 - 1 .. Len(q) /\ Len(q) \in n .. Len(q)
  BY <1>1
<1>3. SubSeq(q, 1, n) \o SubSeq(q, n + 1, Len(q)) = SubSeq(q, 1, Len(q))
  BY <1>2, ConcatAdjacentSubSeq
<1>4. SubSeq(q, 1, Len(q)) = q
  BY SubSeqFull
<1>5. SubSeq(q, 1, n) \in Seq(S) /\ Len(SubSeq(q, 1, n)) = IF 1 <= n THEN n - 1 + 1 ELSE 0
  BY <1>1, <1>2, SubSeqProperties
<1>6. SubSeq(q, n + 1, Len(q)) \in Seq(S)
  BY <1>1, <1>2, SubSeqProperties
<1>7. Len(SubSeq(q, 1, n)) = n
  <2> DEFINE l == Len(SubSeq(q, 1, n))
  <2>1. l = IF 1 <= n THEN n - 1 + 1 ELSE 0
    BY <1>5
  <2> HIDE DEF l
  <2>2. l = n
    BY <2>1, <1>1
  <2> QED
    BY <2>2 DEF l
<1>8. q = SubSeq(q, 1, n) \o SubSeq(q, n + 1, Len(q))
  BY ONLY <1>3, <1>4
<1> QED
  BY ONLY <1>5, <1>6, <1>7, <1>8

(* Two ways to start a sequence with as many elements are one. *)
LEMMA SameStart ==
  ASSUME NEW S, NEW a \in Seq(S), NEW b \in Seq(S), NEW q \in Seq(S), q = a \o b
  PROVE  b = SubSeq(q, Len(a) + 1, Len(q)) /\ a = SubSeq(q, 1, Len(a))
<1>1. /\ Len(q) = Len(a) + Len(b) /\ Len(a) \in Nat /\ Len(b) \in Nat
      /\ \A i \in 1 .. Len(a) + Len(b) : q[i] = IF i <= Len(a) THEN a[i] ELSE b[i - Len(a)]
  BY ConcatProperties, LenProperties
<1> DEFINE n == Len(a)
<1>2. n \in 0 .. Len(q)
  BY <1>1
<1> DEFINE c == SubSeq(q, 1, n)
           d == SubSeq(q, n + 1, Len(q))
<1>3. c \in Seq(S) /\ d \in Seq(S) /\ Len(c) = n /\ q = c \o d
  BY <1>2, Cut
<1> HIDE DEF c, d
<1>4. \A i \in 1 .. Len(c) + Len(d) : q[i] = IF i <= Len(c) THEN c[i] ELSE d[i - Len(c)]
  BY <1>3, ConcatProperties
<1>5. Len(d) \in Nat
  BY <1>3, LenProperties
<1>6. \A i \in 1 .. Len(a) : a[i] = c[i]
  BY <1>1, <1>3, <1>4, <1>5
<1>7. a = c
  BY <1>3, <1>6, SeqEqual
<1>8. b = d
  <2>1. a \o b = a \o d
    BY <1>3, <1>7
  <2> QED
    BY <2>1, <1>3, ConcatSimplifications
<1> QED
  BY <1>7, <1>8 DEF c, d

(* One step of FlattenSeq. *)
FlatStep(ss, g, n) == IF n = 1 THEN ss[n] ELSE g[n - 1] \o ss[n]

(* FlattenSeq is the last value of a function on 1 .. Len(ss) ... *)
LEMMA FlatExists ==
  ASSUME NEW ss
  PROVE  \A n \in Nat : \E g : g = [k \in 1 .. n |-> FlatStep(ss, g, k)]
<1> DEFINE A == {n \in Nat : \E g : g = [k \in 1 .. n |-> FlatStep(ss, g, k)]}
<1>1. 0 \in A
  <2> DEFINE g == [k \in 1 .. 0 |-> <<>>]
  <2>1. g = [k \in 1 .. 0 |-> FlatStep(ss, g, k)]
    OBVIOUS
  <2> QED
    BY <2>1
<1>2. ASSUME NEW n \in Nat, n \in A PROVE n + 1 \in A
  <2>1. PICK g : g = [k \in 1 .. n |-> FlatStep(ss, g, k)]
    BY <1>2
  <2> DEFINE h == [k \in 1 .. n + 1 |-> IF k <= n THEN g[k] ELSE FlatStep(ss, g, n + 1)]
  <2>2. ASSUME NEW k \in 1 .. n + 1 PROVE h[k] = FlatStep(ss, h, k)
    <3>1. \A j \in 1 .. n : h[j] = g[j]
      OBVIOUS
    <3>2. k # 1 => k - 1 \in 1 .. n
      OBVIOUS
    <3>3. FlatStep(ss, h, k) = FlatStep(ss, g, k)
      BY <3>1, <3>2 DEF FlatStep
    <3>4. CASE k <= n
      <4>1. h[k] = g[k] /\ g[k] = FlatStep(ss, g, k)
        BY <3>4, <2>1
      <4> QED
        BY <4>1, <3>3
    <3>5. CASE k = n + 1
      BY <3>3, <3>5
    <3> QED
      BY <3>4, <3>5
  <2>3. h = [k \in 1 .. n + 1 |-> FlatStep(ss, h, k)]
    BY <2>2
  <2> HIDE DEF h
  <2> QED
    BY <2>3
<1> HIDE DEF A
<1>3. \A n \in Nat : n \in A
  BY <1>1, <1>2, SetInduction
<1> QED
  BY <1>3 DEF A

(* ... which is what CHOOSE picks in its definition, *)
LEMMA FlatFunction ==
  ASSUME NEW S, NEW ss \in Seq(S), ss # <<>>
  PROVE  \E g : /\ FlattenSeq(ss) = g[Len(ss)]
                /\ \A n \in 1 .. Len(ss) : g[n] = FlatStep(ss, g, n)
<1> DEFINE N == Len(ss)
<1>1. N \in Nat \ {0}
  BY EmptySeq
<1> DEFINE g == CHOOSE g : g = [k \in 1 .. N |-> FlatStep(ss, g, k)]
<1>2. g = [k \in 1 .. N |-> FlatStep(ss, g, k)]
  BY <1>1, FlatExists
<1>3. FlattenSeq(ss) = g[N]
  BY <1>1 DEF FlattenSeq, FlatStep
<1> HIDE DEF g
<1>4. \A n \in 1 .. N : g[n] = FlatStep(ss, g, n)
  BY <1>1, <1>2
<1> QED
  BY <1>3, <1>4

(* so that a new last sequence is appended. *)
LEMMA FlatAppend ==
  ASSUME NEW S, NEW ss \in Seq(Seq(S)), NEW t \in Seq(S)
  PROVE  FlattenSeq(Append(ss, t)) = FlattenSeq(ss) \o t
<1> DEFINE tt == Append(ss, t)
           N == Len(ss)
<1>1. /\ tt \in Seq(Seq(S)) /\ tt # <<>> /\ Len(tt) = N + 1 /\ tt[N + 1] = t /\ N \in Nat
      /\ \A k \in 1 .. N : tt[k] = ss[k]
  BY AppendProperties, LenProperties
<1> HIDE DEF tt
<1>2. PICK h : /\ FlattenSeq(tt) = h[Len(tt)]
               /\ \A n \in 1 .. Len(tt) : h[n] = FlatStep(tt, h, n)
  BY <1>1, FlatFunction
<1>3. CASE ss = <<>>
  <2>1. N = 0
    BY <1>3, EmptySeq
  <2>2. h[1] = tt[1]
    BY <1>1, <1>2, <2>1 DEF FlatStep
  <2>3. FlattenSeq(ss) = <<>>
    BY <1>3 DEF FlattenSeq
  <2> QED
    BY <1>1, <1>2, <2>1, <2>2, <2>3, ConcatEmptySeq DEF tt
<1>4. CASE ss # <<>>
  <2>1. PICK g : /\ FlattenSeq(ss) = g[N] /\ \A n \in 1 .. N : g[n] = FlatStep(ss, g, n)
    BY <1>4, FlatFunction
  <2>2. N # 0
    BY <1>4, EmptySeq
  <2> HIDE DEF N
  <2> DEFINE A == {n \in Nat : n + 1 <= N => g[n + 1] = h[n + 1]}
  <2>3. 0 \in A
    BY <1>1, <1>2, <2>1, <2>2 DEF FlatStep
  <2>4. ASSUME NEW n \in Nat, n \in A PROVE n + 1 \in A
    <3> SUFFICES ASSUME (n + 1) + 1 <= N PROVE g[(n + 1) + 1] = h[(n + 1) + 1]
      OBVIOUS
    <3> DEFINE k == (n + 1) + 1
    <3>1. k \in 1 .. N /\ k \in 1 .. Len(tt) /\ k - 1 = n + 1 /\ n + 1 <= N /\ k # 1
      BY <1>1
    <3>2. g[k - 1] = h[k - 1] /\ tt[k] = ss[k]
      BY <2>4, <3>1, <1>1
    <3> HIDE DEF k
    <3>3. g[k] = g[k - 1] \o ss[k]
      BY <2>1, <3>1 DEF FlatStep
    <3>4. h[k] = h[k - 1] \o tt[k]
      BY <1>2, <3>1 DEF FlatStep
    <3>5. g[k] = h[k]
      BY <3>2, <3>3, <3>4
    <3> QED
      BY <3>5 DEF k
  <2> HIDE DEF A
  <2>5. N - 1 \in A
    <3>1. N - 1 \in Nat
      BY <1>1, <2>2
    <3> QED
      BY <3>1, <2>3, <2>4, SetInduction
  <2>6. g[N] = h[N]
    BY <1>1, <2>2, <2>5 DEF A
  <2>7. N + 1 \in 1 .. Len(tt) /\ (N + 1) - 1 = N /\ N + 1 # 1
    BY <1>1, <2>2
  <2>8. h[N + 1] = h[N] \o tt[N + 1]
    BY <1>2, <2>7 DEF FlatStep
  <2> QED
    BY <1>1, <1>2, <2>1, <2>6, <2>8 DEF tt
<1> QED
  BY <1>3, <1>4

(* The chunks a plan finds, stream by stream. *)
LEMMA QueuedAppend ==
  ASSUME NEW D, NEW S, NEW out \in [D -> Seq(S)], NEW p \in Seq(D), NEW x \in D
  PROVE  Queued(out, Append(p, x)) = Queued(out, p) \o out[x]
<1> DEFINE q == Append(p, x)
           pp == [k \in DOMAIN p |-> out[p[k]]]
           qq == [k \in DOMAIN q |-> out[q[k]]]
<1>1. /\ q \in Seq(D) /\ Len(q) = Len(p) + 1 /\ q[Len(p) + 1] = x /\ Len(p) \in Nat
      /\ \A k \in 1 .. Len(p) : q[k] = p[k]
      /\ DOMAIN p = 1 .. Len(p) /\ DOMAIN q = 1 .. Len(q)
  BY AppendProperties, LenProperties
<1>2. \A k \in 1 .. Len(p) : p[k] \in D
  BY ElementOfSeq
<1> HIDE DEF q
<1>3. pp \in Seq(Seq(S)) /\ Len(pp) = Len(p)
  <2>1. pp \in [1 .. Len(p) -> Seq(S)]
    BY <1>1, <1>2
  <2> QED
    BY <2>1, <1>1, SeqDef, LenProperties
<1>4. qq = Append(pp, out[x])
  <2>1. qq = [k \in 1 .. Len(p) + 1 |-> out[q[k]]]
    BY <1>1
  <2>2. Append(pp, out[x]) = [k \in 1 .. Len(pp) + 1 |-> IF k = Len(pp) + 1 THEN out[x] ELSE pp[k]]
    BY <1>3
  <2>3. \A k \in 1 .. Len(p) : pp[k] = out[q[k]]
    BY <1>1
  <2> HIDE DEF pp, qq
  <2>4. \A k \in 1 .. Len(p) + 1 : qq[k] = IF k = Len(p) + 1 THEN out[x] ELSE pp[k]
    <3> SUFFICES ASSUME NEW k \in 1 .. Len(p) + 1
                 PROVE  qq[k] = IF k = Len(p) + 1 THEN out[x] ELSE pp[k]
      OBVIOUS
    <3>1. qq[k] = out[q[k]]
      BY <2>1
    <3>2. k # Len(p) + 1 => k \in 1 .. Len(p)
      BY <1>1
    <3> QED
      BY <3>1, <3>2, <2>3, <1>1
  <2> QED
    BY <2>1, <2>2, <2>4, <1>3
<1>5. FlattenSeq(Append(pp, out[x])) = FlattenSeq(pp) \o out[x]
  <2> HIDE DEF pp
  <2> QED
    BY <1>3, FlatAppend
<1> QED
  BY <1>4, <1>5 DEF Queued, q

(* What a plan finds of a stream is its whole queue, if the stream is planned. *)
LEMMA QueuedOfStream ==
  ASSUME NEW D, NEW E, E \subseteq D, NEW out \in [D -> Seq(Chunks)],
         \A j \in D : out[j] \in Seq(Lane(j))
  PROVE  \A p \in Seq(E) : NoRepeat(p) =>
            /\ Queued(out, p) \in Seq({c \in Chunks : c.id \in E})
            /\ \A j \in D : OfStream(Queued(out, p), j) =
                  IF \E k \in 1 .. Len(p) : p[k] = j THEN out[j] ELSE <<>>
<1> DEFINE C == {c \in Chunks : c.id \in E}
           Found(p) == /\ Queued(out, p) \in Seq(C)
                       /\ \A j \in D : OfStream(Queued(out, p), j) =
                             IF \E k \in 1 .. Len(p) : p[k] = j THEN out[j] ELSE <<>>
           A == {p \in Seq(E) : NoRepeat(p) => Found(p)}
<1>1. <<>> \in A
  <2>1. Queued(out, <<>>) = <<>>
    BY DEF Queued, FlattenSeq
  <2>2. \A j : OfStream(<<>>, j) = <<>>
    BY KeptEmpty DEF OfStream
  <2>3. Len(<<>>) = 0 /\ <<>> \in Seq(E) /\ <<>> \in Seq(C)
    BY EmptySeq
  <2>4. ~ \E k \in 1 .. Len(<<>>) : TRUE
    BY <2>3
  <2>5. Found(<<>>)
    BY <2>1, <2>2, <2>3, <2>4
  <2> QED
    BY <2>3, <2>5
<1>2. ASSUME NEW p \in Seq(E), NEW x \in E, p \in A PROVE Append(p, x) \in A
  <2> DEFINE q == Append(p, x)
  <2>1. /\ q \in Seq(E) /\ Len(q) = Len(p) + 1 /\ q[Len(p) + 1] = x /\ Len(p) \in Nat
        /\ \A k \in 1 .. Len(p) : q[k] = p[k]
    BY AppendProperties, LenProperties
  <2>2. Queued(out, q) = Queued(out, p) \o out[x]
    <3>1. p \in Seq(D) /\ x \in D
      BY SeqMonotonic
    <3> QED
      BY <3>1, QueuedAppend
  <2> HIDE DEF q
  <2> SUFFICES ASSUME NoRepeat(q) PROVE Found(q)
    BY <2>1 DEF q
  <2>3. NoRepeat(p) /\ \A k \in 1 .. Len(p) : p[k] # x
    <3>1. Len(p) + 1 \in 1 .. Len(q) /\ \A k \in 1 .. Len(p) : k \in 1 .. Len(q) /\ k # Len(p) + 1
      BY <2>1
    <3> QED
      BY <2>1, <3>1, Zenon DEF NoRepeat
  <2>4. Found(p)
    BY <1>2, <2>3
  <2>5. out[x] \in Seq(Lane(x)) /\ Lane(x) \subseteq C /\ Lane(x) \subseteq Chunks /\ C \subseteq Chunks
    BY DEF Lane
  <2>6. out[x] \in Seq(C) /\ out[x] \in Seq(Chunks) /\ Queued(out, p) \in Seq(Chunks)
    BY <2>4, <2>5, SeqMonotonic
  <2>7. Queued(out, q) \in Seq(C)
    BY <2>2, <2>4, <2>6, ConcatProperties
  <2>8. ASSUME NEW j \in D
        PROVE  OfStream(Queued(out, q), j) = IF \E k \in 1 .. Len(q) : q[k] = j THEN out[j] ELSE <<>>
    <3> DEFINE s == OfStream(Queued(out, p), j)
               t == OfStream(out[x], j)
    <3>1. OfStream(Queued(out, q), j) = s \o t
      <4>1. \A a, b \in Seq(Chunks) : OfStream(a \o b, j) = OfStream(a, j) \o OfStream(b, j)
        BY KeptConcat, Zenon DEF OfStream
      <4> QED
        BY <2>2, <2>6, <4>1
    <3>2. s \in Seq(Chunks) /\ t \in Seq(Chunks)
      BY <2>6, KeptType DEF OfStream
    <3>3. t = IF j = x THEN out[x] ELSE <<>>
      <4>1. j = x => Lane(x) \subseteq Lane(j)
        OBVIOUS
      <4>2. j # x => Lane(x) \cap Lane(j) = {}
        BY DEF Lane
      <4>3. t = Kept(out[x], Lane(j))
        BY DEF OfStream, Lane
      <4> QED
        BY <4>1, <4>2, <4>3, <2>5, KeptAll
    <3>4. s = IF \E k \in 1 .. Len(p) : p[k] = j THEN out[j] ELSE <<>>
      BY <2>4
    <3> HIDE DEF s, t
    <3>5. CASE j = x
      <4>1. s = <<>>
        BY <3>4, <3>5, <2>3
      <4>2. \E k \in 1 .. Len(q) : q[k] = j
        BY <2>1, <3>5
      <4> QED
        BY <3>1, <3>2, <3>3, <3>5, <4>1, <4>2, ConcatEmptySeq
    <3>6. CASE j # x
      <4>1. (\E k \in 1 .. Len(q) : q[k] = j) <=> (\E k \in 1 .. Len(p) : p[k] = j)
        <5>1. \A k \in 1 .. Len(p) : k \in 1 .. Len(q)
          BY <2>1
        <5>2. \A k \in 1 .. Len(q) : k \in 1 .. Len(p) \/ k = Len(p) + 1
          BY <2>1
        <5> QED
          BY <2>1, <3>6, <5>1, <5>2, Zenon
      <4>2. s \o t = s
        BY <3>2, <3>3, <3>6, ConcatEmptySeq
      <4> QED
        BY <3>1, <3>4, <4>1, <4>2
    <3> QED
      BY <3>5, <3>6
  <2> QED
    BY <2>7, <2>8
<1> HIDE DEF A
<1>3. \A p \in Seq(E) : p \in A
  BY <1>1, <1>2, SeqInduction
<1> QED
  BY <1>3 DEF A

(* What popping takes from a queue and what it leaves make up the queue. *)
Poppable(D, E, out, p, n) ==
  /\ E \subseteq D /\ out \in [D -> Seq(Chunks)] /\ \A j \in D : out[j] \in Seq(Lane(j))
  /\ p \in Seq(E) /\ NoRepeat(p) /\ n \in Nat

SplitBy(D, E, out, taken) ==
  /\ taken \in Seq(Chunks) /\ taken \in Seq({c \in Chunks : c.id \in E})
  /\ Popped(out, taken) \in [D -> Seq(Chunks)]
  /\ \A j \in D : /\ Popped(out, taken)[j] \in Seq(Lane(j))
                  /\ OfStream(taken, j) \in Seq(Chunks)
                  /\ OfStream(taken, j) \o Popped(out, taken)[j] = out[j]

(* What popNOutgoingChunks takes and what it leaves make up every queue. *)
LEMMA PopKeepsChunks ==
  ASSUME NEW D, NEW E, NEW out, NEW p, NEW n, Poppable(D, E, out, p, n)
  PROVE  SplitBy(D, E, out, popNOutgoingChunks(out, p, n))
<1> DEFINE taken == popNOutgoingChunks(out, p, n)
<1>a. /\ E \subseteq D /\ out \in [D -> Seq(Chunks)] /\ \A j \in D : out[j] \in Seq(Lane(j))
      /\ p \in Seq(E) /\ NoRepeat(p) /\ n \in Nat
  BY DEF Poppable
<1>b. taken = popNOutgoingChunks(out, p, n)
  OBVIOUS
<1> HIDE DEF taken
<1> DEFINE Q == Queued(out, p)
           C == {c \in Chunks : c.id \in E}
           m == Min({n, Len(Q)})
           rest == SubSeq(Q, m + 1, Len(Q))
<1>1. /\ Q \in Seq(C)
      /\ \A j \in D : OfStream(Q, j) = IF \E k \in 1 .. Len(p) : p[k] = j THEN out[j] ELSE <<>>
  <2>1. \A r \in Seq(E) : NoRepeat(r) =>
           /\ Queued(out, r) \in Seq({c \in Chunks : c.id \in E})
           /\ \A j \in D : OfStream(Queued(out, r), j) =
                 IF \E k \in 1 .. Len(r) : r[k] = j THEN out[j] ELSE <<>>
    BY ONLY <1>a, QueuedOfStream
  <2> QED
    BY <1>a, <2>1, Zenon
<1>2. taken = SubSeq(Q, 1, m)
  BY <1>b DEF popNOutgoingChunks
<1> HIDE DEF Q
<1>3. m \in 0 .. Len(Q)
  <2>1. Len(Q) \in Nat
    BY <1>1, LenProperties
  <2>2. {n, Len(Q)} \subseteq Nat /\ {n, Len(Q)} # {}
    BY <1>a, <2>1
  <2>3. m \in {n, Len(Q)} /\ \A y \in {n, Len(Q)} : m <= y
    BY <2>2, MinIsLeast
  <2> HIDE DEF m
  <2> QED
    BY <1>a, <2>1, <2>3
<1> HIDE DEF m
<1>4. taken \in Seq(C) /\ rest \in Seq(C) /\ Q = taken \o rest
  BY ONLY <1>1, <1>2, <1>3, Cut DEF rest
<1> HIDE DEF rest
<1>5. C \subseteq Chunks
  OBVIOUS
<1>6. taken \in Seq(Chunks) /\ rest \in Seq(Chunks)
  BY <1>4, <1>5, SeqMonotonic
<1> HIDE DEF C
<1>7. ASSUME NEW j \in D
      PROVE  /\ Popped(out, taken)[j] \in Seq(Lane(j))
             /\ OfStream(taken, j) \in Seq(Chunks)
             /\ OfStream(taken, j) \o Popped(out, taken)[j] = out[j]
  <2> DEFINE a == OfStream(taken, j)
             b == OfStream(rest, j)
             q == out[j]
  <2>1. a \in Seq(Chunks) /\ b \in Seq(Chunks) /\ b \in Seq(Lane(j)) /\ q \in Seq(Chunks) /\ q \in Seq(Lane(j))
    <3>1. OfStream(rest, j) = Kept(rest, Lane(j)) /\ OfStream(taken, j) = Kept(taken, Lane(j))
      BY DEF OfStream, Lane
    <3>2. Chunks \cap Lane(j) = Lane(j)
      BY DEF Lane
    <3>3. Kept(rest, Lane(j)) \in Seq(Chunks) /\ Kept(rest, Lane(j)) \in Seq(Chunks \cap Lane(j))
      BY <1>6, KeptType
    <3>4. Kept(taken, Lane(j)) \in Seq(Chunks)
      BY <1>6, KeptType
    <3>5. q \in Seq(Chunks) /\ q \in Seq(Lane(j))
      BY <1>a
    <3> QED
      BY <3>1, <3>2, <3>3, <3>4, <3>5, Zenon
  <2>2. OfStream(Q, j) = a \o b
    BY <1>4, <1>6, KeptConcat DEF OfStream
  <2>3. Popped(out, taken)[j] = SubSeq(q, Len(a) + 1, Len(q))
    BY <1>a DEF Popped
  <2>4. OfStream(Q, j) = q \/ OfStream(Q, j) = <<>>
    BY <1>1
  <2> HIDE DEF a, b, q
  <2>5. CASE OfStream(Q, j) = q
    <3>1. q = a \o b
      BY <2>2, <2>5
    <3>2. b = SubSeq(q, Len(a) + 1, Len(q))
      BY <2>1, <3>1, SameStart
    <3> QED
      BY <2>1, <2>3, <3>1, <3>2 DEF a, q
  <2>6. CASE OfStream(Q, j) = <<>>
    <3>1. a = <<>>
      <4>1. a \o b = <<>>
        BY ONLY <2>2, <2>6
      <4> QED
        BY ONLY <2>1, <4>1, BothEmpty
    <3>2. Len(a) + 1 = 1
      BY <3>1
    <3>3. SubSeq(q, 1, Len(q)) = q
      BY <2>1, SubSeqFull
    <3>4. a \o q = q
      BY <2>1, <3>1, ConcatEmptySeq
    <3> QED
      BY <2>1, <2>3, <3>2, <3>3, <3>4 DEF a, q
  <2> QED
    BY <2>4, <2>5, <2>6
<1>8. Popped(out, taken) \in [D -> Seq(Chunks)]
  <2>1. Popped(out, taken) = [j \in D |-> Popped(out, taken)[j]]
    BY <1>a DEF Popped
  <2>2. \A j \in D : Lane(j) \subseteq Chunks
    BY DEF Lane
  <2>3. \A j \in D : Popped(out, taken)[j] \in Seq(Chunks)
    BY <1>7, <2>2, SeqMonotonic
  <2> QED
    BY <2>1, <2>3
<1> QED
  BY <1>4, <1>6, <1>7, <1>8, Zenon DEF C, SplitBy, taken

(* A plan names streams that wait, each once. *)
LEMMA PlanIsWaiting ==
  ASSUME NEW D, IsFiniteSet(D), NEW out, DOMAIN out = D, NEW ps, NEW u, NEW n,
         NEW p \in planForNOutgoingChunks(out, ps, u, n)
  PROVE  p \in Seq(Waiting(out, ps, u)) /\ NoRepeat(p)
<1> DEFINE W == Waiting(out, ps, u)
           Enough(q) == {k \in 0 .. Len(q) : k = Len(q) \/ Len(Queued(out, SubSeq(q, 1, k))) >= n}
<1>1. Cardinality(W) \in Nat
  <2>1. W \subseteq D
    BY DEF Waiting
  <2> QED
    BY <2>1, FS_Subset, FS_CardinalityType
<1>2. PICK q \in SetToSeqs(W) : p = SubSeq(q, 1, Min(Enough(q)))
  BY DEF planForNOutgoingChunks
<1> HIDE DEF W
<1>3. q \in [1 .. Cardinality(W) -> W] /\ \A i, j \in 1 .. Cardinality(W) : i # j => q[i] # q[j]
  BY DEF SetToSeqs
<1>4. q \in Seq(W) /\ Len(q) = Cardinality(W)
  BY <1>1, <1>3, SeqDef
<1>5. Min(Enough(q)) \in 0 .. Len(q)
  <2>1. Enough(q) \subseteq Nat /\ Len(q) \in Enough(q)
    BY <1>1, <1>4
  <2>2. Min(Enough(q)) \in Enough(q)
    <3> HIDE DEF Enough
    <3> QED
      BY <2>1, MinIsLeast
  <2> QED
    BY <2>2
<1> DEFINE m == Min(Enough(q))
<1> HIDE DEF Enough, m
<1>6. p \in Seq(W) /\ Len(p) = m
  BY <1>2, <1>4, <1>5, Cut DEF m
<1>7. \A k \in 1 .. m : p[k] = q[k]
  <2>1. \A k \in 1 .. m : q[k] \in W
    BY <1>3, <1>4, <1>5 DEF m
  <2>2. \A k \in 1 .. m - 1 + 1 : p[k] = q[1 + k - 1]
    BY <1>2, <1>4, <1>5, <2>1, SubSeqProperties DEF m
  <2> QED
    BY <2>2, <1>5 DEF m
<1>8. NoRepeat(p)
  BY <1>3, <1>4, <1>5, <1>6, <1>7 DEF NoRepeat, m
<1> QED
  BY <1>6, <1>8 DEF W

-------------------------------------------------------------------------------
(* Constants, chunks and what a step leaves alone. *)

(* The constants and the sets of identifiers. *)
LEMMA Numbers ==
  /\ MaxIds \in Nat \ {0} /\ MaxCalls \in Nat \ {0} /\ MaxFetches \in Nat \ {0} /\ VecCnt \in Nat
  /\ Ids \subseteq Nat /\ StaticIds \subseteq Nat /\ AllIds \subseteq Nat
  /\ Ids \cap StaticIds = {} /\ Ids \subseteq AllIds /\ StaticIds \subseteq AllIds
  /\ \A j \in AllIds : j \in Ids \/ j \in StaticIds
  /\ NoUrl \notin Urls /\ StaticUrls \subseteq Urls
  /\ IsFiniteSet(Ids) /\ IsFiniteSet(AllIds)
<1>1. /\ MaxIds \in Nat \ {0} /\ MaxCalls \in Nat \ {0} /\ MaxFetches \in Nat \ {0} /\ VecCnt \in Nat
      /\ NoUrl \notin Urls /\ StaticUrls \subseteq Urls
  BY StreamAssumption DEF NoUrl
<1>2. /\ Ids \subseteq Nat /\ StaticIds \subseteq Nat /\ AllIds \subseteq Nat
      /\ Ids \cap StaticIds = {} /\ Ids \subseteq AllIds /\ StaticIds \subseteq AllIds
      /\ \A j \in AllIds : j \in Ids \/ j \in StaticIds
  BY <1>1 DEF Ids, StaticIds, AllIds
<1>3. IsFiniteSet(Ids) /\ IsFiniteSet(StaticIds)
  <2>1. MaxIds + 1 \in Int /\ MaxIds + MaxCalls \in Int /\ MaxIds \in Int /\ 1 \in Int
    BY <1>1
  <2> QED
    BY <2>1, FS_Interval DEF Ids, StaticIds
<1>4. IsFiniteSet(AllIds)
  BY <1>3, FS_Union DEF AllIds
<1> QED
  BY <1>1, <1>2, <1>3, <1>4

(* A message has at least one chunk. *)
LEMMA Pieces ==
  /\ Len(RequestPieces) \in Nat \ {0} /\ DOMAIN RequestPieces = 1 .. Len(RequestPieces)
  /\ Len(ResponsePieces) \in Nat \ {0} /\ DOMAIN ResponsePieces = 1 .. Len(ResponsePieces)
BY EndAssumption DEF RequestPieces, ResponsePieces

(* The chunks of a request and of an answer. *)
LEMMA MessageTypes ==
  ASSUME NEW i \in Nat
  PROVE  /\ RequestOf(i) \in Seq(Lane(i) \cap Kind("req")) /\ Len(RequestOf(i)) = Len(RequestPieces)
         /\ AnswerOf(i) \in Seq(Lane(i) \cap Kind("resp")) /\ Len(AnswerOf(i)) = Len(ResponsePieces)
         /\ RequestOf(i) # <<>> /\ AnswerOf(i) # <<>>
<1> DEFINE m == Len(RequestPieces)
           n == Len(ResponsePieces)
<1>1. m \in Nat \ {0} /\ n \in Nat \ {0} /\ DOMAIN RequestPieces = 1 .. m /\ DOMAIN ResponsePieces = 1 .. n
  BY Pieces
<1> HIDE DEF m, n
<1>2. RequestOf(i) \in [1 .. m -> Lane(i) \cap Kind("req")]
  BY <1>1 DEF RequestOf, Chunk, Lane, Kind, Chunks
<1>3. AnswerOf(i) \in [1 .. n -> Lane(i) \cap Kind("resp")]
  BY <1>1 DEF AnswerOf, Chunk, Lane, Kind, Chunks
<1>4. RequestOf(i) \in Seq(Lane(i) \cap Kind("req")) /\ Len(RequestOf(i)) = m
  BY <1>1, <1>2, SeqDef
<1>5. AnswerOf(i) \in Seq(Lane(i) \cap Kind("resp")) /\ Len(AnswerOf(i)) = n
  BY <1>1, <1>3, SeqDef
<1>6. Len(RequestOf(i)) # 0 /\ Len(AnswerOf(i)) # 0
  BY <1>1, <1>4, <1>5
<1> QED
  BY <1>4, <1>5, <1>6, EmptySeq DEF m, n

(* Heartbeats, placeholders and close signals. *)
LEMMA SignalTypes ==
  ASSUME NEW i \in Nat
  PROVE  /\ Beat(i) \in Seq(Lane(i) \cap Kind("beat")) /\ Placeholder(i) \in Seq(Lane(i) \cap Kind("hold"))
         /\ Close(i) \in Seq(Lane(i) \cap Kind("close"))
         /\ Beat(i) # Close(i) /\ Placeholder(i) # Close(i) /\ Close(i) # <<>> /\ Placeholder(i) # <<>>
<1>1. /\ Chunk(i, "beat", 0) \in Lane(i) \cap Kind("beat")
      /\ Chunk(i, "hold", 0) \in Lane(i) \cap Kind("hold")
      /\ Chunk(i, "close", 0) \in Lane(i) \cap Kind("close")
      /\ Chunk(i, "beat", 0) # Chunk(i, "close", 0) /\ Chunk(i, "hold", 0) # Chunk(i, "close", 0)
  BY DEF Chunk, Chunks, Lane, Kind
<1> QED
  BY <1>1 DEF Beat, Placeholder, Close

(* A sequence over chunks of a lane or a kind is one over chunks. *)
LEMMA LaneSeq ==
  ASSUME NEW i, NEW k
  PROVE  /\ \A s : s \in Seq(Lane(i)) => s \in Seq(Chunks)
         /\ \A s : s \in Seq(Kind(k)) => s \in Seq(Chunks)
         /\ \A s : s \in Seq(Lane(i) \cap Kind(k)) => s \in Seq(Lane(i)) /\ s \in Seq(Kind(k)) /\ s \in Seq(Chunks)
<1>1. Lane(i) \subseteq Chunks /\ Kind(k) \subseteq Chunks /\ Lane(i) \cap Kind(k) \subseteq Chunks
      /\ Lane(i) \cap Kind(k) \subseteq Lane(i) /\ Lane(i) \cap Kind(k) \subseteq Kind(k)
  BY DEF Lane, Kind
<1> QED
  BY <1>1, SeqMonotonic

(* Filters by kind. *)
LEMMA OfKindFacts ==
  ASSUME NEW k
  PROVE  /\ OfKind(<<>>, k) = <<>>
         /\ \A s \in Seq(Chunks) : OfKind(s, k) \in Seq(Chunks)
         /\ \A s, t \in Seq(Chunks) : OfKind(s \o t, k) = OfKind(s, k) \o OfKind(t, k)
         /\ \A s \in Seq(Kind(k)) : OfKind(s, k) = s
         /\ \A j : j # k => \A s \in Seq(Kind(j)) : OfKind(s, k) = <<>>
<1>1. \A s : OfKind(s, k) = Kept(s, Kind(k))
  BY DEF OfKind, Kind
<1>2. \A s \in Seq(Chunks) : Kept(s, Kind(k)) \in Seq(Chunks) /\ Kept(s, Kind(k)) \in Seq(Chunks \cap Kind(k))
  BY KeptType
<1>3. \A s, t \in Seq(Chunks) : Kept(s \o t, Kind(k)) = Kept(s, Kind(k)) \o Kept(t, Kind(k))
  BY KeptConcat
<1>4. \A s \in Seq(Kind(k)) : Kept(s, Kind(k)) = s
  BY KeptAll
<1>5. \A j : j # k => \A s \in Seq(Kind(j)) : Kept(s, Kind(k)) = <<>>
  <2>1. \A j : j # k => Kind(j) \cap Kind(k) = {}
    BY DEF Kind
  <2> QED
    BY <2>1, KeptAll
<1>7. Kept(<<>>, Kind(k)) = <<>>
  BY KeptEmpty
<1>8. \A s \in Seq(Chunks) : OfKind(s, k) \in Seq(Chunks)
  BY ONLY <1>1, <1>2
<1>9. \A s, t \in Seq(Chunks) : OfKind(s \o t, k) = OfKind(s, k) \o OfKind(t, k)
  BY ONLY <1>1, <1>3
<1>10. \A s \in Seq(Kind(k)) : OfKind(s, k) = s
  BY ONLY <1>1, <1>4
<1>11. \A j : j # k => \A s \in Seq(Kind(j)) : OfKind(s, k) = <<>>
  BY ONLY <1>1, <1>5
<1> QED
  BY ONLY <1>1, <1>7, <1>8, <1>9, <1>10, <1>11

(* Filters by stream. *)
LEMMA OfStreamFacts ==
  ASSUME NEW i
  PROVE  /\ OfStream(<<>>, i) = <<>>
         /\ \A s \in Seq(Chunks) : OfStream(s, i) \in Seq(Chunks)
         /\ \A s, t \in Seq(Chunks) : OfStream(s \o t, i) = OfStream(s, i) \o OfStream(t, i)
         /\ \A s \in Seq(Lane(i)) : OfStream(s, i) = s
         /\ \A T : \A s \in Seq(T) : (\A c \in T : c.id # i) => OfStream(s, i) = <<>>
         /\ \A c \in Chunks : OfStream(<<c>>, i) = IF c.id = i THEN <<c>> ELSE <<>>
<1>1. \A s : OfStream(s, i) = Kept(s, Lane(i))
  BY DEF OfStream, Lane
<1>2. \A s \in Seq(Chunks) : Kept(s, Lane(i)) \in Seq(Chunks)
  BY KeptType
<1>3. \A s, t \in Seq(Chunks) : Kept(s \o t, Lane(i)) = Kept(s, Lane(i)) \o Kept(t, Lane(i))
  BY KeptConcat
<1>4. \A s \in Seq(Lane(i)) : Kept(s, Lane(i)) = s
  BY KeptAll
<1>5. \A T : \A s \in Seq(T) : (\A c \in T : c.id # i) => Kept(s, Lane(i)) = <<>>
  <2>1. ASSUME NEW T, NEW s \in Seq(T), \A c \in T : c.id # i PROVE Kept(s, Lane(i)) = <<>>
    <3>1. T \cap Lane(i) = {}
      BY <2>1 DEF Lane
    <3> QED
      BY <3>1, KeptAll
  <2> QED
    BY <2>1
<1>6. \A c \in Chunks : Kept(<<c>>, Lane(i)) = IF c.id = i THEN <<c>> ELSE <<>>
  BY KeptOne DEF Lane
<1>7. Kept(<<>>, Lane(i)) = <<>>
  BY KeptEmpty
<1> QED
  BY ONLY <1>1, <1>2, <1>3, <1>4, <1>5, <1>6, <1>7

(* A decoder says that a message is whole exactly when nothing is missing. *)
Tells(m, x, kind, got, rest) ==
  got \o rest = [n \in DOMAIN Encoded(m) |-> Chunk(x, kind, n)] =>
     ((can_decode(m.type, [k \in DOMAIN got |-> Encoded(m)[got[k].n]]) > 0) <=> (rest = <<>>))

(* The decoder that gathers the chunks of a message knows when it is whole. *)
LEMMA EndsWhole ==
  ASSUME NEW m \in {Request, Response}, NEW x, NEW kind, NEW got \in Seq(Chunks), NEW rest \in Seq(Chunks)
  PROVE  Tells(m, x, kind, got, rest)
<1> SUFFICES ASSUME got \o rest = [n \in DOMAIN Encoded(m) |-> Chunk(x, kind, n)]
             PROVE  (can_decode(m.type, [k \in DOMAIN got |-> Encoded(m)[got[k].n]]) > 0) <=> (rest = <<>>)
  BY DEF Tells
<1> DEFINE e == Encoded(m)
           l == Len(got)
<1>1. /\ Len(e) \in Nat \ {0} /\ DOMAIN e = 1 .. Len(e)
      /\ \A n \in 0 .. Len(e) : (can_decode(m.type, [k \in 1 .. n |-> e[k]]) > 0) <=> (n = Len(e))
  BY EndAssumption
<1> HIDE DEF e
<1>2. /\ got \o rest \in Seq(Chunks) /\ Len(got \o rest) = l + Len(rest) /\ l \in Nat /\ Len(rest) \in Nat
      /\ \A i \in 1 .. l + Len(rest) : (got \o rest)[i] = IF i <= l THEN got[i] ELSE rest[i - l]
      /\ DOMAIN got = 1 .. l
  BY ONLY got \in Seq(Chunks), rest \in Seq(Chunks), ConcatProperties, LenProperties
<1> DEFINE full == [n \in 1 .. Len(e) |-> Chunk(x, kind, n)]
<1>3. got \o rest = full
  BY <1>1 DEF e
<1>4. Len(got \o rest) = Len(e)
  <2>1. DOMAIN (got \o rest) = 1 .. Len(got \o rest)
    BY <1>2, LenProperties
  <2>2. 1 .. Len(got \o rest) = 1 .. Len(e) /\ Len(got \o rest) \in Nat
    BY <2>1, <1>2, <1>3
  <2> HIDE DEF full, l
  <2> DEFINE a == Len(got \o rest)
  <2>3. 1 .. a = 1 .. Len(e) /\ a \in Nat
    BY <2>2
  <2> HIDE DEF a
  <2> DEFINE N == Len(e)
  <2>n. 1 .. a = 1 .. N /\ N \in Nat \ {0}
    BY <2>3, <1>1
  <2> HIDE DEF N
  <2>5. N \in 1 .. a /\ (a # 0 => a \in 1 .. N)
    BY <2>3, <2>n
  <2>4. a = N
    BY <2>3, <2>n, <2>5
  <2> QED
    BY <2>4 DEF a, N
<1> DEFINE N == Len(e)
           r == Len(rest)
<1>a. N \in Nat \ {0} /\ l \in Nat /\ r \in Nat /\ N = l + r
  BY <1>1, <1>2, <1>4
<1>5. l \in 0 .. Len(e)
  <2>1. l \in 0 .. N
    <3> HIDE DEF N, l, r
    <3> QED
      BY <1>a
  <2> QED
    BY <2>1
<1>6. ASSUME NEW k \in 1 .. l PROVE got[k].n = k
  <2>1. k \in 1 .. l + Len(rest) /\ k \in 1 .. Len(e)
    BY <1>2, <1>4
  <2>2. (got \o rest)[k] = got[k]
    BY <2>1, <1>2
  <2>3. full[k] = Chunk(x, kind, k)
    BY <2>1
  <2>4. got[k] = Chunk(x, kind, k)
    BY <2>2, <2>3, <1>3
  <2> QED
    BY <2>4 DEF Chunk
<1>7. [k \in DOMAIN got |-> e[got[k].n]] = [k \in 1 .. l |-> e[k]]
  BY <1>2, <1>6
<1>8. l = Len(e) <=> rest = <<>>
  <2>1. rest = <<>> <=> Len(rest) = 0
    BY EmptySeq
  <2>2. l = N <=> r = 0
    <3> HIDE DEF N, l, r
    <3> QED
      BY <1>a
  <2> QED
    BY <2>1, <2>2
<1> QED
  BY <1>1, <1>5, <1>7, <1>8 DEF e

-------------------------------------------------------------------------------
(* Identifiers. *)

(* The identifier of an asset that was fetched before. *)
LEMMA StaticIdExists ==
  ASSUME NEW u, \E i \in Ids : paths[i] = u
  PROVE  StaticIdOf(u) \in Ids /\ paths[StaticIdOf(u)] = u
BY DEF StaticIdOf

(* The search for an identifier ends at one that is free, or at the one the
   asset has. *)
LEMMA SubmitId ==
  ASSUME Types, NEW u \in Urls, HasId(u), NEW i, i = getNewRequestStreamIdentifier(u)
  PROVE  /\ i \in Ids
         /\ paths[i] = NoUrl \/ (u \in StaticUrls /\ paths[i] = u)
         /\ u \in StaticUrls /\ (\E j \in Ids : paths[j] = u) => paths[i] = u /\ i = StaticIdOf(u)
<1>1. CASE u \in StaticUrls /\ \E j \in Ids : paths[j] = u
  BY <1>1, StaticIdExists DEF getNewRequestStreamIdentifier
<1>2. CASE ~ (u \in StaticUrls /\ \E j \in Ids : paths[j] = u)
  <2> DEFINE d(j) == (j - nextId + MaxIds) % MaxIds
             T == {d(j) : j \in FreeIds}
  <2>1. FreeIds # {} /\ FreeIds \subseteq Ids
    BY <1>2 DEF HasId, FreeIds
  <2>2. i = CHOOSE j \in FreeIds : \A k \in FreeIds : d(j) <= d(k)
    BY <1>2 DEF getNewRequestStreamIdentifier
  <2>3. \A j \in FreeIds : d(j) \in Nat
    <3> SUFFICES ASSUME NEW j \in FreeIds PROVE d(j) \in Nat
      OBVIOUS
    <3>1. j \in Nat /\ nextId \in Nat /\ MaxIds \in Nat \ {0}
      BY <2>1, Numbers DEF Types, ClientTypes
    <3>2. j - nextId + MaxIds \in Int
      BY <3>1
    <3> QED
      BY <3>1, <3>2
  <2> HIDE DEF d
  <2>4. T \subseteq Nat /\ T # {}
    BY <2>1, <2>3
  <2>5. PICK x \in T : \A y \in T : x <= y
    BY <2>4, LeastExists
  <2>6. \E j \in FreeIds : \A k \in FreeIds : d(j) <= d(k)
    BY <2>5
  <2>7. i \in FreeIds
    BY <2>2, <2>6
  <2> QED
    BY <1>2, <2>1, <2>7 DEF FreeIds
<1> QED
  BY <1>1, <1>2

(* What is known when the server starts to send an asset: the asset was not sent
   before, and there is an identifier for it. *)
LEMMA StartId ==
  ASSUME Inv, NEW u \in StaticUrls, start_response(u)
  PROVE  /\ StaticIdOf(u) \in Ids /\ paths[StaticIdOf(u)] = u /\ execs[StaticIdOf(u)] = 0
         /\ snext \in StaticIds
<1> DEFINE i == StaticIdOf(u)
<1>1. u \in Urls /\ http[u].open /\ ~http[u].started
  BY Numbers DEF start_response
<1>2. i \in Ids /\ paths[i] = u
  BY <1>1, StaticIdExists DEF Inv, Flags
<1> HIDE DEF i
<1>3. Fetching(i)
  BY <1>2 DEF Inv, AllFetch, IsStatic
<1>4. execs[i] = 0
  <2>1. execs[i] \in {0, 1} /\ (execs[i] = 1 => \E x \in StaticIds : Sending(i, u, x))
    BY <1>2, <1>3 DEF Fetching, Fetched
  <2>2. \A x \in StaticIds : Sending(i, u, x) => http[u].started
    BY <1>1 DEF Sending
  <2> QED
    BY <1>1, <2>1, <2>2
<1>5. /\ IsFiniteSet(Used) /\ Served \subseteq Used \ {i} /\ i \in Used
  <2>1. Used \subseteq Ids /\ IsFiniteSet(Ids)
    BY Numbers DEF Used
  <2>2. IsFiniteSet(Used)
    BY <2>1, FS_Subset
  <2>3. u # NoUrl /\ NoUrl \notin StaticUrls
    BY <1>1, Numbers
  <2> QED
    BY <1>2, <1>4, <2>2, <2>3 DEF Served, Used
<1>6. Cardinality(Served) <= Cardinality(Used) - 1 /\ Cardinality(Served) \in Nat /\ Cardinality(Used) \in Nat
  <2>1. IsFiniteSet(Used \ {i}) /\ Cardinality(Used \ {i}) = Cardinality(Used) - 1 /\ Cardinality(Used) \in Nat
    BY <1>5, FS_RemoveElement, FS_CardinalityType
  <2>2. IsFiniteSet(Served) /\ Cardinality(Served) <= Cardinality(Used \ {i})
    BY <1>5, <2>1, FS_Subset
  <2>3. Cardinality(Served) \in Nat
    BY <2>2, FS_CardinalityType
  <2> QED
    BY <2>1, <2>2, <2>3
<1>7. snext \in StaticIds
  <2> DEFINE s == Cardinality(Served)
             n == Cardinality(Used)
  <2>1. s <= n - 1 /\ s \in Nat /\ n \in Nat /\ n <= calls /\ snext = MaxIds + 1 + s
    BY <1>6 DEF Inv, Counts
  <2>2. calls \in 0 .. MaxCalls /\ MaxCalls \in Nat /\ MaxIds \in Nat
    BY Numbers DEF Inv, Types, ClientTypes
  <2> HIDE DEF s, n
  <2> QED
    BY <2>1, <2>2 DEF StaticIds
<1> QED
  BY <1>2, <1>4, <1>7 DEF i

-------------------------------------------------------------------------------
(* Init. *)

(* The invariant holds at the start. *)
LEMMA InvInit == Init => Inv
<1> SUFFICES ASSUME Init PROVE Inv
  OBVIOUS
<1>1. Types
  <2>1. \A S : <<>> \in Seq(S)
    BY EmptySeq
  <2>2. NoMsg \in ClientMessages /\ NoStream \in Streams /\ NoResponse \in Responses
    BY <2>1 DEF NoMsg, NoStream, NoResponse, ClientMessages, Streams, Responses
  <2>3. 1 \in Ids /\ MaxIds + 1 \in Nat /\ 0 \in 0 .. MaxCalls
    BY Numbers DEF Ids
  <2> QED
    BY <2>1, <2>2, <2>3 DEF Init, Types, ClientTypes, ServerTypes
<1>2. Known
  BY Numbers, EmptySeq DEF Init, Known, Unused, Idle
<1>3. Lanes
  <2>1. \A S : <<>> \in Seq(S)
    BY EmptySeq
  <2> QED
    BY <2>1 DEF Init, Lanes, Idle, NoMsg, NoStream
<1>4. Flags
  BY DEF Init, Flags, Idle, NoStream
<1>5. Counts
  <2>1. Served = {} /\ Used = {}
    BY Numbers DEF Init, Served, Used
  <2>2. Cardinality({}) = 0
    BY FS_EmptySet
  <2> QED
    BY <2>1, <2>2, Numbers DEF Init, Counts
<1>6. Completes
  BY DEF Init, Completes, NoMsg, Idle
<1>7. AllAsk /\ AllAnswer /\ AllFetch
  BY Numbers DEF Init, AllAsk, AllAnswer, AllFetch, Routed, IsStatic
<1>8. AllSingle
  <2>1. \A i : Kept(<<>>, {i}) = <<>>
    BY KeptEmpty
  <2>2. Len(<<>>) = 0
    BY EmptySeq
  <2>3. \A i : Count(cq, i) = 0
    BY <2>1, <2>2 DEF Init, Count
  <2>4. \A i : ~Calling(i)
    BY DEF Init, Calling, Idle
  <2>5. \A i \in Ids : delivered[i] = <<>>
    BY DEF Init
  <2> QED
    BY <2>3, <2>4, <2>5 DEF AllSingle, Single
<1>9. Handling
  <2>1. \A i : Kept(<<>>, {i}) = <<>>
    BY KeptEmpty
  <2>2. OfKind(<<>>, "req") = <<>> /\ Len(<<>>) = 0
    BY OfKindFacts, EmptySeq
  <2>3. \A i \in Ids : i \in AllIds
    BY Numbers
  <2> QED
    BY <2>1, <2>2, <2>3 DEF Init, Handling, Handlers, Count, Idle
<1> QED
  BY <1>1, <1>2, <1>3, <1>4, <1>5, <1>6, <1>7, <1>8, <1>9 DEF Inv

-------------------------------------------------------------------------------
(* Types. *)

(* What is written into the queues is made of chunks. *)
LEMMA WrittenTypes ==
  ASSUME NEW i \in Nat
  PROVE  /\ RequestOf(i) \in Seq(Chunks) /\ AnswerOf(i) \in Seq(Chunks) /\ Beat(i) \in Seq(Chunks)
         /\ Placeholder(i) \in Seq(Chunks) /\ Close(i) \in Seq(Chunks)
BY MessageTypes, SignalTypes, LaneSeq

(* The types after a submission, *)
LEMMA TypesSubmit == ASSUME Inv, NEW u \in Urls, Submit(u) PROVE Types'
<1> DEFINE i == getNewRequestStreamIdentifier(u)
           first == IF u \in StaticUrls THEN Placeholder(i) ELSE RequestOf(i)
<1>1. /\ cw = Idle /\ calls < MaxCalls /\ HasId(u)
      /\ paths' = [paths EXCEPT ![i] = u]
      /\ nextId' = IF paths[i] = NoUrl THEN After(i) ELSE nextId
      /\ msg' = IF paths[i] = NoUrl THEN [msg EXCEPT ![i].out = first] ELSE msg
      /\ cq' = Append(cq, i)
      /\ calls' = calls + 1
      /\ UNCHANGED <<delivered, cin, cout, cw, cio, http, server>>
  BY DEF Submit
<1>2. Types
  BY DEF Inv
<1>3. i \in Ids
  BY <1>1, <1>2, SubmitId
<1>4. i \in Nat /\ MaxIds \in Nat \ {0} /\ MaxCalls \in Nat
  BY <1>3, Numbers
<1>5. first \in Seq(Chunks)
  BY <1>4, WrittenTypes
<1> HIDE DEF i, first
<1>6. After(i) \in Ids
  BY <1>4 DEF After, Ids
<1>7. msg' \in [Ids -> ClientMessages]
  BY <1>1, <1>2, <1>3, <1>5, ZenonT(60) DEF Types, ClientTypes, ClientMessages
<1>8. calls' \in 0 .. MaxCalls /\ nextId' \in Ids
  BY <1>1, <1>2, <1>4, <1>6, SMTT(40) DEF Types, ClientTypes
<1>9. paths' \in [Ids -> Urls \cup {NoUrl}]
  BY <1>1, <1>2, <1>3 DEF Types, ClientTypes
<1>10. cq' \in Seq(Ids)
  BY <1>1, <1>2, <1>3, AppendProperties DEF Types, ClientTypes
<1> QED
  BY <1>1, <1>2, <1>7, <1>8, <1>9, <1>10 DEF Types, ClientTypes, ServerTypes, server

(* A message after a call of its handler. *)
LEMMA ReceivedType ==
  ASSUME NEW m \in ClientMessages, NEW response \in Seq(Chunks), NEW static \in BOOLEAN
  PROVE  /\ Received(m, response, static) \in ClientMessages
         /\ Received(m, response, static).out = <<>>
         /\ Received(m, response, static).got = m.got \o OfKind(response, "resp")
         /\ Received(m, response, static).complete =
              (m.complete \/ Whole(m.got \o OfKind(response, "resp"), response, static))
<1> DEFINE got == m.got \o OfKind(response, "resp")
<1>1. OfKind(response, "resp") \in Seq(Chunks) /\ m.got \in Seq(Chunks)
  BY OfKindFacts DEF ClientMessages
<1>2. got \in Seq(Chunks) /\ <<>> \in Seq(Chunks)
  BY <1>1, ConcatProperties, EmptySeq
<1>3. Whole(got, response, static) \in BOOLEAN
  BY DEF Whole
<1> HIDE DEF got
<1>4. /\ [m EXCEPT !.out = <<>>, !.got = got, !.complete = @ \/ Whole(got, response, static)] \in ClientMessages
      /\ [m EXCEPT !.out = <<>>, !.got = got, !.complete = @ \/ Whole(got, response, static)].out = <<>>
      /\ [m EXCEPT !.out = <<>>, !.got = got, !.complete = @ \/ Whole(got, response, static)].got = got
      /\ [m EXCEPT !.out = <<>>, !.got = got, !.complete = @ \/ Whole(got, response, static)].complete
           = (m.complete \/ Whole(got, response, static))
  BY <1>2, <1>3 DEF ClientMessages
<1> QED
  BY <1>4 DEF Received, got

(* One call of a handler of the client. *)
LEMMA ClientCallFacts ==
  ASSUME Inv, ClientCall, NEW i, i = Head(cq),
         NEW m, m = Received(msg[i], cin[i], IsStatic(i))
  PROVE  /\ cw = Idle /\ cq # <<>> /\ i \in Ids /\ i \in Used /\ cq' = Tail(cq)
         /\ cq = <<i>> \o Tail(cq) /\ Tail(cq) \in Seq(Ids)
         /\ m \in ClientMessages /\ m.out = <<>>
         /\ m.got = msg[i].got \o OfKind(cin[i], "resp")
         /\ m.complete = (msg[i].complete \/ Whole(m.got, cin[i], IsStatic(i)))
         /\ msg' = [msg EXCEPT ![i] = IF m.complete THEN [m EXCEPT !.got = <<>>, !.finished = TRUE] ELSE m]
         /\ delivered' = IF m.complete THEN [delivered EXCEPT ![i] = Append(@, m.got)] ELSE delivered
         /\ cw' = [pc |-> "called", id |-> i,
                   out |-> IF NeedsBeat(i, cin[i], m) THEN Beat(i)
                           ELSE msg[i].out \o (IF m.complete THEN Close(i) ELSE <<>>)]
         /\ cw'.id = i /\ cw'.pc = "called"
         /\ cin' = [cin EXCEPT ![i] = <<>>]
         /\ UNCHANGED <<calls, nextId, paths, cout, cio, http, server>>
<1>1. Types /\ cq \in Seq(Ids) /\ cq \in Seq(Used)
  BY DEF Inv, Known, Types, ClientTypes
<1>2. /\ cw = Idle /\ cq # <<>> /\ messageHandler(i, cin[i])
      /\ cin' = [cin EXCEPT ![i] = <<>>] /\ cq' = Tail(cq)
      /\ UNCHANGED <<calls, nextId, paths, cout, cio, http, server>>
  BY DEF ClientCall
<1>3. i \in Ids /\ cq = <<i>> \o Tail(cq) /\ Tail(cq) \in Seq(Ids)
  BY <1>1, <1>2, HeadThenTail
<1>4. i \in Used
  BY <1>1, <1>2, HeadThenTail
<1>5. msg[i] \in ClientMessages /\ cin[i] \in Seq(Chunks) /\ IsStatic(i) \in BOOLEAN
  BY <1>1, <1>3 DEF Types, ClientTypes, IsStatic
<1>6. /\ m \in ClientMessages /\ m.out = <<>>
      /\ m.got = msg[i].got \o OfKind(cin[i], "resp")
      /\ m.complete = (msg[i].complete \/ Whole(m.got, cin[i], IsStatic(i)))
  <2> DEFINE q == msg[i]
             r == cin[i]
             b == IsStatic(i)
  <2>0. q \in ClientMessages /\ r \in Seq(Chunks) /\ b \in BOOLEAN /\ m = Received(q, r, b)
    BY <1>5
  <2> HIDE DEF q, r, b
  <2>1. m \in ClientMessages /\ m.out = <<>> /\ m.got = q.got \o OfKind(r, "resp")
    BY <2>0, ReceivedType
  <2>2. m.complete = (q.complete \/ Whole(q.got \o OfKind(r, "resp"), r, b))
    BY <2>0, ReceivedType
  <2> QED
    BY <2>1, <2>2, Zenon DEF q, r, b
<1>7. /\ msg' = [msg EXCEPT ![i] = IF m.complete THEN [m EXCEPT !.got = <<>>, !.finished = TRUE] ELSE m]
      /\ delivered' = IF m.complete THEN [delivered EXCEPT ![i] = Append(@, m.got)] ELSE delivered
      /\ cw' = [pc |-> "called", id |-> i,
                out |-> IF NeedsBeat(i, cin[i], m) THEN Beat(i)
                        ELSE msg[i].out \o (IF m.complete THEN Close(i) ELSE <<>>)]
  BY <1>2 DEF messageHandler
<1>8. cw'.id = i /\ cw'.pc = "called"
  BY ONLY <1>7
<1> QED
  BY ONLY <1>2, <1>3, <1>4, <1>6, <1>7, <1>8

(* The types after the first half of processRequestStream. *)
LEMMA TypesClientCall == ASSUME Inv, ClientCall PROVE Types'
<1> DEFINE i == Head(cq)
           m == Received(msg[i], cin[i], IsStatic(i))
<1>1. /\ cw = Idle /\ cq # <<>> /\ i \in Ids /\ cq' = Tail(cq)
      /\ Tail(cq) \in Seq(Ids)
      /\ m \in ClientMessages
      /\ msg' = [msg EXCEPT ![i] = IF m.complete THEN [m EXCEPT !.got = <<>>, !.finished = TRUE] ELSE m]
      /\ delivered' = IF m.complete THEN [delivered EXCEPT ![i] = Append(@, m.got)] ELSE delivered
      /\ cw' = [pc |-> "called", id |-> i,
                out |-> IF NeedsBeat(i, cin[i], m) THEN Beat(i)
                        ELSE msg[i].out \o (IF m.complete THEN Close(i) ELSE <<>>)]
      /\ cin' = [cin EXCEPT ![i] = <<>>]
      /\ UNCHANGED <<calls, nextId, paths, cout, cio, http, server>>
  BY ClientCallFacts
<1> HIDE DEF i, m
<1>2. Types
  BY DEF Inv
<1>3. i \in Nat
  BY <1>1, Numbers
<1>4. msg[i].out \in Seq(Chunks) /\ m.got \in Seq(Chunks) /\ <<>> \in Seq(Chunks) /\ delivered[i] \in Seq(Seq(Chunks))
  BY <1>1, <1>2, EmptySeq DEF Types, ClientTypes, ClientMessages
<1>5. Beat(i) \in Seq(Chunks) /\ Close(i) \in Seq(Chunks)
  BY <1>3, WrittenTypes
<1>6. cw'.out \in Seq(Chunks)
  <2>1. msg[i].out \o Close(i) \in Seq(Chunks) /\ msg[i].out \o <<>> \in Seq(Chunks)
    BY <1>4, <1>5, ConcatProperties
  <2> QED
    BY <1>1, <1>5, <2>1
<1>7. cw' \in [pc : {"called"}, id : Ids, out : Seq(Chunks)]
  BY <1>1, <1>6
<1>8. msg' \in [Ids -> ClientMessages]
  <2>1. [m EXCEPT !.got = <<>>, !.finished = TRUE] \in ClientMessages
    BY <1>1, <1>4 DEF ClientMessages
  <2>2. msg \in [Ids -> ClientMessages]
    BY <1>2 DEF Types, ClientTypes
  <2> QED
    BY <1>1, <2>1, <2>2
<1>9. delivered' \in [Ids -> Seq(Seq(Chunks))]
  <2>1. Append(delivered[i], m.got) \in Seq(Seq(Chunks))
    BY <1>4, AppendProperties
  <2>2. delivered \in [Ids -> Seq(Seq(Chunks))]
    BY <1>2 DEF Types, ClientTypes
  <2> QED
    BY <1>1, <2>1, <2>2
<1>10. cin' \in [Ids -> Seq(Chunks)] /\ cq' \in Seq(Ids)
  BY <1>1, <1>2, <1>4 DEF Types, ClientTypes
<1> QED
  BY <1>1, <1>2, <1>7, <1>8, <1>9, <1>10 DEF Types, ClientTypes, ServerTypes, server

(* The second half of a call. *)
LEMMA ClientReturnFacts ==
  ASSUME Inv, ClientReturn
  PROVE  /\ cw.pc = "called" /\ cw.id \in Ids /\ cw.id \in Used /\ cw.out \in Seq(Chunks) /\ cw' = Idle
         /\ \/ /\ cw.out = Close(cw.id) /\ cq' = cq
               /\ cin' = [cin EXCEPT ![cw.id] = <<>>] /\ cout' = [cout EXCEPT ![cw.id] = <<>>]
            \/ /\ cw.out # Close(cw.id) /\ cq' = Append(cq, cw.id)
               /\ cin' = cin /\ cout' = [cout EXCEPT ![cw.id] = @ \o cw.out]
         /\ UNCHANGED <<calls, nextId, paths, msg, delivered, cio, http, server>>
<1>1. cw.pc = "called"
  BY DEF ClientReturn
<1>2. cw \in {Idle, [pc |-> "searching"]} \cup [pc : {"called"}, id : Ids, out : Seq(Chunks)]
  BY DEF Inv, Types, ClientTypes
<1>3. cw.id \in Ids /\ cw.out \in Seq(Chunks)
  BY <1>1, <1>2 DEF Idle
<1>4. cw.id \in Used
  BY <1>1 DEF Inv, Known
<1> QED
  BY <1>1, <1>3, <1>4 DEF ClientReturn, QueueUnlessClosed, SendAlso

(* The types after its second half. *)
LEMMA TypesClientReturn == ASSUME Inv, ClientReturn PROVE Types'
<1>1. Types
  BY DEF Inv
<1> DEFINE i == cw.id
           o == cw.out
<1>2. /\ i \in Ids /\ o \in Seq(Chunks) /\ cw' = Idle
      /\ \/ /\ cq' = cq
            /\ cin' = [cin EXCEPT ![i] = <<>>] /\ cout' = [cout EXCEPT ![i] = <<>>]
         \/ /\ cq' = Append(cq, i)
            /\ cin' = cin /\ cout' = [cout EXCEPT ![i] = @ \o o]
      /\ UNCHANGED <<calls, nextId, paths, msg, delivered, cio, http, server>>
  BY ClientReturnFacts
<1> HIDE DEF i, o
<1>3. <<>> \in Seq(Chunks) /\ cout[i] \o o \in Seq(Chunks) /\ Append(cq, i) \in Seq(Ids)
  BY <1>1, <1>2, EmptySeq, ConcatProperties, AppendProperties DEF Types, ClientTypes
<1>4. cin' \in [Ids -> Seq(Chunks)] /\ cout' \in [Ids -> Seq(Chunks)] /\ cq' \in Seq(Ids)
  <2>1. cin \in [Ids -> Seq(Chunks)] /\ cout \in [Ids -> Seq(Chunks)] /\ cq \in Seq(Ids)
    BY <1>1 DEF Types, ClientTypes
  <2>2. CASE cq' = cq /\ cin' = [cin EXCEPT ![i] = <<>>] /\ cout' = [cout EXCEPT ![i] = <<>>]
    BY <1>2, <1>3, <2>1, <2>2
  <2>3. CASE cq' = Append(cq, i) /\ cin' = cin /\ cout' = [cout EXCEPT ![i] = @ \o o]
    BY <1>2, <1>3, <2>1, <2>3
  <2> QED
    BY <1>2, <2>2, <2>3
<1> QED
  BY <1>1, <1>2, <1>4 DEF Types, ClientTypes, ServerTypes, server

(* Popping from the queues of the client. *)
LEMMA LockFacts ==
  ASSUME Inv, lock_outgoing_chunks, NEW u, u = cio.url
  PROVE  /\ cio.pc = "send" /\ u \in Urls /\ u \notin StaticUrls /\ cio' = Idle
         /\ UNCHANGED <<calls, nextId, paths, msg, delivered, cq, cin, cw, server>>
         /\ \/ cout' = cout /\ http' = [http EXCEPT ![u].upFin = TRUE]
            \/ \E taken \in Seq(UpLane(u)) :
                 /\ taken \in Seq(Chunks)
                 /\ http' = [http EXCEPT ![u].up = @ \o taken]
                 /\ cout' \in [Ids -> Seq(Chunks)]
                 /\ \A i \in Ids : /\ cout'[i] \in Seq(Lane(i)) /\ OfStream(taken, i) \in Seq(Chunks)
                                   /\ OfStream(taken, i) \o cout'[i] = cout[i]
                                   /\ paths[i] # u => cout'[i] = cout[i]
<1> DEFINE E == {i \in Ids : paths[i] = u}
           taken == popNOutgoingChunks(cout, cio.plan, VecCnt)
<1>1. /\ cio.pc = "send" /\ cio' = Idle
      /\ UNCHANGED <<calls, nextId, paths, msg, delivered, cq, cin, cw, server>>
      /\ IF noMoreChunks(cout, cio.plan)
         THEN http' = [http EXCEPT ![u].upFin = TRUE] /\ UNCHANGED cout
         ELSE http' = [http EXCEPT ![u].up = @ \o taken] /\ cout' = Popped(cout, taken)
  BY DEF lock_outgoing_chunks
<1>2. u \in Urls /\ u \notin StaticUrls /\ NoRepeat(cio.plan) /\ cio.plan \in Seq(E)
  <2>1. cio \in {Idle, [pc |-> "open"], [pc |-> "dead"]} \cup [pc : {"send"}, url : Urls, plan : Seq(Ids)]
    BY DEF Inv, Types, ClientTypes
  <2>2. u \in Urls
    BY <1>1, <2>1 DEF Idle
  <2> QED
    BY <1>1, <2>2 DEF Inv, Flags
<1>3. cout \in [Ids -> Seq(Chunks)] /\ \A j \in Ids : cout[j] \in Seq(Lane(j))
  BY DEF Inv, Types, ClientTypes, Lanes
<1>4. E \subseteq Ids /\ VecCnt \in Nat
  BY Numbers
<1>5. /\ taken \in Seq(Chunks) /\ taken \in Seq({c \in Chunks : c.id \in E})
      /\ Popped(cout, taken) \in [Ids -> Seq(Chunks)]
      /\ \A j \in Ids : /\ Popped(cout, taken)[j] \in Seq(Lane(j))
                        /\ OfStream(taken, j) \in Seq(Chunks)
                        /\ OfStream(taken, j) \o Popped(cout, taken)[j] = cout[j]
  <2> HIDE DEF E
  <2> DEFINE p == cio.plan
  <2>1. p \in Seq(E) /\ NoRepeat(p)
    BY <1>2
  <2> HIDE DEF p
  <2>2. Poppable(Ids, E, cout, p, VecCnt)
    BY <1>3, <1>4, <2>1 DEF Poppable
  <2>3. SplitBy(Ids, E, cout, popNOutgoingChunks(cout, p, VecCnt))
    BY ONLY <2>2, PopKeepsChunks
  <2> QED
    BY <2>3 DEF p, SplitBy
<1> HIDE DEF taken
<1>6. taken \in Seq(UpLane(u))
  <2>1. {c \in Chunks : c.id \in E} = UpLane(u)
    BY DEF UpLane
  <2> QED
    BY <1>5, <2>1
<1>7. ASSUME NEW i \in Ids, paths[i] # u PROVE Popped(cout, taken)[i] = cout[i]
  <2>1. \A c \in {c \in Chunks : c.id \in E} : c.id # i
    BY <1>7
  <2>2. OfStream(taken, i) = <<>>
    BY <1>5, <2>1, OfStreamFacts
  <2>3. Popped(cout, taken)[i] \in Seq(Chunks)
    BY <1>5
  <2>4. <<>> \o Popped(cout, taken)[i] = Popped(cout, taken)[i]
    BY <2>3, ConcatEmptySeq
  <2> QED
    BY <1>5, <2>2, <2>4
<1> QED
  BY <1>1, <1>2, <1>5, <1>6, <1>7, Zenon

(* Sending from the queues of the server. *)
LEMMA SendFacts ==
  ASSUME Inv, NEW u \in Urls, ServerSend(u)
  PROVE  /\ sio = Idle /\ http[u].open /\ http[u].started /\ ~http[u].downFin
         /\ UNCHANGED <<client, snext, spaths, sq, sin, ongoing, execs, sw, sio>>
         /\ \/ /\ Waiting(sout, spaths, u) = {}
               /\ sout' = sout /\ http' = [http EXCEPT ![u].downFin = TRUE]
            \/ \E taken \in Seq(DownLane(u)) :
                 /\ taken \in Seq(Chunks)
                 /\ http' = [http EXCEPT ![u].down = @ \o taken]
                 /\ sout' \in [AllIds -> Seq(Chunks)]
                 /\ \A j \in AllIds : /\ sout'[j] \in Seq(Lane(j)) /\ OfStream(taken, j) \in Seq(Chunks)
                                      /\ OfStream(taken, j) \o sout'[j] = sout[j]
                                      /\ spaths[j] # u => sout'[j] = sout[j]
<1>1. /\ sio = Idle /\ http[u].open /\ http[u].started /\ ~http[u].downFin
      /\ UNCHANGED <<client, snext, spaths, sq, sin, ongoing, execs, sw, sio>>
  BY DEF ServerSend
<1>2. CASE Waiting(sout, spaths, u) = {}
  BY <1>1, <1>2 DEF ServerSend
<1>3. CASE Waiting(sout, spaths, u) # {}
  <2> DEFINE E == Waiting(sout, spaths, u)
  <2>1. PICK p \in planForNOutgoingChunks(sout, spaths, u, VecCnt) :
          /\ http' = [http EXCEPT ![u].down = @ \o popNOutgoingChunks(sout, p, VecCnt)]
          /\ sout' = Popped(sout, popNOutgoingChunks(sout, p, VecCnt))
    BY <1>3 DEF ServerSend
  <2>2. sout \in [AllIds -> Seq(Chunks)] /\ \A j \in AllIds : sout[j] \in Seq(Lane(j))
    BY DEF Inv, Types, ServerTypes, Lanes
  <2>3. DOMAIN sout = AllIds /\ IsFiniteSet(AllIds)
    BY <2>2, Numbers
  <2>4. p \in Seq(E) /\ NoRepeat(p)
    BY <2>3, PlanIsWaiting
  <2>5. E \subseteq AllIds /\ VecCnt \in Nat /\ \A j \in E : spaths[j] = u
    BY <2>3, Numbers DEF Waiting
  <2> DEFINE taken == popNOutgoingChunks(sout, p, VecCnt)
  <2> HIDE DEF E
  <2>6. /\ taken \in Seq(Chunks) /\ taken \in Seq({c \in Chunks : c.id \in E})
        /\ Popped(sout, taken) \in [AllIds -> Seq(Chunks)]
        /\ \A j \in AllIds : /\ Popped(sout, taken)[j] \in Seq(Lane(j))
                             /\ OfStream(taken, j) \in Seq(Chunks)
                             /\ OfStream(taken, j) \o Popped(sout, taken)[j] = sout[j]
    <3>1. Poppable(AllIds, E, sout, p, VecCnt)
      BY <2>2, <2>4, <2>5 DEF Poppable
    <3>2. SplitBy(AllIds, E, sout, popNOutgoingChunks(sout, p, VecCnt))
      BY ONLY <3>1, PopKeepsChunks
    <3> QED
      BY <3>2 DEF SplitBy
  <2>7. http' = [http EXCEPT ![u].down = @ \o taken] /\ sout' = Popped(sout, taken)
    BY <2>1
  <2> HIDE DEF taken
  <2>8. taken \in Seq(DownLane(u))
    <3>1. {c \in Chunks : c.id \in E} \subseteq DownLane(u)
      BY <2>5 DEF DownLane
    <3> QED
      BY <2>6, <3>1, SeqMonotonic
  <2>9. ASSUME NEW j \in AllIds, spaths[j] # u PROVE sout'[j] = sout[j]
    <3>1. \A c \in {c \in Chunks : c.id \in E} : c.id # j
      BY <2>5, <2>9
    <3>2. OfStream(taken, j) = <<>>
      BY <2>6, <3>1, OfStreamFacts
    <3>3. sout'[j] \in Seq(Chunks)
      BY <2>6, <2>7
    <3>4. <<>> \o sout'[j] = sout'[j]
      BY <3>3, ConcatEmptySeq
    <3> QED
      BY <2>6, <2>7, <3>2, <3>4
  <2> QED
    BY <1>1, <2>6, <2>7, <2>8, <2>9, Zenon
<1> QED
  BY <1>2, <1>3

(* Steps of the I/O threads keep the types. *)
LEMMA TypesClientIO ==
  ASSUME Inv, NEW u,
         \/ hasOutstandingRequest \/ RequestGone
         \/ u \in Urls /\ (\/ SearchForever(u) \/ ClientEnd(u) \/ ClientPlan(u) \/ getOutstandingRequest(u)
                         \/ ClientReceive(u) \/ ClientClose(u))
  PROVE  Types'
<1>0. Types /\ <<>> \in Seq(Chunks) /\ Close(0) \in Seq(Chunks)
  BY EmptySeq, WrittenTypes DEF Inv
<1>s. /\ cout \in [Ids -> Seq(Chunks)] /\ cin \in [Ids -> Seq(Chunks)] /\ http \in [Urls -> Streams]
  BY <1>0 DEF Types, ClientTypes
<1>1. CASE u \in Urls /\ SearchForever(u)
  BY <1>0, <1>1 DEF SearchForever, Types, ClientTypes, ServerTypes, server
<1>2. CASE hasOutstandingRequest \/ RequestGone
  BY <1>0, <1>2 DEF hasOutstandingRequest, RequestGone, Types, ClientTypes, ServerTypes, server
<1>3. CASE u \in Urls /\ ClientEnd(u)
  <2>1. http' \in [Urls -> Streams]
    BY <1>s, <1>3 DEF ClientEnd, Streams
  <2> QED
    BY <1>0, <1>3, <2>1 DEF ClientEnd, Types, ClientTypes, ServerTypes, server, client
<1>4. CASE u \in Urls /\ ClientPlan(u)
  <2>1. PICK p \in planForNOutgoingChunks(cout, paths, u, VecCnt) : cio' = [pc |-> "send", url |-> u, plan |-> p]
    BY <1>4 DEF ClientPlan
  <2>2. DOMAIN cout = Ids /\ IsFiniteSet(Ids)
    BY <1>s, Numbers
  <2>3. p \in Seq(Waiting(cout, paths, u)) /\ Waiting(cout, paths, u) \subseteq Ids
    <3>1. p \in Seq(Waiting(cout, paths, u))
      BY <2>2, PlanIsWaiting
    <3> QED
      BY <3>1, <2>2 DEF Waiting
  <2>4. p \in Seq(Ids)
    BY <2>3, SeqMonotonic
  <2>5. cio' \in [pc : {"send"}, url : Urls, plan : Seq(Ids)]
    BY <1>4, <2>1, <2>4
  <2> QED
    BY <1>0, <1>4, <2>5 DEF ClientPlan, Types, ClientTypes, ServerTypes, server
<1>5. CASE u \in Urls /\ getOutstandingRequest(u)
  <2>1. http' \in [Urls -> Streams]
    <3> DEFINE b == u \in StaticUrls
    <3>b. b \in BOOLEAN
      OBVIOUS
    <3> HIDE DEF b
    <3>2. [NoStream EXCEPT !.open = TRUE, !.upFin = b] \in Streams
      BY <1>0, <3>b DEF NoStream, Streams
    <3>1. [NoStream EXCEPT !.open = TRUE, !.upFin = u \in StaticUrls] \in Streams
      BY <3>2 DEF b
    <3> QED
      BY <1>s, <1>5, <3>1 DEF getOutstandingRequest
  <2>2. cout' \in [Ids -> Seq(Chunks)]
    <3>1. \A i \in Ids : Kept(cout[i], {c \in Chunks : c.kind # "hold"}) \in Seq(Chunks)
      BY <1>s, KeptType
    <3>2. clearStaticRequest(u) \in [Ids -> Seq(Chunks)]
      BY <1>s, <3>1 DEF clearStaticRequest
    <3> QED
      BY <1>s, <1>5, <3>2 DEF getOutstandingRequest
  <2>3. cio' = Idle /\ UNCHANGED <<calls, nextId, paths, msg, delivered, cq, cin, cw, server>>
    BY <1>5 DEF getOutstandingRequest
  <2> QED
    BY <1>0, <2>1, <2>2, <2>3 DEF Types, ClientTypes, ServerTypes, server
<1>6. CASE u \in Urls /\ ClientReceive(u)
  <2> DEFINE c == Head(http[u].down)
             i == IF u \in StaticUrls THEN StaticIdOf(u) ELSE c.id
  <2>1. /\ http[u].down # <<>> /\ cin' = [cin EXCEPT ![i] = Append(@, c)]
        /\ http' = [http EXCEPT ![u].down = Tail(@)]
        /\ UNCHANGED <<calls, nextId, paths, msg, delivered, cq, cout, cw, cio, server>>
    BY <1>6 DEF ClientReceive
  <2>2. http[u].down \in Seq(Chunks)
    BY <1>s, <1>6 DEF Streams
  <2>3. c \in Chunks /\ Tail(http[u].down) \in Seq(Chunks)
    BY <2>1, <2>2, HeadTailProperties
  <2> HIDE DEF c, i
  <2>4. \A j \in Ids : Append(cin[j], c) \in Seq(Chunks)
    BY <1>s, <2>3, AppendProperties
  <2>5. cin' \in [Ids -> Seq(Chunks)]
    BY <1>s, <2>1, <2>4
  <2>6. http' \in [Urls -> Streams]
    BY <1>s, <2>1, <2>3 DEF Streams
  <2> QED
    BY <1>0, <2>1, <2>5, <2>6 DEF Types, ClientTypes, ServerTypes, server
<1>7. CASE u \in Urls /\ ClientClose(u)
  <2>1. \A j \in Ids : cin[j] \o Close(0) \in Seq(Chunks)
    BY <1>0, <1>s, ConcatProperties
  <2>2. cin' \in [Ids -> Seq(Chunks)]
    BY <1>s, <1>7, <2>1 DEF ClientClose
  <2>3. http' \in [Urls -> Streams]
    <3>1. NoStream \in Streams
      BY <1>0 DEF NoStream, Streams
    <3> QED
      BY <1>s, <1>7, <3>1 DEF ClientClose
  <2>4. UNCHANGED <<calls, nextId, paths, msg, delivered, cq, cout, cw, cio, server>>
    BY <1>7 DEF ClientClose
  <2> QED
    BY <1>0, <2>2, <2>3, <2>4 DEF Types, ClientTypes, ServerTypes, server
<1> QED
  BY <1>1, <1>2, <1>3, <1>4, <1>5, <1>6, <1>7

(* The server's I/O thread takes a chunk off the wire. *)
LEMMA ServerReceiveFacts ==
  ASSUME Inv, NEW u \in Urls, ServerReceive(u), NEW c, c = Head(http[u].up)
  PROVE  /\ sio = Idle /\ http[u].open /\ http[u].up # <<>> /\ u \notin StaticUrls
         /\ http[u].up = <<c>> \o Tail(http[u].up) /\ Tail(http[u].up) \in Seq(UpLane(u))
         /\ http[u].up \in Seq(Chunks) /\ Tail(http[u].up) \in Seq(Chunks)
         /\ c \in UpLane(u) /\ c \in Chunks /\ c.id \in Ids /\ paths[c.id] = u
         /\ sio' = [pc |-> "push", url |-> u, chunk |-> c, ready |-> HandlerReady(c.id)]
         /\ http' = [http EXCEPT ![u].up = Tail(@)]
         /\ UNCHANGED <<client, snext, spaths, sq, sin, sout, ongoing, execs, sw>>
<1>1. /\ sio = Idle /\ http[u].open /\ http[u].up # <<>>
      /\ sio' = [pc |-> "push", url |-> u, chunk |-> c, ready |-> HandlerReady(c.id)]
      /\ http' = [http EXCEPT ![u].up = Tail(@)]
      /\ UNCHANGED <<client, snext, spaths, sq, sin, sout, ongoing, execs, sw>>
  BY DEF ServerReceive
<1>2. u \notin StaticUrls
  BY <1>1 DEF Inv, Flags
<1>3. http[u].up \in Seq(UpLane(u)) /\ UpLane(u) \subseteq Chunks
  BY DEF Inv, Lanes, UpLane
<1>4. http[u].up = <<c>> \o Tail(http[u].up) /\ c \in UpLane(u) /\ Tail(http[u].up) \in Seq(UpLane(u))
  BY <1>1, <1>3, HeadThenTail
<1>5. http[u].up \in Seq(Chunks) /\ Tail(http[u].up) \in Seq(Chunks)
  BY <1>3, <1>4, SeqMonotonic
<1>6. c \in Chunks /\ c.id \in Ids /\ paths[c.id] = u
  BY <1>4 DEF UpLane
<1> QED
  BY ONLY <1>1, <1>2, <1>4, <1>5, <1>6

(* It queues the chunk. *)
LEMMA PushFacts ==
  ASSUME Inv, pushIncomingChunk, NEW c, c = sio.chunk, NEW i, i = c.id
  PROVE  /\ sio # Idle /\ sio.url \in Urls \ StaticUrls /\ sio.ready \in BOOLEAN /\ c \in Chunks
         /\ i \in Ids /\ i \in AllIds /\ paths[i] = sio.url /\ Routed(i) /\ i \in Used
         /\ \/ sio.ready /\ sq' = sq /\ spaths' = spaths
            \/ ~sio.ready /\ sq' = Append(sq, i) /\ spaths' = [spaths EXCEPT ![i] = paths[i]]
         /\ sin' = [sin EXCEPT ![i] = Append(@, c)]
         /\ sio' = Idle
         /\ UNCHANGED <<client, http, snext, sout, ongoing, execs, sw>>
<1>1. sio.pc = "push"
  BY DEF pushIncomingChunk
<1>2. sio \in {Idle} \cup [pc : {"push"}, url : Urls, chunk : Chunks, ready : BOOLEAN]
  BY DEF Inv, Types, ServerTypes
<1>3. sio # Idle /\ sio.url \in Urls /\ sio.ready \in BOOLEAN /\ c \in Chunks
  BY <1>1, <1>2 DEF Idle
<1>4. c \in UpLane(sio.url) /\ sio.url \notin StaticUrls
  BY <1>3 DEF Inv, Lanes
<1>5. i \in Ids /\ paths[i] = sio.url /\ i \in AllIds /\ sio.url # NoUrl
  BY <1>3, <1>4, Numbers DEF UpLane
<1>6. Routed(i) /\ i \in Used
  BY <1>3, <1>4, <1>5 DEF Routed, Used
<1>7. /\ \/ sio.ready /\ sq' = sq /\ spaths' = spaths
         \/ ~sio.ready /\ sq' = Append(sq, i) /\ spaths' = [spaths EXCEPT ![i] = paths[i]]
      /\ sin' = [sin EXCEPT ![i] = Append(@, c)]
      /\ sio' = Idle
      /\ UNCHANGED <<client, http, snext, sout, ongoing, execs, sw>>
  BY <1>5 DEF pushIncomingChunk, prepareHandler
<1> QED
  BY ONLY <1>3, <1>4, <1>5, <1>6, <1>7

(* The three ways a call of a handler of the server can go. *)
Silent(i) ==
  /\ ongoing' = [ongoing EXCEPT ![i] = IF i \in StaticIds THEN NoResponse ELSE @]
  /\ i \in Ids => ~ongoing[i].open /\ sin[i] = <<>>
  /\ execs' = execs /\ sout' = sout /\ sw' = [pc |-> "served", id |-> i]

Ended(i) ==
  /\ i \in Ids /\ ongoing[i].open /\ ongoing[i].finished
  /\ execs' = execs /\ sout' = sout
  /\ \/ /\ sout[i] = <<>> /\ ongoing' = [ongoing EXCEPT ![i] = NoResponse]
        /\ sw' = [pc |-> "closed", id |-> i]
     \/ /\ sout[i] # <<>>
        /\ ongoing' = [ongoing EXCEPT ![i] = IF sin[i] = Close(i) THEN NoResponse ELSE @]
        /\ sw' = [pc |-> "served", id |-> i]

Gather(i, got) ==
  /\ i \in Ids /\ ~(ongoing[i].open /\ ongoing[i].finished)
  /\ ongoing' = [ongoing EXCEPT ![i] = [got |-> got, open |-> TRUE, finished |-> RequestComplete(got)]]
  /\ sw' = [pc |-> "served", id |-> i]
  /\ IF RequestComplete(got)
     THEN execs' = [execs EXCEPT ![i] = @ + 1] /\ sout' = [sout EXCEPT ![i] = @ \o AnswerOf(i)]
     ELSE execs' = execs /\ sout' = sout

(* processResponseStream does one of these for the first handler in the     *)
(* queue.                                                                   *)
LEMMA ServerCallFacts ==
  ASSUME Inv, ServerCall, NEW i, i = Head(sq)
  PROVE  /\ sw = Idle /\ sq # <<>> /\ i \in AllIds /\ i \in Opened /\ sq' = Tail(sq)
         /\ sq = <<i>> \o Tail(sq) /\ Tail(sq) \in Seq(AllIds)
         /\ i \in Ids => Routed(i)
         /\ sin' = [sin EXCEPT ![i] = <<>>]
         /\ UNCHANGED <<client, http, snext, spaths, sio>>
         /\ Silent(i) \/ Ended(i) \/ Gather(i, ongoing[i].got \o OfKind(sin[i], "req"))
<1> DEFINE r == IF i \in StaticIds THEN [state |-> NoResponse, out |-> <<>>, ran |-> FALSE]
                ELSE RouteResponse(i, sin[i])
           closed == SignalClosed(i, r.out)
           got == ongoing[i].got \o OfKind(sin[i], "req")
<1>1. /\ sw = Idle /\ sq # <<>> /\ sq' = Tail(sq)
      /\ UNCHANGED <<client, http, snext, spaths, sio>>
      /\ sin' = [sin EXCEPT ![i] = <<>>]
  BY DEF ServerCall
<1>2. /\ ongoing' = [ongoing EXCEPT ![i] = IF closed THEN NoResponse ELSE r.state]
      /\ execs' = IF r.ran THEN [execs EXCEPT ![i] = @ + 1] ELSE execs
      /\ sout' = IF r.out = Close(i) THEN sout ELSE [sout EXCEPT ![i] = @ \o r.out]
      /\ sw' = [pc |-> IF closed THEN "closed" ELSE "served", id |-> i]
  BY DEF ServerCall
<1>3. sq \in Seq(AllIds) /\ sq \in Seq(Opened)
  BY DEF Inv, Known, Types, ServerTypes
<1>4. i \in AllIds /\ sq = <<i>> \o Tail(sq) /\ Tail(sq) \in Seq(AllIds)
  BY <1>1, <1>3, HeadThenTail
<1>5. i \in Opened
  BY <1>1, <1>3, HeadThenTail
<1>6. i \in Ids => Routed(i)
  <2>1. i \in Ids => spaths[i] = paths[i] /\ spaths[i] \notin StaticUrls /\ spaths[i] \in Urls \cup {NoUrl} /\ spaths[i] # NoUrl
    BY <1>4, <1>5 DEF Inv, Known, Types, ServerTypes, Opened
  <2> QED
    BY <2>1 DEF Routed
<1>7. i \in Nat /\ (i \in Ids \/ i \in StaticIds) /\ ~(i \in Ids /\ i \in StaticIds)
  BY <1>4, Numbers
<1>8. /\ Close(i) # <<>> /\ AnswerOf(i) # Close(i) /\ AnswerOf(i) \in Seq(Chunks)
  <2>1. Close(i) # <<>> /\ Close(i) \in Seq(Kind("close"))
    BY <1>7, SignalTypes, LaneSeq
  <2>2. AnswerOf(i) \in Seq(Kind("resp")) /\ AnswerOf(i) \in Seq(Chunks) /\ AnswerOf(i) # <<>>
    BY <1>7, MessageTypes, LaneSeq
  <2>3. OfKind(AnswerOf(i), "close") = <<>> /\ OfKind(Close(i), "close") = Close(i)
    BY <2>1, <2>2, OfKindFacts
  <2> QED
    BY <2>1, <2>2, <2>3
<1>9. sout \in [AllIds -> Seq(Chunks)] /\ ongoing \in [AllIds -> Responses]
  BY DEF Inv, Types, ServerTypes
<1>10. [sout EXCEPT ![i] = @ \o <<>>] = sout
  <2>1. sout[i] \o <<>> = sout[i]
    BY <1>4, <1>9, ConcatEmptySeq
  <2> QED
    BY <1>9, <2>1
<1>11. CASE r = [state |-> IF i \in StaticIds THEN NoResponse ELSE ongoing[i], out |-> <<>>, ran |-> FALSE]
            /\ (i \in Ids => ~ongoing[i].open /\ sin[i] = <<>>)
  <2>1. r.out = <<>> /\ ~r.ran /\ r.state = IF i \in StaticIds THEN NoResponse ELSE ongoing[i]
    BY <1>11
  <2> HIDE DEF r
  <2>2. ~closed
    BY <1>8, <2>1 DEF SignalClosed
  <2>3. Silent(i)
    BY <1>2, <1>8, <1>10, <1>11, <2>1, <2>2 DEF Silent
  <2> QED
    BY <1>1, <1>4, <1>5, <1>6, <2>3
<1>12. CASE /\ i \in Ids /\ ongoing[i].open /\ ongoing[i].finished
            /\ r = [state |-> IF sin[i] = Close(i) THEN NoResponse ELSE ongoing[i],
                    out |-> Close(i), ran |-> FALSE]
  <2>1. r.out = Close(i) /\ ~r.ran /\ r.state = IF sin[i] = Close(i) THEN NoResponse ELSE ongoing[i]
    BY <1>12
  <2> HIDE DEF r
  <2>2. closed <=> sout[i] = <<>>
    BY <2>1 DEF SignalClosed
  <2>3. Ended(i)
    BY <1>2, <1>12, <2>1, <2>2 DEF Ended
  <2> QED
    BY <1>1, <1>4, <1>5, <1>6, <2>3
<1>13. CASE /\ i \in Ids /\ ~(ongoing[i].open /\ ongoing[i].finished)
            /\ r = [state |-> [got |-> got, open |-> TRUE, finished |-> RequestComplete(got)],
                    out |-> IF RequestComplete(got) THEN AnswerOf(i) ELSE <<>>, ran |-> RequestComplete(got)]
  <2>1. /\ r.out = IF RequestComplete(got) THEN AnswerOf(i) ELSE <<>>
        /\ r.ran = RequestComplete(got)
        /\ r.state = [got |-> got, open |-> TRUE, finished |-> RequestComplete(got)]
    <3> DEFINE st == [got |-> got, open |-> TRUE, finished |-> RequestComplete(got)]
               o == IF RequestComplete(got) THEN AnswerOf(i) ELSE <<>>
               w == RequestComplete(got)
    <3>1. r = [state |-> st, out |-> o, ran |-> w]
      BY <1>13
    <3> HIDE DEF r, st, o, w
    <3>2. r.state = st /\ r.out = o /\ r.ran = w
      BY <3>1
    <3> QED
      BY <3>2 DEF st, o, w
  <2> HIDE DEF r, got
  <2>2. ~closed /\ r.out # Close(i)
    BY <1>8, <2>1 DEF SignalClosed
  <2>3. Gather(i, got)
    BY <1>2, <1>8, <1>10, <1>13, <2>1, <2>2 DEF Gather
  <2> QED
    BY <1>1, <1>4, <1>5, <1>6, <2>3 DEF got
<1>14. CASE i \in Ids
  <2>1. r = RouteResponse(i, sin[i])
    BY <1>7, <1>14
  <2>2. CASE ~ongoing[i].open /\ sin[i] = <<>>
    <3>1. r = [state |-> ongoing[i], out |-> <<>>, ran |-> FALSE]
      BY <2>1, <2>2 DEF RouteResponse
    <3> QED
      BY <1>7, <1>11, <1>14, <2>2, <3>1
  <2>3. CASE ongoing[i].open /\ ongoing[i].finished
    <3>1. r = [state |-> IF sin[i] = Close(i) THEN NoResponse ELSE ongoing[i], out |-> Close(i), ran |-> FALSE]
      BY <2>1, <2>3 DEF RouteResponse, ProcessingFinished
    <3> QED
      BY <1>12, <1>14, <2>3, <3>1
  <2>4. CASE ~(~ongoing[i].open /\ sin[i] = <<>>) /\ ~(ongoing[i].open /\ ongoing[i].finished)
    <3>1. r = [state |-> [got |-> got, open |-> TRUE, finished |-> RequestComplete(got)],
               out |-> IF RequestComplete(got) THEN AnswerOf(i) ELSE <<>>, ran |-> RequestComplete(got)]
      BY <2>1, <2>4 DEF RouteResponse, ProcessingFinished
    <3> QED
      BY <1>13, <1>14, <2>4, <3>1
  <2> QED
    BY <2>2, <2>3, <2>4
<1>15. CASE i \in StaticIds
  BY <1>7, <1>11, <1>15
<1> QED
  BY <1>7, <1>14, <1>15

(* The types after the other steps. *)
LEMMA TypesServer ==
  ASSUME Inv, NEW u,
         \/ lock_outgoing_chunks \/ pushIncomingChunk \/ ServerCall \/ ServerReturn
         \/ u \in Urls /\ (ServerReceive(u) \/ start_response(u) \/ ServerSend(u))
  PROVE  Types'
<1>0. Types /\ <<>> \in Seq(Chunks)
  BY EmptySeq DEF Inv
<1>s. /\ cout \in [Ids -> Seq(Chunks)] /\ sout \in [AllIds -> Seq(Chunks)] /\ sin \in [AllIds -> Seq(Chunks)]
      /\ http \in [Urls -> Streams] /\ spaths \in [AllIds -> Urls \cup {NoUrl}] /\ sq \in Seq(AllIds)
      /\ ongoing \in [AllIds -> Responses] /\ execs \in [AllIds -> Nat] /\ snext \in Nat
  BY <1>0 DEF Types, ClientTypes, ServerTypes
<1>1. CASE lock_outgoing_chunks
  <2> DEFINE v == cio.url
  <2>1. /\ v \in Urls /\ cio' = Idle
        /\ UNCHANGED <<calls, nextId, paths, msg, delivered, cq, cin, cw, server>>
        /\ \/ cout' = cout /\ http' = [http EXCEPT ![v].upFin = TRUE]
           \/ \E taken \in Seq(Chunks) :
                 http' = [http EXCEPT ![v].up = @ \o taken] /\ cout' \in [Ids -> Seq(Chunks)]
    BY <1>1, LockFacts
  <2> HIDE DEF v
  <2>2. http' \in [Urls -> Streams] /\ cout' \in [Ids -> Seq(Chunks)]
    <3>1. CASE cout' = cout /\ http' = [http EXCEPT ![v].upFin = TRUE]
      BY <1>s, <2>1, <3>1 DEF Streams
    <3>2. ASSUME NEW taken \in Seq(Chunks), http' = [http EXCEPT ![v].up = @ \o taken], cout' \in [Ids -> Seq(Chunks)]
          PROVE  http' \in [Urls -> Streams]
      <4>1. http[v] \in Streams /\ http[v].up \in Seq(Chunks)
        BY <1>s, <2>1 DEF Streams
      <4>2. http[v].up \o taken \in Seq(Chunks)
        BY <4>1, ConcatProperties
      <4>3. [http[v] EXCEPT !.up = @ \o taken] \in Streams
        BY <4>1, <4>2 DEF Streams
      <4> QED
        BY <1>s, <2>1, <3>2, <4>3
    <3> QED
      BY <2>1, <3>1, <3>2
  <2> QED
    BY <1>0, <2>1, <2>2 DEF Types, ClientTypes, ServerTypes, server
<1>2. CASE pushIncomingChunk
  <2> DEFINE c == sio.chunk
             i == c.id
  <2>1. /\ c \in Chunks /\ i \in AllIds /\ i \in Ids /\ sio' = Idle
        /\ \/ sq' = sq /\ spaths' = spaths
           \/ sq' = Append(sq, i) /\ spaths' = [spaths EXCEPT ![i] = paths[i]]
        /\ sin' = [sin EXCEPT ![i] = Append(@, c)]
        /\ UNCHANGED <<client, http, snext, sout, ongoing, execs, sw>>
    BY <1>2, PushFacts
  <2> HIDE DEF c, i
  <2>2. Append(sin[i], c) \in Seq(Chunks) /\ Append(sq, i) \in Seq(AllIds) /\ paths[i] \in Urls \cup {NoUrl}
    BY <1>0, <1>s, <2>1, AppendProperties DEF Types, ClientTypes
  <2>3. sin' \in [AllIds -> Seq(Chunks)]
    BY <1>s, <2>1, <2>2
  <2>4. sq' \in Seq(AllIds) /\ spaths' \in [AllIds -> Urls \cup {NoUrl}]
    BY <1>s, <2>1, <2>2
  <2> QED
    BY <1>0, <2>1, <2>3, <2>4 DEF Types, ClientTypes, ServerTypes, client
<1>3. CASE u \in Urls /\ ServerReceive(u)
  <2> DEFINE c == Head(http[u].up)
             t == Tail(http[u].up)
  <2>1. /\ c \in Chunks /\ t \in Seq(Chunks)
        /\ sio' = [pc |-> "push", url |-> u, chunk |-> c, ready |-> HandlerReady(c.id)]
        /\ http' = [http EXCEPT ![u].up = t]
        /\ UNCHANGED <<client, snext, spaths, sq, sin, sout, ongoing, execs, sw>>
    BY <1>3, ServerReceiveFacts
  <2> HIDE DEF c, t
  <2>2. HandlerReady(c.id) \in BOOLEAN
    BY DEF HandlerReady, Contains
  <2>3. sio' \in [pc : {"push"}, url : Urls, chunk : Chunks, ready : BOOLEAN]
    BY <1>3, <2>1, <2>2
  <2>4. http' \in [Urls -> Streams]
    BY <1>s, <1>3, <2>1 DEF Streams
  <2> QED
    BY <1>0, <2>1, <2>3, <2>4 DEF Types, ClientTypes, ServerTypes, client
<1>4. CASE u \in Urls /\ start_response(u)
  <2>1. http' = [http EXCEPT ![u].started = TRUE] /\ UNCHANGED <<client, sin, ongoing, sw, sio>>
    BY <1>4 DEF start_response
  <2>2. http' \in [Urls -> Streams]
    BY <1>s, <2>1 DEF Streams
  <2>3. CASE u \notin StaticUrls
    <3>1. UNCHANGED <<snext, sout, sq, spaths, execs>>
      BY <1>4, <2>3 DEF start_response
    <3> QED
      BY <1>0, <2>1, <2>2, <3>1 DEF Types, ClientTypes, ServerTypes, client
  <2>4. CASE u \in StaticUrls
    <3> DEFINE i == StaticIdOf(u)
    <3>1. i \in Ids /\ i \in AllIds /\ snext \in StaticIds /\ snext \in AllIds
      BY <1>4, <2>4, StartId, Numbers
    <3>2. /\ snext' = snext + 1
          /\ sout' = [sout EXCEPT ![snext] = AnswerOf(snext)]
          /\ sq' = Append(sq, snext) /\ spaths' = [spaths EXCEPT ![snext] = u]
          /\ execs' = [execs EXCEPT ![i] = @ + 1]
      BY <1>4, <2>4 DEF start_response, prepareStaticHandler, prepareHandler
    <3> HIDE DEF i
    <3>3. AnswerOf(snext) \in Seq(Chunks) /\ Append(sq, snext) \in Seq(AllIds)
      BY <1>s, <3>1, WrittenTypes, AppendProperties
    <3>4. sout' \in [AllIds -> Seq(Chunks)] /\ sq' \in Seq(AllIds) /\ snext' \in Nat
          /\ spaths' \in [AllIds -> Urls \cup {NoUrl}] /\ execs' \in [AllIds -> Nat]
      BY <1>4, <1>s, <3>1, <3>2, <3>3, SMTT(40)
    <3> QED
      BY <1>0, <2>1, <2>2, <3>4 DEF Types, ClientTypes, ServerTypes, client
  <2> QED
    BY <2>3, <2>4
<1>5. CASE u \in Urls /\ ServerSend(u)
  <2>1. /\ UNCHANGED <<client, snext, spaths, sq, sin, ongoing, execs, sw, sio>>
        /\ \/ sout' = sout /\ http' = [http EXCEPT ![u].downFin = TRUE]
           \/ \E taken \in Seq(Chunks) :
                 http' = [http EXCEPT ![u].down = @ \o taken] /\ sout' \in [AllIds -> Seq(Chunks)]
    BY <1>5, SendFacts
  <2>2. http' \in [Urls -> Streams] /\ sout' \in [AllIds -> Seq(Chunks)]
    <3>1. CASE sout' = sout /\ http' = [http EXCEPT ![u].downFin = TRUE]
      BY <1>s, <2>1, <3>1, ZenonT(60) DEF Streams
    <3>2. ASSUME NEW taken \in Seq(Chunks), http' = [http EXCEPT ![u].down = @ \o taken]
          PROVE  http' \in [Urls -> Streams]
      <4>1. http[u] \in Streams /\ http[u].down \in Seq(Chunks)
        BY <1>s, <1>5 DEF Streams
      <4>2. http[u].down \o taken \in Seq(Chunks)
        BY <4>1, ConcatProperties
      <4>3. [http[u] EXCEPT !.down = @ \o taken] \in Streams
        BY <4>1, <4>2 DEF Streams
      <4> QED
        BY <1>s, <1>5, <3>2, <4>3
    <3> QED
      BY <2>1, <3>1, <3>2
  <2> QED
    BY <1>0, <2>1, <2>2 DEF Types, ClientTypes, ServerTypes, client
<1>6. CASE ServerCall
  <2> DEFINE i == Head(sq)
             got == ongoing[i].got \o OfKind(sin[i], "req")
  <2>1. /\ i \in AllIds /\ sq' = Tail(sq) /\ Tail(sq) \in Seq(AllIds)
        /\ sin' = [sin EXCEPT ![i] = <<>>]
        /\ UNCHANGED <<client, http, snext, spaths, sio>>
        /\ Silent(i) \/ Ended(i) \/ Gather(i, got)
    BY <1>6, ServerCallFacts
  <2> HIDE DEF i
  <2>2. ongoing[i].got \in Seq(Chunks) /\ OfKind(sin[i], "req") \in Seq(Chunks)
    BY <1>s, <2>1, OfKindFacts DEF Responses
  <2>3. got \in Seq(Chunks)
    BY <2>2, ConcatProperties
  <2> HIDE DEF got
  <2>4. NoResponse \in Responses /\ i \in Nat
    BY <1>0, <2>1, Numbers DEF NoResponse, Responses
  <2>5. sout[i] \o AnswerOf(i) \in Seq(Chunks)
    BY <1>s, <2>1, <2>4, WrittenTypes, ConcatProperties
  <2>6. sin' \in [AllIds -> Seq(Chunks)]
    BY <1>0, <1>s, <2>1
  <2>7. /\ ongoing' \in [AllIds -> Responses] /\ execs' \in [AllIds -> Nat]
        /\ sout' \in [AllIds -> Seq(Chunks)] /\ sw' \in [pc : {"served", "closed"}, id : AllIds]
    <3>1. CASE Silent(i)
      BY <1>s, <2>1, <2>4, <3>1 DEF Silent
    <3>2. CASE Ended(i)
      BY <1>s, <2>1, <2>4, <3>2, SMTT(40) DEF Ended
    <3>3. CASE Gather(i, got)
      <4>1. RequestComplete(got) \in BOOLEAN
        BY DEF RequestComplete
      <4>2. [got |-> got, open |-> TRUE, finished |-> RequestComplete(got)] \in Responses
        BY <2>3, <4>1 DEF Responses
      <4>3. ongoing' \in [AllIds -> Responses] /\ sw' \in [pc : {"served", "closed"}, id : AllIds]
        BY <1>s, <2>1, <3>3, <4>2 DEF Gather
      <4>4. CASE RequestComplete(got)
        <5>1. execs' = [execs EXCEPT ![i] = @ + 1] /\ sout' = [sout EXCEPT ![i] = @ \o AnswerOf(i)]
          BY <3>3, <4>4 DEF Gather
        <5>2. execs' \in [AllIds -> Nat]
          BY <1>s, <2>1, <5>1
        <5>3. sout' \in [AllIds -> Seq(Chunks)]
          <6> DEFINE t == sout[i] \o AnswerOf(i)
          <6>1. sout' = [sout EXCEPT ![i] = t] /\ t \in Seq(Chunks)
            BY <2>5, <5>1
          <6> HIDE DEF t
          <6> QED
            BY <1>s, <6>1
        <5> QED
          BY <4>3, <5>2, <5>3
      <4>5. CASE ~RequestComplete(got)
        BY <1>s, <3>3, <4>3, <4>5 DEF Gather
      <4> QED
        BY <4>4, <4>5
    <3> QED
      BY <2>1, <3>1, <3>2, <3>3
  <2> QED
    BY <1>0, <2>1, <2>6, <2>7 DEF Types, ClientTypes, ServerTypes, client
<1>7. CASE ServerReturn
  <2>1. sw \in [pc : {"served", "closed"}, id : AllIds]
    BY <1>0, <1>7 DEF ServerReturn, Types, ServerTypes, Idle
  <2>2. sw' = Idle /\ UNCHANGED <<client, http, snext, spaths, ongoing, execs, sio>>
    BY <1>7 DEF ServerReturn
  <2>3. Append(sq, sw.id) \in Seq(AllIds)
    BY <1>s, <2>1, AppendProperties
  <2>4. sin' \in [AllIds -> Seq(Chunks)] /\ sout' \in [AllIds -> Seq(Chunks)] /\ sq' \in Seq(AllIds)
    <3>1. CASE sq' = Append(sq, sw.id) /\ UNCHANGED <<sin, sout>>
      BY <1>s, <2>3, <3>1
    <3>2. CASE /\ sin' = [sin EXCEPT ![sw.id] = <<>>] /\ sout' = [sout EXCEPT ![sw.id] = <<>>]
               /\ UNCHANGED sq
      BY <1>0, <1>s, <3>2
    <3> QED
      BY <1>7, <3>1, <3>2 DEF ServerReturn
  <2> QED
    BY <1>0, <2>2, <2>4 DEF Types, ClientTypes, ServerTypes, client
<1> QED
  BY <1>1, <1>2, <1>3, <1>4, <1>5, <1>6, <1>7

-------------------------------------------------------------------------------
(* Steps. *)

(* The steps of the threads; u is the URL of those that have one. *)
UrlSteps(u) ==
  \/ Submit(u) \/ SearchForever(u) \/ getOutstandingRequest(u) \/ ClientEnd(u) \/ ClientPlan(u)
  \/ ClientReceive(u) \/ ClientClose(u) \/ ServerReceive(u) \/ start_response(u) \/ ServerSend(u)

PlainSteps ==
  \/ ClientCall \/ ClientReturn \/ hasOutstandingRequest \/ RequestGone \/ lock_outgoing_chunks
  \/ pushIncomingChunk \/ ServerCall \/ ServerReturn

Steps(u) == PlainSteps \/ (u \in Urls /\ UrlSteps(u))

(* Every step is one of these. *)
LEMMA NextCases == ASSUME Next PROVE \E u : Steps(u)
BY DEF Next, Steps, UrlSteps, PlainSteps, Updater, ClientIO, ServerIO, Worker

(* Every step preserves the types. *)
LEMMA TypesStep == ASSUME Inv, NEW u, Steps(u) PROVE Types'
<1>1. CASE ClientCall
  BY <1>1, TypesClientCall
<1>2. CASE ClientReturn
  BY <1>2, TypesClientReturn
<1>3. CASE hasOutstandingRequest \/ RequestGone
  BY <1>3, TypesClientIO
<1>4. CASE lock_outgoing_chunks \/ pushIncomingChunk \/ ServerCall \/ ServerReturn
  BY <1>4, TypesServer
<1>5. CASE u \in Urls /\ Submit(u)
  BY <1>5, TypesSubmit
<1>6. CASE u \in Urls /\ (\/ SearchForever(u) \/ ClientEnd(u) \/ ClientPlan(u) \/ getOutstandingRequest(u)
                         \/ ClientReceive(u) \/ ClientClose(u))
  BY <1>6, TypesClientIO
<1>7. CASE u \in Urls /\ (ServerReceive(u) \/ start_response(u) \/ ServerSend(u))
  BY <1>7, TypesServer
<1> QED
  BY <1>1, <1>2, <1>3, <1>4, <1>5, <1>6, <1>7 DEF Steps, UrlSteps, PlainSteps

(* The sequences of a stream, in the types they have. *)
TypedSeqs ==
  \A i \in Ids :
    /\ msg[i] \in ClientMessages /\ msg[i].out \in Seq(Chunks) /\ msg[i].got \in Seq(Chunks)
    /\ msg[i].complete \in BOOLEAN /\ delivered[i] \in Seq(Seq(Chunks))
    /\ cin[i] \in Seq(Chunks) /\ cout[i] \in Seq(Chunks) /\ InHand(i) \in Seq(Chunks)
    /\ sin[i] \in Seq(Chunks) /\ sout[i] \in Seq(Chunks) /\ Pushed(i) \in Seq(Chunks)
    /\ ongoing[i] \in Responses /\ ongoing[i].got \in Seq(Chunks) /\ execs[i] \in Nat
    /\ ongoing[i].open \in BOOLEAN /\ ongoing[i].finished \in BOOLEAN
    /\ paths[i] \in Urls \cup {NoUrl} /\ spaths[i] \in Urls \cup {NoUrl}
    /\ paths[i] \in Urls => /\ http[paths[i]].up \in Seq(Chunks) /\ http[paths[i]].down \in Seq(Chunks)
                            /\ WireUp(i) \in Seq(Chunks) /\ WireDown(i) \in Seq(Chunks)

(* The queues of a stream are sequences of chunks. *)
LEMMA SeqTypes == Types => TypedSeqs
<1> SUFFICES ASSUME Types, NEW i \in Ids
             PROVE  /\ msg[i] \in ClientMessages /\ msg[i].out \in Seq(Chunks) /\ msg[i].got \in Seq(Chunks)
                    /\ msg[i].complete \in BOOLEAN /\ delivered[i] \in Seq(Seq(Chunks))
                    /\ cin[i] \in Seq(Chunks) /\ cout[i] \in Seq(Chunks) /\ InHand(i) \in Seq(Chunks)
                    /\ sin[i] \in Seq(Chunks) /\ sout[i] \in Seq(Chunks) /\ Pushed(i) \in Seq(Chunks)
                    /\ ongoing[i] \in Responses /\ ongoing[i].got \in Seq(Chunks) /\ execs[i] \in Nat
                    /\ ongoing[i].open \in BOOLEAN /\ ongoing[i].finished \in BOOLEAN
                    /\ paths[i] \in Urls \cup {NoUrl} /\ spaths[i] \in Urls \cup {NoUrl}
                    /\ paths[i] \in Urls => /\ http[paths[i]].up \in Seq(Chunks) /\ http[paths[i]].down \in Seq(Chunks)
                                            /\ WireUp(i) \in Seq(Chunks) /\ WireDown(i) \in Seq(Chunks)
  BY DEF TypedSeqs
<1>1. i \in AllIds /\ <<>> \in Seq(Chunks)
  BY Numbers, EmptySeq
<1>2. /\ msg[i] \in ClientMessages /\ msg[i].out \in Seq(Chunks) /\ msg[i].got \in Seq(Chunks)
      /\ msg[i].complete \in BOOLEAN
  BY DEF Types, ClientTypes, ClientMessages
<1>3. /\ cin[i] \in Seq(Chunks) /\ cout[i] \in Seq(Chunks) /\ delivered[i] \in Seq(Seq(Chunks))
      /\ paths[i] \in Urls \cup {NoUrl}
  BY DEF Types, ClientTypes
<1>4. sin[i] \in Seq(Chunks) /\ sout[i] \in Seq(Chunks) /\ execs[i] \in Nat /\ spaths[i] \in Urls \cup {NoUrl}
  BY <1>1 DEF Types, ServerTypes
<1>5. /\ ongoing[i] \in Responses /\ ongoing[i].got \in Seq(Chunks)
      /\ ongoing[i].open \in BOOLEAN /\ ongoing[i].finished \in BOOLEAN
  BY <1>1 DEF Types, ServerTypes, Responses
<1>6. InHand(i) \in Seq(Chunks)
  <2>1. Calling(i) => cw \in [pc : {"called"}, id : Ids, out : Seq(Chunks)]
    BY DEF Types, ClientTypes, Calling, Idle
  <2> QED
    BY <1>1, <2>1 DEF InHand
<1>7. Pushed(i) \in Seq(Chunks)
  <2>1. sio # Idle => sio \in [pc : {"push"}, url : Urls, chunk : Chunks, ready : BOOLEAN]
    BY DEF Types, ServerTypes
  <2>2. sio # Idle => <<sio.chunk>> \in Seq(Chunks)
    BY <2>1
  <2> QED
    BY <1>1, <2>2, OfStreamFacts DEF Pushed
<1>8. ASSUME paths[i] \in Urls
      PROVE  /\ http[paths[i]].up \in Seq(Chunks) /\ http[paths[i]].down \in Seq(Chunks)
             /\ WireUp(i) \in Seq(Chunks) /\ WireDown(i) \in Seq(Chunks)
  <2>1. http[paths[i]].up \in Seq(Chunks) /\ http[paths[i]].down \in Seq(Chunks)
    BY <1>8 DEF Types, Streams
  <2> QED
    BY <2>1, OfStreamFacts DEF WireUp, WireDown
<1> QED
  BY <1>2, <1>3, <1>4, <1>5, <1>6, <1>7, <1>8

(* How often something occurs in a queue. *)
LEMMA CountFacts ==
  ASSUME NEW S, NEW s \in Seq(S), NEW i
  PROVE  /\ Count(s, i) \in Nat
         /\ \A x \in S : Count(Append(s, x), i) = Count(s, i) + (IF x = i THEN 1 ELSE 0)
         /\ s # <<>> => /\ Count(s, i) = Count(Tail(s), i) + (IF Head(s) = i THEN 1 ELSE 0)
                        /\ Count(Tail(s), i) \in Nat
         /\ Contains(s, i) <=> Count(s, i) > 0
         /\ i \notin S => Count(s, i) = 0
<1>1. \A t \in Seq(S) : Kept(t, {i}) \in Seq(S) /\ Count(t, i) \in Nat
  BY KeptType, LenProperties DEF Count
<1>2. ASSUME NEW x \in S PROVE Count(Append(s, x), i) = Count(s, i) + (IF x = i THEN 1 ELSE 0)
  <2>1. Kept(Append(s, x), {i}) = IF x \in {i} THEN Append(Kept(s, {i}), x) ELSE Kept(s, {i})
    BY KeptAppend
  <2>2. Len(Append(Kept(s, {i}), x)) = Len(Kept(s, {i})) + 1
    BY <1>1, AppendProperties
  <2> QED
    BY <1>1, <2>1, <2>2 DEF Count
<1>3. ASSUME s # <<>>
      PROVE  /\ Count(s, i) = Count(Tail(s), i) + (IF Head(s) = i THEN 1 ELSE 0)
             /\ Count(Tail(s), i) \in Nat
  <2> DEFINE h == <<Head(s)>>
             t == Tail(s)
  <2>1. s = h \o t /\ t \in Seq(S) /\ h \in Seq(S)
    BY <1>3, HeadThenTail
  <2>2. Kept(h \o t, {i}) = Kept(h, {i}) \o Kept(t, {i})
    BY <2>1, KeptConcat
  <2>3. Kept(h, {i}) = IF Head(s) = i THEN h ELSE <<>>
    BY KeptOne
  <2>4. Len(Kept(h, {i})) = IF Head(s) = i THEN 1 ELSE 0
    BY <2>3
  <2>5. Len(Kept(h, {i}) \o Kept(t, {i})) = Len(Kept(h, {i})) + Len(Kept(t, {i}))
    BY <1>1, <2>1, ConcatProperties
  <2>6. Count(t, i) \in Nat
    BY <1>1, <2>1
  <2> HIDE DEF h, t
  <2>7. Kept(s, {i}) = Kept(h, {i}) \o Kept(t, {i})
    BY ONLY <2>1, <2>2
  <2>8. Count(s, i) = Len(Kept(h, {i})) + Count(t, i)
    BY ONLY <2>5, <2>7 DEF Count
  <2>9. Count(s, i) = Count(t, i) + (IF Head(s) = i THEN 1 ELSE 0)
    BY ONLY <2>4, <2>6, <2>8
  <2> QED
    BY ONLY <2>6, <2>9 DEF t
<1>4. Contains(s, i) <=> Count(s, i) > 0
  <2>1. ASSUME Contains(s, i) PROVE Count(s, i) > 0
    <3>1. PICK k \in 1 .. Len(s) : s[k] = i
      BY <2>1 DEF Contains
    <3>2. Kept(s, {i}) # <<>>
      BY <3>1, KeptMember
    <3> QED
      BY <1>1, <3>2, EmptySeq DEF Count
  <2>2. ASSUME ~Contains(s, i) PROVE Count(s, i) = 0
    <3>1. \A k \in 1 .. Len(s) : s[k] # i
      BY <2>2 DEF Contains
    <3>2. s \in Seq(S \ {i})
      <4>1. \A k \in 1 .. Len(s) : s[k] \in S \ {i}
        BY <3>1, ElementOfSeq
      <4>2. Len(s) \in Nat /\ s \in [1 .. Len(s) -> S] /\ DOMAIN s = 1 .. Len(s)
        BY LenProperties
      <4>3. s \in [1 .. Len(s) -> S \ {i}]
        BY <4>1, <4>2
      <4> QED
        BY <4>2, <4>3, SeqDef
    <3>3. (S \ {i}) \cap {i} = {}
      OBVIOUS
    <3>4. Kept(s, {i}) = <<>>
      BY ONLY <3>2, <3>3, KeptAll
    <3> QED
      BY <3>4, EmptySeq DEF Count
  <2> QED
    BY <1>1, <2>1, <2>2
<1>5. ASSUME i \notin S PROVE Count(s, i) = 0
  <2>1. S \cap {i} = {}
    BY <1>5
  <2>2. Kept(s, {i}) = <<>>
    BY <2>1, KeptAll
  <2> QED
    BY <2>2, EmptySeq DEF Count
<1> QED
  BY <1>1, <1>2, <1>3, <1>4, <1>5

(* What a submission finds and does: a fresh identifier, or the asset's own. *)
LEMMA SubmitFacts ==
  ASSUME Inv, NEW u \in Urls, Submit(u), NEW i, i = getNewRequestStreamIdentifier(u)
  PROVE  /\ i \in Ids /\ i \in Nat /\ cw = Idle /\ calls' = calls + 1 /\ cq' = Append(cq, i)
         /\ UNCHANGED <<delivered, cin, cout, cw, cio, http, server>>
         /\ u \in StaticUrls => Fetches(u) < MaxFetches
         /\ \/ /\ paths[i] = NoUrl /\ Unused(i) /\ paths' = [paths EXCEPT ![i] = u]
               /\ spaths[i] = NoUrl
               /\ u \in StaticUrls => \A j \in Ids : paths[j] # u
               /\ msg' = [msg EXCEPT ![i].out = IF u \in StaticUrls THEN Placeholder(i) ELSE RequestOf(i)]
            \/ /\ paths[i] = u /\ u \in StaticUrls /\ i = StaticIdOf(u) /\ paths' = paths /\ msg' = msg
<1> DEFINE first == IF u \in StaticUrls THEN Placeholder(i) ELSE RequestOf(i)
<1>1. /\ cw = Idle /\ HasId(u) /\ paths' = [paths EXCEPT ![i] = u]
      /\ msg' = IF paths[i] = NoUrl THEN [msg EXCEPT ![i].out = first] ELSE msg
      /\ cq' = Append(cq, i) /\ calls' = calls + 1
      /\ UNCHANGED <<delivered, cin, cout, cw, cio, http, server>>
      /\ u \in StaticUrls => Fetches(u) < MaxFetches
  BY DEF Submit
<1>2. Types /\ paths \in [Ids -> Urls \cup {NoUrl}]
  BY DEF Inv, Types, ClientTypes
<1>3. /\ i \in Ids
      /\ paths[i] = NoUrl \/ (u \in StaticUrls /\ paths[i] = u)
      /\ u \in StaticUrls /\ (\E j \in Ids : paths[j] = u) => paths[i] = u /\ i = StaticIdOf(u)
  BY <1>1, <1>2, SubmitId
<1>4. i \in Nat /\ u # NoUrl
  BY <1>3, Numbers
<1>5. CASE paths[i] = NoUrl
  <2>1. Unused(i) /\ spaths[i] = NoUrl
    BY <1>3, <1>5 DEF Inv, Known
  <2>2. u \in StaticUrls => \A j \in Ids : paths[j] # u
    BY <1>3, <1>4, <1>5
  <2> QED
    BY <1>1, <1>3, <1>4, <1>5, <2>1, <2>2
<1>6. CASE paths[i] # NoUrl
  <2>1. paths[i] = u /\ u \in StaticUrls
    BY <1>3, <1>6
  <2>2. paths' = paths
    BY <1>1, <1>2, <1>3, <2>1
  <2>3. i = StaticIdOf(u)
    BY <1>3, <2>1
  <2> QED
    BY <1>1, <1>3, <1>4, <1>6, <2>1, <2>2, <2>3
<1> QED
  BY <1>5, <1>6

(* What starting an answer does. *)
LEMMA StartFacts ==
  ASSUME Inv, NEW u \in Urls, start_response(u)
  PROVE  /\ sio = Idle /\ http[u].open /\ http[u].upFin /\ http[u].up = <<>> /\ ~http[u].started
         /\ http' = [http EXCEPT ![u].started = TRUE]
         /\ UNCHANGED <<client, sin, ongoing, sw, sio>>
         /\ u \notin StaticUrls => UNCHANGED <<snext, sout, sq, spaths, execs>>
         /\ u \in StaticUrls =>
              /\ StaticIdOf(u) \in Ids /\ paths[StaticIdOf(u)] = u /\ execs[StaticIdOf(u)] = 0
              /\ snext \in StaticIds /\ snext \in Nat /\ snext \in AllIds /\ snext \notin Ids
              /\ snext' = snext + 1 /\ sout' = [sout EXCEPT ![snext] = AnswerOf(snext)]
              /\ sq' = Append(sq, snext) /\ spaths' = [spaths EXCEPT ![snext] = u]
              /\ execs' = [execs EXCEPT ![StaticIdOf(u)] = 1]
<1>1. /\ sio = Idle /\ http[u].open /\ http[u].upFin /\ http[u].up = <<>> /\ ~http[u].started
      /\ http' = [http EXCEPT ![u].started = TRUE]
      /\ UNCHANGED <<client, sin, ongoing, sw, sio>>
      /\ u \notin StaticUrls => UNCHANGED <<snext, sout, sq, spaths, execs>>
  BY DEF start_response
<1>2. ASSUME u \in StaticUrls
      PROVE  /\ StaticIdOf(u) \in Ids /\ paths[StaticIdOf(u)] = u /\ execs[StaticIdOf(u)] = 0
             /\ snext \in StaticIds /\ snext \in Nat /\ snext \in AllIds /\ snext \notin Ids
             /\ snext' = snext + 1 /\ sout' = [sout EXCEPT ![snext] = AnswerOf(snext)]
             /\ sq' = Append(sq, snext) /\ spaths' = [spaths EXCEPT ![snext] = u]
             /\ execs' = [execs EXCEPT ![StaticIdOf(u)] = 1]
  <2> DEFINE i == StaticIdOf(u)
  <2>1. i \in Ids /\ paths[i] = u /\ execs[i] = 0 /\ snext \in StaticIds
    BY <1>2, StartId
  <2>2. snext \in Nat /\ snext \in AllIds /\ snext \notin Ids
    BY <2>1, Numbers
  <2>3. /\ snext' = snext + 1 /\ sout' = [sout EXCEPT ![snext] = AnswerOf(snext)]
        /\ sq' = Append(sq, snext) /\ spaths' = [spaths EXCEPT ![snext] = u]
        /\ execs' = [execs EXCEPT ![i] = @ + 1]
    BY <1>2 DEF start_response, prepareStaticHandler, prepareHandler
  <2> HIDE DEF i
  <2>4. execs' = [execs EXCEPT ![i] = 1]
    BY <2>1, <2>3
  <2> QED
    BY <2>1, <2>2, <2>3, <2>4 DEF i
<1> QED
  BY <1>1, <1>2

(* The server has an identifier left for every asset. *)
LEMMA CountsStep == ASSUME Inv, NEW u, Steps(u) PROVE Counts'
<1>1. Counts /\ Types
  BY DEF Inv
<1>2. IsFiniteSet(Used) /\ Cardinality(Used) \in Nat /\ calls \in Nat /\ Used \subseteq Ids
  <2>1. Used \subseteq Ids /\ IsFiniteSet(Ids)
    BY Numbers DEF Used
  <2> QED
    <3>1. IsFiniteSet(Used)
      BY <2>1, FS_Subset
    <3>2. Cardinality(Used) \in Nat
      BY <3>1, FS_CardinalityType
    <3>3. calls \in Nat
      BY <1>1, Numbers DEF Types, ClientTypes
    <3> QED
      BY <2>1, <3>1, <3>2, <3>3
<1>3. IsFiniteSet(Served) /\ Cardinality(Served) \in Nat
  <2>1. Served \subseteq Ids /\ IsFiniteSet(Ids)
    BY Numbers DEF Served
  <2> QED
    BY <2>1, FS_Subset, FS_CardinalityType
<1>4. CASE u \in Urls /\ Submit(u)
  <2> DEFINE i == getNewRequestStreamIdentifier(u)
  <2>1. /\ i \in Ids /\ calls' = calls + 1 /\ snext' = snext /\ execs' = execs
        /\ \/ paths[i] = NoUrl /\ execs[i] = 0 /\ paths' = [paths EXCEPT ![i] = u]
           \/ paths' = paths
    BY <1>4, SubmitFacts DEF Unused, server
  <2> HIDE DEF i
  <2>2. CASE paths[i] = NoUrl /\ execs[i] = 0 /\ paths' = [paths EXCEPT ![i] = u]
    <3>1. paths \in [Ids -> Urls \cup {NoUrl}] /\ NoUrl \notin StaticUrls
      BY <1>1, Numbers DEF Types, ClientTypes
    <3>2. Served' = Served
      BY <2>1, <2>2, <3>1 DEF Served
    <3>3. Used' = Used \cup {i} /\ i \notin Used
      BY <1>4, <2>1, <2>2, <3>1, Numbers DEF Used
    <3>4. Cardinality(Used') = Cardinality(Used) + 1
      BY <1>2, <3>3, FS_AddElement
    <3> QED
      BY <1>1, <1>2, <2>1, <3>2, <3>4 DEF Counts
  <2>3. CASE paths' = paths
    <3>1. Served' = Served /\ Used' = Used
      BY <2>1, <2>3 DEF Served, Used
    <3> QED
      BY <1>1, <1>2, <2>1, <3>1 DEF Counts
  <2> QED
    BY <2>1, <2>2, <2>3
<1>5. CASE u \in Urls /\ start_response(u) /\ u \in StaticUrls
  <2> DEFINE i == StaticIdOf(u)
  <2>1. /\ i \in Ids /\ paths[i] = u /\ execs[i] = 0 /\ snext' = snext + 1
        /\ execs' = [execs EXCEPT ![i] = 1] /\ paths' = paths /\ calls' = calls
    BY <1>5, StartFacts DEF client
  <2> HIDE DEF i
  <2>2. Served' = Served \cup {i} /\ i \notin Served
    <3>1. execs \in [AllIds -> Nat] /\ Ids \subseteq AllIds
      BY <1>1, Numbers DEF Types, ServerTypes
    <3> QED
      BY <1>5, <2>1, <3>1 DEF Served
  <2>3. Cardinality(Served') = Cardinality(Served) + 1
    BY <1>3, <2>2, FS_AddElement
  <2>4. Used' = Used
    BY <2>1 DEF Used
  <2>5. MaxIds \in Nat
    BY Numbers
  <2> QED
    BY <1>1, <1>3, <2>1, <2>3, <2>4, <2>5 DEF Counts
<1>6. CASE ServerCall
  <2> DEFINE i == Head(sq)
  <2>1. /\ i \in AllIds /\ (i \in Ids => Routed(i)) /\ UNCHANGED <<client, snext>>
        /\ execs' = execs \/ (i \in Ids /\ execs' = [execs EXCEPT ![i] = @ + 1])
    BY <1>6, ServerCallFacts DEF Silent, Ended, Gather
  <2> HIDE DEF i
  <2>2. Served' = Served
    <3>1. execs \in [AllIds -> Nat]
      BY <1>1 DEF Types, ServerTypes
    <3>2. \A j \in Ids : paths[j] \in StaticUrls => execs'[j] = execs[j]
      BY <2>1, <3>1, Numbers DEF Routed
    <3>3. paths' = paths
      BY <2>1 DEF client
    <3> QED
      BY <3>2, <3>3 DEF Served
  <2>3. Used' = Used /\ calls' = calls /\ snext' = snext
    BY <2>1 DEF Used, client
  <2> QED
    BY <1>1, <2>2, <2>3 DEF Counts
<1>7. CASE UNCHANGED <<snext, calls, paths, execs>>
  BY <1>1, <1>7 DEF Counts, Served, Used
<1>8. ASSUME u \in Urls, UrlSteps(u), ~Submit(u), ~(start_response(u) /\ u \in StaticUrls)
      PROVE  UNCHANGED <<snext, calls, paths, execs>>
  BY <1>8 DEF UrlSteps, SearchForever, getOutstandingRequest, ClientEnd, ClientPlan, ClientReceive,
              ClientClose, ServerReceive, start_response, ServerSend, client, server
<1>9. ASSUME PlainSteps, ~ServerCall PROVE UNCHANGED <<snext, calls, paths, execs>>
  BY <1>9 DEF PlainSteps, ClientCall, ClientReturn, hasOutstandingRequest, RequestGone,
              lock_outgoing_chunks, pushIncomingChunk, ServerReturn, client, server
<1> QED
  BY <1>4, <1>5, <1>6, <1>7, <1>8, <1>9 DEF Steps

-------------------------------------------------------------------------------
(* Calls of the client's handlers. *)

(* An empty chain has empty links. *)
LEMMA ChainEmpty ==
  ASSUME NEW S, NEW a \in Seq(S), NEW b \in Seq(S), NEW c \in Seq(S), NEW d \in Seq(S)
  PROVE  /\ a \o (b \o (c \o d)) \in Seq(S)
         /\ a \o (b \o (c \o d)) = <<>> <=> a = <<>> /\ b = <<>> /\ c = <<>> /\ d = <<>>
<1> DEFINE x == c \o d
           y == b \o x
<1>1. x \in Seq(S)
  BY ConcatProperties
<1>a. x = <<>> => c = <<>> /\ d = <<>>
  BY BothEmpty
<1>b. c = <<>> /\ d = <<>> => x = <<>>
  BY ConcatEmptySeq, EmptySeq
<1> HIDE DEF x
<1>2. y \in Seq(S)
  BY <1>1, ConcatProperties
<1>c. y = <<>> => b = <<>> /\ x = <<>>
  BY <1>1, BothEmpty
<1>d. b = <<>> /\ x = <<>> => y = <<>>
  BY <1>1, ConcatEmptySeq
<1> HIDE DEF y
<1>3. a \o y \in Seq(S)
  BY <1>2, ConcatProperties
<1>e. a \o y = <<>> => a = <<>> /\ y = <<>>
  BY <1>2, BothEmpty
<1>f. a = <<>> /\ y = <<>> => a \o y = <<>>
  BY <1>2, ConcatEmptySeq
<1> QED
  BY <1>3, <1>a, <1>b, <1>c, <1>d, <1>e, <1>f DEF x, y

(* The six links of Up. *)
LEMMA UpLinks ==
  ASSUME TypedSeqs, NEW i \in Ids, paths[i] \in Urls
  PROVE  /\ Req(sin[i]) \in Seq(Chunks) /\ Req(Pushed(i)) \in Seq(Chunks) /\ Req(WireUp(i)) \in Seq(Chunks)
         /\ Req(cout[i]) \in Seq(Chunks) /\ Req(InHand(i)) \in Seq(Chunks) /\ Req(msg[i].out) \in Seq(Chunks)
         /\ Up(i) \in Seq(Chunks)
         /\ Up(i) = <<>> <=> /\ Req(sin[i]) = <<>> /\ Req(Pushed(i)) = <<>> /\ Req(WireUp(i)) = <<>>
                             /\ Req(cout[i]) = <<>> /\ Req(InHand(i)) = <<>> /\ Req(msg[i].out) = <<>>
<1>1. /\ Req(sin[i]) \in Seq(Chunks) /\ Req(Pushed(i)) \in Seq(Chunks) /\ Req(WireUp(i)) \in Seq(Chunks)
      /\ Req(cout[i]) \in Seq(Chunks) /\ Req(InHand(i)) \in Seq(Chunks) /\ Req(msg[i].out) \in Seq(Chunks)
  BY OfKindFacts DEF TypedSeqs, Req
<1> DEFINE a == Req(sin[i])
           b == Req(Pushed(i))
           c == Req(WireUp(i))
           d == Req(cout[i])
           e == Req(InHand(i))
           f == Req(msg[i].out)
           x == e \o f
           y == c \o (d \o x)
<1>2. a \in Seq(Chunks) /\ b \in Seq(Chunks) /\ c \in Seq(Chunks) /\ d \in Seq(Chunks) /\ e \in Seq(Chunks) /\ f \in Seq(Chunks)
  BY <1>1
<1>3. Up(i) = a \o (b \o y)
  BY DEF Up
<1> HIDE DEF a, b, c, d, e, f
<1>4. x \in Seq(Chunks) /\ (x = <<>> <=> e = <<>> /\ f = <<>>)
  BY ONLY <1>2, ConcatProperties, BothEmpty, ConcatEmptySeq, EmptySeq
<1> HIDE DEF x
<1>5. /\ a \o (b \o (c \o (d \o x))) \in Seq(Chunks)
      /\ a \o (b \o (c \o (d \o x))) = <<>> <=> a = <<>> /\ b = <<>> /\ c = <<>> /\ d \o x = <<>>
      /\ d \o x = <<>> <=> d = <<>> /\ x = <<>>
  <2> DEFINE z == d \o x
  <2>1. z \in Seq(Chunks) /\ (z = <<>> <=> d = <<>> /\ x = <<>>)
    BY ONLY <1>2, <1>4, ConcatProperties, BothEmpty, ConcatEmptySeq, EmptySeq
  <2> HIDE DEF z
  <2>2. /\ a \o (b \o (c \o z)) \in Seq(Chunks)
        /\ a \o (b \o (c \o z)) = <<>> <=> a = <<>> /\ b = <<>> /\ c = <<>> /\ z = <<>>
    BY ONLY <1>2, <2>1, ChainEmpty
  <2> QED
    BY ONLY <2>1, <2>2 DEF z
<1>6. /\ Up(i) \in Seq(Chunks)
      /\ Up(i) = <<>> <=> a = <<>> /\ b = <<>> /\ c = <<>> /\ d = <<>> /\ e = <<>> /\ f = <<>>
  BY ONLY <1>3, <1>4, <1>5 DEF y
<1> QED
  BY ONLY <1>1, <1>6 DEF a, b, c, d, e, f

(* The four links of Down. *)
LEMMA DownLinks ==
  ASSUME TypedSeqs, NEW i \in Ids, paths[i] \in Urls
  PROVE  /\ Down(i) \in Seq(Chunks)
         /\ Down(i) = <<>> <=> msg[i].got = <<>> /\ cin[i] = <<>> /\ WireDown(i) = <<>> /\ sout[i] = <<>>
<1> DEFINE a == msg[i].got
           b == cin[i]
           c == WireDown(i)
           d == sout[i]
<1>1. a \in Seq(Chunks) /\ b \in Seq(Chunks) /\ c \in Seq(Chunks) /\ d \in Seq(Chunks)
  BY DEF TypedSeqs
<1>2. Down(i) = a \o (b \o (c \o d))
  BY DEF Down
<1> HIDE DEF a, b, c, d
<1>3. Down(i) \in Seq(Chunks) /\ (Down(i) = <<>> <=> a = <<>> /\ b = <<>> /\ c = <<>> /\ d = <<>>)
  BY ONLY <1>1, <1>2, ChainEmpty
<1> QED
  BY ONLY <1>3 DEF a, b, c, d

(* A queued stream has a route or an asset. *)
LEMMA UsedKinds ==
  ASSUME Types, NEW i \in Used
  PROVE  i \in Ids /\ paths[i] \in Urls /\ (Routed(i) \/ IsStatic(i)) /\ ~(Routed(i) /\ IsStatic(i))
BY DEF Used, Types, ClientTypes, Routed, IsStatic

(* What a message still holds when its handler is called. *)
LEMMA MessageOut ==
  ASSUME Inv, NEW i \in Used, cw = Idle
  PROVE  /\ InHand(i) = <<>> /\ msg[i].out # Close(i)
         /\ execs[i] = 1 => msg[i].out = <<>>
         /\ execs[i] = 0 => cin[i] = <<>> /\ ~msg[i].complete
         /\ execs[i] \in {0, 1}
<1>1. /\ i \in Ids /\ paths[i] \in Urls /\ (Routed(i) \/ IsStatic(i)) /\ TypedSeqs /\ i \in Nat
  BY UsedKinds, SeqTypes, Numbers DEF Inv
<1>2. InHand(i) = <<>>
  BY DEF InHand, Calling, Idle
<1>3. /\ Close(i) \in Seq(Kind("close")) /\ Close(i) # <<>> /\ Placeholder(i) # Close(i) /\ Placeholder(i) \in Seq(Chunks)
  BY <1>1, SignalTypes, LaneSeq
<1>4. msg[i].out \in Seq(Chunks) /\ cout[i] \in Seq(Chunks)
  BY <1>1 DEF TypedSeqs
<1>5. CASE Routed(i)
  <2>1. Asking(i) /\ Answering(i)
    BY <1>1, <1>5 DEF Inv, AllAsk, AllAnswer
  <2>2. msg[i].out \in Seq(Kind("req")) /\ execs[i] \in {0, 1}
    BY <2>1 DEF Asking
  <2>3. OfKind(msg[i].out, "req") = msg[i].out /\ OfKind(Close(i), "req") = <<>>
    BY <1>3, <2>2, OfKindFacts
  <2>4. execs[i] = 1 => msg[i].out = <<>>
    <3>1. execs[i] = 1 => Up(i) = <<>>
      BY <2>1 DEF Asking
    <3>2. Up(i) = <<>> => Req(msg[i].out) = <<>>
      BY <1>1, UpLinks
    <3> QED
      BY <2>3, <3>1, <3>2 DEF Req
  <2>5. execs[i] = 0 => cin[i] = <<>> /\ delivered[i] = <<>>
    <3>1. execs[i] = 0 => Down(i) = <<>> /\ delivered[i] = <<>>
      BY <2>1 DEF Answering
    <3>2. Down(i) = <<>> => cin[i] = <<>>
      BY <1>1, DownLinks
    <3> QED
      BY <3>1, <3>2
  <2>6. execs[i] = 0 => ~msg[i].complete
    BY <1>1, <2>5 DEF Inv, Completes
  <2>7. msg[i].out # Close(i)
    BY <1>3, <2>3
  <2> QED
    BY <1>2, <2>2, <2>4, <2>5, <2>6, <2>7
<1>6. CASE IsStatic(i)
  <2>1. Fetching(i)
    BY <1>1, <1>6 DEF Inv, AllFetch
  <2>2. Held(i) = cout[i] \o (<<>> \o msg[i].out)
    BY <1>2, <1>3 DEF Held
  <2>3. <<>> \o msg[i].out = msg[i].out
    BY <1>4, ConcatEmptySeq
  <2>4. Held(i) = cout[i] \o msg[i].out
    BY <2>2, <2>3
  <2>5. Held(i) \in {<<>>, Placeholder(i)} /\ (execs[i] = 1 => Held(i) = <<>>) /\ execs[i] \in {0, 1}
        /\ (execs[i] = 0 => cin[i] = <<>> /\ ~msg[i].complete)
    BY <2>1 DEF Fetching, Fetched, Unsent
  <2>6. Held(i) = <<>> => msg[i].out = <<>>
    BY ONLY <1>4, <2>4, BothEmpty
  <2>7. msg[i].out # Close(i)
    <3>1. OfKind(Held(i), "close") = <<>>
      <4>1. Placeholder(i) \in Seq(Kind("hold"))
        BY <1>1, SignalTypes, LaneSeq
      <4> QED
        BY <2>5, <4>1, OfKindFacts
    <3>2. OfKind(Held(i), "close") = OfKind(cout[i], "close") \o OfKind(msg[i].out, "close")
      BY <1>4, <2>4, OfKindFacts, ZenonT(60)
    <3>3. OfKind(cout[i], "close") \in Seq(Chunks) /\ OfKind(msg[i].out, "close") \in Seq(Chunks)
      BY <1>4, OfKindFacts
    <3>4. OfKind(msg[i].out, "close") = <<>>
      BY ONLY <3>1, <3>2, <3>3, BothEmpty
    <3>5. OfKind(Close(i), "close") = Close(i)
      BY <1>3, OfKindFacts
    <3> QED
      BY <1>3, <3>4, <3>5
  <2> QED
    BY <1>2, <2>5, <2>6, <2>7
<1> QED
  BY <1>1, <1>5, <1>6

(* A call that completes an answer has the request behind it and closes the stream. *)
LEMMA CompleteCall ==
  ASSUME Inv, ClientCall, NEW i, i = Head(cq), NEW m, m = Received(msg[i], cin[i], IsStatic(i))
  PROVE  /\ m.complete => execs[i] = 1 /\ msg[i].out = <<>>
         /\ m.complete <=> cw'.out = Close(i)
<1>1. /\ cw = Idle /\ i \in Ids /\ i \in Used
      /\ m.complete = (msg[i].complete \/ Whole(m.got, cin[i], IsStatic(i)))
      /\ cw'.out = IF NeedsBeat(i, cin[i], m) THEN Beat(i)
                   ELSE msg[i].out \o (IF m.complete THEN Close(i) ELSE <<>>)
  <2>1. cw = Idle /\ i \in Ids /\ i \in Used
    BY ClientCallFacts
  <2>2. m.complete = (msg[i].complete \/ Whole(m.got, cin[i], IsStatic(i)))
    BY ClientCallFacts, Zenon
  <2>3. cw' = [pc |-> "called", id |-> i,
               out |-> IF NeedsBeat(i, cin[i], m) THEN Beat(i)
                       ELSE msg[i].out \o (IF m.complete THEN Close(i) ELSE <<>>)]
    BY ClientCallFacts, Zenon
  <2> QED
    BY <2>1, <2>2, <2>3
<1>2. /\ msg[i].out # Close(i)
      /\ execs[i] = 1 => msg[i].out = <<>>
      /\ execs[i] = 0 => cin[i] = <<>> /\ ~msg[i].complete
      /\ execs[i] \in {0, 1}
  BY <1>1, MessageOut
<1>3. m.complete => execs[i] = 1
  <2>1. cin[i] = <<>> => OfKind(cin[i], "close") = <<>> /\ OfKind(cin[i], "resp") = <<>>
    BY OfKindFacts
  <2>2. cin[i] = <<>> => ~Whole(m.got, cin[i], IsStatic(i))
    BY <2>1 DEF Whole
  <2> QED
    BY <1>1, <1>2, <2>2
<1>4. i \in Nat /\ Close(i) \in Seq(Chunks) /\ Beat(i) # Close(i) /\ msg[i].out \in Seq(Chunks)
  <2>1. TypedSeqs
    BY SeqTypes DEF Inv
  <2> QED
    BY <1>1, <2>1, Numbers, SignalTypes, WrittenTypes DEF TypedSeqs
<1>5. <<>> \o Close(i) = Close(i) /\ msg[i].out \o <<>> = msg[i].out
  BY <1>4, ConcatEmptySeq
<1>6. m.complete => ~NeedsBeat(i, cin[i], m)
  BY DEF NeedsBeat
<1>7. m.complete => cw'.out = Close(i)
  BY <1>1, <1>2, <1>3, <1>5, <1>6
<1>8. ~m.complete => cw'.out # Close(i)
  BY <1>1, <1>2, <1>4, <1>5
<1> QED
  BY <1>2, <1>3, <1>7, <1>8

(* A stream has one handler. *)
LEMMA SingleStep == ASSUME Inv, NEW u, Steps(u) PROVE AllSingle'
<1> SUFFICES ASSUME NEW j \in Ids, Routed(j)' \/ MaxFetches = 1
             PROVE  /\ Count(cq', j) + (IF Calling(j)' THEN 1 ELSE 0) <= 1
                    /\ delivered'[j] # <<>> => /\ Len(delivered'[j]) = 1 /\ Count(cq', j) = 0
                                              /\ (Calling(j)' => cw'.out = Close(j))
  <2>1. \A j : Single(j)' <=> /\ Count(cq', j) + (IF Calling(j)' THEN 1 ELSE 0) <= 1
                              /\ delivered'[j] # <<>> => /\ Len(delivered'[j]) = 1 /\ Count(cq', j) = 0
                                                        /\ (Calling(j)' => cw'.out = Close(j))
    BY DEF Single, Count
  <2> QED
    BY <2>1 DEF AllSingle
<1>1. Types /\ cq \in Seq(Ids) /\ paths \in [Ids -> Urls \cup {NoUrl}] /\ cq \in Seq(Used)
      /\ msg \in [Ids -> ClientMessages] /\ delivered \in [Ids -> Seq(Seq(Chunks))]
  BY DEF Inv, Types, ClientTypes, Known
<1>2. Count(cq, j) \in Nat
  BY <1>1, CountFacts
<1>3. Routed(j) \/ MaxFetches = 1
      => /\ Count(cq, j) + (IF Calling(j) THEN 1 ELSE 0) <= 1
         /\ delivered[j] # <<>> => /\ Len(delivered[j]) = 1 /\ Count(cq, j) = 0
                                   /\ (Calling(j) => cw.out = Close(j))
  BY DEF Inv, AllSingle, Single
<1>4. CASE u \in Urls /\ Submit(u)
  <2> DEFINE i == getNewRequestStreamIdentifier(u)
  <2>1. /\ i \in Ids /\ cw = Idle /\ cw' = Idle /\ cq' = Append(cq, i) /\ delivered' = delivered
        /\ u \in StaticUrls => Fetches(u) < MaxFetches
        /\ \/ paths[i] = NoUrl /\ delivered[i] = <<>> /\ paths' = [paths EXCEPT ![i] = u]
           \/ paths[i] = u /\ u \in StaticUrls /\ i = StaticIdOf(u) /\ paths' = paths
    BY <1>4, SubmitFacts, Zenon DEF Unused
  <2> HIDE DEF i
  <2>2. Count(cq', j) = Count(cq, j) + (IF i = j THEN 1 ELSE 0)
    BY <1>1, <2>1, CountFacts
  <2>3. ~Calling(j)' /\ ~Calling(j)
    BY <2>1 DEF Calling, Idle
  <2>4. CASE i # j
    <3>1. Routed(j)' => Routed(j)
      BY <2>1, <2>4, <1>1 DEF Routed
    <3> QED
      BY <1>2, <1>3, <2>1, <2>2, <2>3, <2>4, <3>1
  <2>5. CASE i = j /\ paths[i] = NoUrl /\ delivered[i] = <<>>
    <3>1. i \notin Used
      BY <2>5 DEF Used
    <3>2. Count(cq, j) = 0
      BY <1>1, <2>5, <3>1, CountFacts
    <3> QED
      BY <2>1, <2>2, <2>3, <2>5, <3>2
  <2>6. CASE i = j /\ paths[i] = u /\ u \in StaticUrls /\ i = StaticIdOf(u) /\ paths' = paths
    <3>1. MaxFetches = 1
      BY <2>6 DEF Routed
    <3> DEFINE E == {k \in Ids : paths[k] = u}
               a == Len(Kept(cq, E))
               b == Len(delivered[i])
    <3>2. a + b < 1
      BY <2>1, <2>6, <3>1 DEF Fetches
    <3>3. Kept(cq, E) \in Seq(Ids) /\ delivered[i] \in Seq(Seq(Chunks))
      BY <1>1, <2>1, KeptType
    <3>4. a \in Nat /\ b \in Nat
      BY <3>3, LenProperties
    <3> HIDE DEF a, b
    <3>5. a = 0 /\ b = 0
      BY <3>2, <3>4
    <3>6. delivered[i] = <<>> /\ Kept(cq, E) = <<>>
      BY <3>3, <3>5, EmptySeq DEF a, b
    <3>7. cq \in Seq(Ids \ E)
      BY <1>1, <3>6, KeptNothing
    <3>8. Count(cq, j) = 0
      BY <2>1, <2>6, <3>7, CountFacts
    <3> QED
      BY <2>1, <2>2, <2>3, <2>6, <3>6, <3>8
  <2> QED
    BY <2>1, <2>4, <2>5, <2>6
<1>5. CASE ClientCall
  <2> DEFINE i == Head(cq)
             m == Received(msg[i], cin[i], IsStatic(i))
  <2>1. /\ cw = Idle /\ cq # <<>> /\ i \in Ids /\ cq' = Tail(cq)
        /\ cw'.id = i /\ paths' = paths
        /\ delivered' = IF m.complete THEN [delivered EXCEPT ![i] = Append(@, m.got)] ELSE delivered
    <3>1. cw = Idle /\ cq # <<>> /\ i \in Ids /\ cq' = Tail(cq) /\ paths' = paths
      BY <1>5, ClientCallFacts
    <3>2. delivered' = IF m.complete THEN [delivered EXCEPT ![i] = Append(@, m.got)] ELSE delivered
      BY <1>5, ClientCallFacts, Zenon
    <3>3. cw'.id = i
      BY <1>5, ClientCallFacts, Zenon
    <3> QED
      BY <3>1, <3>2, <3>3
  <2>2. m.complete <=> cw'.out = Close(i)
    BY <1>5, CompleteCall
  <2> HIDE DEF m
  <2>3. /\ Count(cq, j) = Count(cq', j) + (IF i = j THEN 1 ELSE 0)
        /\ Count(cq', j) \in Nat
    BY <1>1, <2>1, CountFacts
  <2> HIDE DEF i
  <2>4. Calling(j)' => i = j
    BY <2>1 DEF Calling
  <2>5. ~Calling(j)
    BY <2>1 DEF Calling, Idle
  <2>6. Routed(j)' => Routed(j)
    BY <2>1 DEF Routed
  <2>7. CASE i # j
    <3>1. delivered'[j] = delivered[j]
      BY <1>1, <2>1, <2>7
    <3> QED
      BY <1>2, <1>3, <2>3, <2>4, <2>5, <2>6, <2>7, <3>1
  <2>8. CASE i = j
    <3>1. delivered[j] = <<>> /\ Count(cq', j) = 0
      BY <1>3, <2>3, <2>5, <2>6, <2>8
    <3>2. delivered'[j] # <<>> => m.complete
      BY <2>1, <3>1
    <3>3. m.complete => delivered'[j] = <<m.got>>
      BY <1>1, <2>1, <2>8, <3>1
    <3>4. delivered'[j] # <<>> => Len(delivered'[j]) = 1
      <4>1. \A g : Len(<<g>>) = 1
        OBVIOUS
      <4>2. Len(<<m.got>>) = 1
        BY <4>1, Zenon
      <4> QED
        BY <3>2, <3>3, <4>2, Zenon
    <3>5. delivered'[j] # <<>> => cw'.out = Close(j)
      BY <2>2, <2>8, <3>2
    <3>6. Count(cq', j) + (IF Calling(j)' THEN 1 ELSE 0) <= 1
      BY <3>1
    <3> QED
      BY <3>1, <3>4, <3>5, <3>6
  <2> QED
    BY <2>7, <2>8
<1>6. CASE ClientReturn
  <2> DEFINE i == cw.id
  <2>1. /\ cw.pc = "called" /\ i \in Ids /\ cw' = Idle /\ paths' = paths /\ delivered' = delivered
        /\ \/ cw.out = Close(i) /\ cq' = cq
           \/ cw.out # Close(i) /\ cq' = Append(cq, i)
    BY <1>6, ClientReturnFacts
  <2>2. ~Calling(j)' /\ (Calling(j) <=> i = j)
    BY <2>1 DEF Calling, Idle
  <2> HIDE DEF i
  <2>3. \A x \in Ids : Count(Append(cq, x), j) = Count(cq, j) + (IF x = j THEN 1 ELSE 0)
    BY <1>1, CountFacts
  <2>4. Routed(j)' => Routed(j)
    BY <2>1 DEF Routed
  <2>5. CASE cw.out = Close(i) /\ cq' = cq
    BY <1>2, <1>3, <2>1, <2>2, <2>4, <2>5
  <2>6. CASE cw.out # Close(i) /\ cq' = Append(cq, i)
    <3>1. Count(cq', j) = Count(cq, j) + (IF i = j THEN 1 ELSE 0)
      BY <2>1, <2>3, <2>6
    <3>2. CASE i = j
      <4>1. delivered[j] = <<>> /\ Count(cq, j) = 0
        BY <1>2, <1>3, <2>2, <2>4, <2>6, <3>2
      <4> QED
        BY <2>1, <2>2, <3>1, <3>2, <4>1
    <3>3. CASE i # j
      BY <1>2, <1>3, <2>1, <2>2, <2>4, <3>1, <3>3
    <3> QED
      BY <3>2, <3>3
  <2> QED
    BY <2>1, <2>5, <2>6
<1>7. CASE u \in Urls /\ SearchForever(u)
  <2>1. cw = Idle /\ cw'.pc = "searching" /\ UNCHANGED <<cq, delivered, paths>>
    BY <1>7 DEF SearchForever
  <2>2. ~Calling(j) /\ ~Calling(j)' /\ (Routed(j)' => Routed(j))
    BY <2>1 DEF Calling, Idle, Routed
  <2> QED
    BY <1>2, <1>3, <2>1, <2>2
<1>8. CASE UNCHANGED <<cq, cw, delivered, paths>>
  <2>1. (Calling(j)' <=> Calling(j)) /\ (Routed(j)' => Routed(j))
    BY <1>8 DEF Calling, Routed
  <2> QED
    BY <1>2, <1>3, <1>8, <2>1
<1>9. ASSUME u \in Urls, UrlSteps(u), ~Submit(u), ~SearchForever(u) PROVE UNCHANGED <<cq, cw, delivered, paths>>
  BY <1>9 DEF UrlSteps, getOutstandingRequest, ClientEnd, ClientPlan, ClientReceive,
              ClientClose, ServerReceive, start_response, ServerSend, client
<1>10. ASSUME PlainSteps, ~ClientCall, ~ClientReturn PROVE UNCHANGED <<cq, cw, delivered, paths>>
  BY <1>10 DEF PlainSteps, hasOutstandingRequest, RequestGone,
               lock_outgoing_chunks, pushIncomingChunk, ServerCall, ServerReturn, client
<1> QED
  BY <1>4, <1>5, <1>6, <1>7, <1>8, <1>9, <1>10 DEF Steps

(* A message is complete exactly when its answer was delivered. *)
LEMMA CompletesStep == ASSUME Inv, NEW u, Steps(u) PROVE Completes'
<1>1. /\ Types /\ Completes
      /\ msg \in [Ids -> ClientMessages] /\ delivered \in [Ids -> Seq(Seq(Chunks))]
  BY DEF Inv, Types, ClientTypes
<1>2. /\ \A i \in Ids : msg[i].complete <=> delivered[i] # <<>>
      /\ cw.pc = "called" /\ cw.out = Close(cw.id) => msg[cw.id].complete
      /\ sw.pc = "closed" => sw.id \in Ids
  BY <1>1 DEF Completes
<1>3. CASE u \in Urls /\ Submit(u)
  <2> DEFINE i == getNewRequestStreamIdentifier(u)
             first == IF u \in StaticUrls THEN Placeholder(i) ELSE RequestOf(i)
  <2>1. i \in Ids /\ cw' = Idle /\ delivered' = delivered /\ sw' = sw
    BY <1>3, SubmitFacts DEF server
  <2>2. msg' = [msg EXCEPT ![i].out = first] \/ msg' = msg
    BY <1>3, SubmitFacts
  <2> HIDE DEF i, first
  <2>3. \A k \in Ids : msg'[k].complete = msg[k].complete
    BY <1>1, <2>1, <2>2, ZenonT(60) DEF ClientMessages
  <2> QED
    BY <1>2, <2>1, <2>3 DEF Completes, Idle
<1>4. CASE ClientCall
  <2> DEFINE i == Head(cq)
             m == Received(msg[i], cin[i], IsStatic(i))
             done == [m EXCEPT !.got = <<>>, !.finished = TRUE]
  <2>1. /\ i \in Ids /\ m \in ClientMessages
        /\ m.complete = (msg[i].complete \/ Whole(m.got, cin[i], IsStatic(i)))
        /\ msg' = [msg EXCEPT ![i] = IF m.complete THEN done ELSE m]
        /\ delivered' = IF m.complete THEN [delivered EXCEPT ![i] = Append(@, m.got)] ELSE delivered
        /\ cw'.id = i
        /\ UNCHANGED server
    <3>1. i \in Ids /\ UNCHANGED server /\ cw'.id = i
      BY <1>4, ClientCallFacts, Zenon
    <3>2. m \in ClientMessages
      BY <1>4, ClientCallFacts
    <3>3. m.complete = (msg[i].complete \/ Whole(m.got, cin[i], IsStatic(i)))
      BY <1>4, ClientCallFacts, Zenon
    <3>4. /\ msg' = [msg EXCEPT ![i] = IF m.complete THEN done ELSE m]
          /\ delivered' = IF m.complete THEN [delivered EXCEPT ![i] = Append(@, m.got)] ELSE delivered
      BY <1>4, ClientCallFacts, Zenon
    <3> QED
      BY <3>1, <3>2, <3>3, <3>4
  <2>2. m.complete <=> cw'.out = Close(i)
    BY <1>4, CompleteCall
  <2> HIDE DEF i, m
  <2>3. done.complete = m.complete /\ m.complete \in BOOLEAN /\ m.got \in Seq(Chunks)
    BY <2>1 DEF ClientMessages
  <2> HIDE DEF done
  <2>4. msg'[i].complete = m.complete
    BY <1>1, <2>1, <2>3
  <2>5. delivered'[i] # <<>> <=> m.complete
    <3>1. m.complete => delivered'[i] # <<>>
      <4>1. Append(delivered[i], m.got) # <<>>
        BY <1>1, <2>1, <2>3, AppendProperties, SMTT(40)
      <4> QED
        BY <1>1, <2>1, <4>1
    <3>2. ~m.complete => delivered'[i] = <<>>
      BY <1>2, <2>1
    <3> QED
      BY <3>1, <3>2
  <2>6. \A k \in Ids : k # i => msg'[k] = msg[k] /\ delivered'[k] = delivered[k]
    BY <1>1, <2>1
  <2>7. \A k \in Ids : msg'[k].complete <=> delivered'[k] # <<>>
    BY <1>2, <2>4, <2>5, <2>6
  <2>8. cw'.out = Close(cw'.id) => msg'[cw'.id].complete
    BY <2>1, <2>2, <2>4
  <2> QED
    BY <1>2, <2>1, <2>7, <2>8 DEF Completes, server
<1>5. CASE ClientReturn
  <2>1. cw' = Idle /\ UNCHANGED <<msg, delivered, server>>
    BY <1>5, ClientReturnFacts
  <2> QED
    BY <1>2, <2>1 DEF Completes, Idle, server
<1>6. CASE u \in Urls /\ SearchForever(u)
  BY <1>2, <1>6 DEF SearchForever, Completes, server
<1>7. CASE ServerCall
  <2> DEFINE i == Head(sq)
  <2>1. UNCHANGED client /\ (Silent(i) \/ Ended(i) \/ Gather(i, ongoing[i].got \o OfKind(sin[i], "req")))
    BY <1>7, ServerCallFacts
  <2> HIDE DEF i
  <2> DEFINE got == ongoing[i].got \o OfKind(sin[i], "req")
  <2> HIDE DEF got
  <2>2. sw'.pc = "closed" => sw'.id \in Ids
    <3>1. CASE Silent(i)
      BY <3>1 DEF Silent
    <3>2. CASE Ended(i)
      BY <3>2 DEF Ended
    <3>3. CASE Gather(i, got)
      BY <3>3 DEF Gather
    <3> QED
      BY <2>1, <3>1, <3>2, <3>3 DEF got
  <2> QED
    BY <1>2, <2>1, <2>2 DEF Completes, client
<1>8. CASE ServerReturn
  BY <1>2, <1>8 DEF ServerReturn, Completes, client, Idle
<1>9. CASE UNCHANGED <<msg, delivered, cw, sw>>
  BY <1>2, <1>9 DEF Completes
<1>10. ASSUME u \in Urls, UrlSteps(u), ~Submit(u), ~SearchForever(u) PROVE UNCHANGED <<msg, delivered, cw, sw>>
  BY <1>10 DEF UrlSteps, getOutstandingRequest, ClientEnd, ClientPlan, ClientReceive,
              ClientClose, ServerReceive, start_response, ServerSend, client, server
<1>11. ASSUME PlainSteps, ~ClientCall, ~ClientReturn, ~ServerCall, ~ServerReturn
       PROVE  UNCHANGED <<msg, delivered, cw, sw>>
  BY <1>11 DEF PlainSteps, hasOutstandingRequest, RequestGone,
               lock_outgoing_chunks, pushIncomingChunk, client, server
<1> QED
  BY <1>3, <1>4, <1>5, <1>6, <1>7, <1>8, <1>9, <1>10, <1>11 DEF Steps

-------------------------------------------------------------------------------
(* Steps of the client's I/O thread. *)

(* What getOutstandingRequest does. *)
LEMMA OpenFacts ==
  ASSUME Inv, NEW u \in Urls, getOutstandingRequest(u)
  PROVE  /\ cio.pc = "open" /\ cio' = Idle /\ ~http[u].open
         /\ \E i \in Ids : paths[i] = u /\ cout[i] # <<>>
         /\ http' = [http EXCEPT ![u] = [NoStream EXCEPT !.open = TRUE, !.upFin = u \in StaticUrls]]
         /\ UNCHANGED <<calls, nextId, paths, msg, delivered, cq, cin, cw, server>>
         /\ u \notin StaticUrls => cout' = cout
         /\ u \in StaticUrls =>
              /\ StaticIdOf(u) \in Ids /\ paths[StaticIdOf(u)] = u
              /\ cout' = [cout EXCEPT ![StaticIdOf(u)] = Kept(@, {c \in Chunks : c.kind # "hold"})]
<1>1. /\ cio.pc = "open" /\ cio' = Idle /\ u \in Outstanding
      /\ http' = [http EXCEPT ![u] = [NoStream EXCEPT !.open = TRUE, !.upFin = u \in StaticUrls]]
      /\ cout' = IF u \in StaticUrls THEN clearStaticRequest(u) ELSE cout
      /\ UNCHANGED <<calls, nextId, paths, msg, delivered, cq, cin, cw, server>>
  BY DEF getOutstandingRequest
<1>2. DOMAIN cout = Ids
  BY DEF Inv, Types, ClientTypes
<1>3. ~http[u].open /\ \E i \in Ids : paths[i] = u /\ cout[i] # <<>>
  BY <1>1, <1>2 DEF Outstanding, Waiting
<1>4. StaticIdOf(u) \in Ids /\ paths[StaticIdOf(u)] = u
  BY <1>3, StaticIdExists
<1> QED
  BY <1>1, <1>3, <1>4 DEF clearStaticRequest

(* The logical stream a chunk of an answer goes to. *)
ReceiverOf(u) == IF u \in StaticUrls THEN StaticIdOf(u) ELSE Head(http[u].down).id

(* What ClientReceive does. *)
LEMMA ReceiveFacts ==
  ASSUME Inv, NEW u \in Urls, ClientReceive(u)
  PROVE  /\ http[u].open /\ cio = Idle /\ Head(http[u].down) \in Chunks /\ Head(http[u].down) \in DownLane(u)
         /\ http[u].down # <<>> /\ http[u].down = <<Head(http[u].down)>> \o Tail(http[u].down)
         /\ Tail(http[u].down) \in Seq(DownLane(u)) /\ Tail(http[u].down) \in Seq(Chunks)
         /\ ReceiverOf(u) \in Ids /\ paths[ReceiverOf(u)] = u
         /\ cin'[ReceiverOf(u)] = Append(cin[ReceiverOf(u)], Head(http[u].down))
         /\ \A k \in Ids : k # ReceiverOf(u) => cin'[k] = cin[k]
         /\ http' = [http EXCEPT ![u].down = Tail(@)]
         /\ UNCHANGED <<calls, nextId, paths, msg, delivered, cq, cout, cw, cio, server>>
<1> DEFINE c == Head(http[u].down)
           i == ReceiverOf(u)
<1>0. i = IF u \in StaticUrls THEN StaticIdOf(u) ELSE c.id
  BY DEF ReceiverOf
<1> HIDE DEF i
<1>1. /\ http[u].open /\ cio = Idle /\ http[u].down # <<>>
      /\ cin' = [cin EXCEPT ![i] = Append(@, c)]
      /\ http' = [http EXCEPT ![u].down = Tail(@)]
      /\ UNCHANGED <<calls, nextId, paths, msg, delivered, cq, cout, cw, cio, server>>
  BY <1>0 DEF ClientReceive
<1>2. http[u].down \in Seq(DownLane(u)) /\ DownLane(u) \subseteq Chunks
  BY DEF Inv, Lanes, DownLane
<1>3. http[u].down = <<c>> \o Tail(http[u].down) /\ c \in DownLane(u) /\ Tail(http[u].down) \in Seq(DownLane(u))
  BY <1>1, <1>2, HeadThenTail
<1>4. c \in Chunks /\ Tail(http[u].down) \in Seq(Chunks)
  BY <1>2, <1>3, SeqMonotonic
<1>a. cin \in [Ids -> Seq(Chunks)]
  BY DEF Inv, Types, ClientTypes
<1>7. ASSUME i \in Ids PROVE cin'[i] = Append(cin[i], c) /\ \A k \in Ids : k # i => cin'[k] = cin[k]
  BY <1>1, <1>7, <1>a
<1>5. CASE u \in StaticUrls
  <2>1. \E k \in Ids : paths[k] = u
    BY <1>1 DEF Inv, Flags
  <2> QED
    BY <1>1, <1>3, <1>4, <1>5, <1>7, <1>0, <2>1, StaticIdExists DEF i
<1>6. CASE u \notin StaticUrls
  <2>1. i \in AllIds /\ spaths[i] = u /\ u # NoUrl
    BY <1>0, <1>3, <1>6, Numbers DEF DownLane
  <2>2. i \notin StaticIds
    BY <1>6, <2>1 DEF Inv, Known
  <2>3. i \in Ids
    BY <2>1, <2>2, Numbers
  <2>4. paths[i] = u
    BY <2>1, <2>3 DEF Inv, Known
  <2> QED
    BY <1>1, <1>3, <1>4, <1>7, <2>3, <2>4 DEF i
<1> QED
  BY <1>5, <1>6

(* What ClientClose does. *)
LEMMA CloseFacts ==
  ASSUME Inv, NEW u \in Urls, ClientClose(u)
  PROVE  /\ http[u].open /\ cio = Idle /\ http[u].downFin /\ http[u].down = <<>>
         /\ http[u].started /\ http[u].upFin /\ http[u].up = <<>>
         /\ http' = [http EXCEPT ![u] = NoStream]
         /\ UNCHANGED <<calls, nextId, paths, msg, delivered, cq, cout, cw, cio, server>>
         /\ u \notin StaticUrls => cin' = cin
         /\ u \in StaticUrls => /\ StaticIdOf(u) \in Ids /\ paths[StaticIdOf(u)] = u
                                /\ cin' = [cin EXCEPT ![StaticIdOf(u)] = @ \o Close(0)]
<1>1. /\ http[u].open /\ cio = Idle /\ http[u].downFin /\ http[u].down = <<>>
      /\ http' = [http EXCEPT ![u] = NoStream]
      /\ UNCHANGED <<calls, nextId, paths, msg, delivered, cq, cout, cw, cio, server>>
      /\ u \notin StaticUrls => cin' = cin
      /\ u \in StaticUrls => cin' = [cin EXCEPT ![StaticIdOf(u)] = @ \o Close(0)]
  BY DEF ClientClose
<1>2. http[u].started /\ http[u].upFin /\ http[u].up = <<>> /\ \E k \in Ids : paths[k] = u
  BY <1>1 DEF Inv, Flags
<1> QED
  BY <1>1, <1>2, StaticIdExists

(* What identifies a stream never changes again. *)
LEMMA Grows ==
  ASSUME Inv, NEW u, Steps(u)
  PROVE  /\ \A i \in Ids : paths[i] # NoUrl => paths'[i] = paths[i]
         /\ \A j \in AllIds : spaths[j] # NoUrl => spaths'[j] = spaths[j]
         /\ snext' >= snext
<1>1. paths \in [Ids -> Urls \cup {NoUrl}] /\ spaths \in [AllIds -> Urls \cup {NoUrl}] /\ snext \in Nat
  BY DEF Inv, Types, ClientTypes, ServerTypes
<1>2. CASE u \in Urls /\ Submit(u)
  <2> DEFINE i == getNewRequestStreamIdentifier(u)
  <2>1. /\ snext' = snext /\ spaths' = spaths
        /\ paths' = paths \/ (paths[i] = NoUrl /\ paths' = [paths EXCEPT ![i] = u])
    BY <1>2, SubmitFacts, Zenon DEF server
  <2> HIDE DEF i
  <2> QED
    BY <1>1, <2>1
<1>3. CASE pushIncomingChunk
  <2> DEFINE c == sio.chunk
             i == c.id
  <2>1. /\ snext' = snext /\ paths' = paths /\ i \in Ids /\ i \in AllIds
        /\ spaths' = spaths \/ spaths' = [spaths EXCEPT ![i] = paths[i]]
    BY <1>3, PushFacts, Zenon DEF client
  <2>2. spaths[i] # NoUrl => spaths[i] = paths[i]
    BY <2>1 DEF Inv, Known
  <2> HIDE DEF i
  <2> QED
    BY <1>1, <2>1, <2>2
<1>4. CASE u \in Urls /\ start_response(u)
  <2>1. /\ paths' = paths
        /\ u \notin StaticUrls => snext' = snext /\ spaths' = spaths
        /\ u \in StaticUrls => snext \in StaticIds /\ snext' = snext + 1 /\ spaths' = [spaths EXCEPT ![snext] = u]
    BY <1>4, StartFacts DEF client
  <2>2. snext \in StaticIds => spaths[snext] = NoUrl
    BY <1>1 DEF Inv, Known
  <2> QED
    BY <1>1, <2>1, <2>2
<1>5. CASE UNCHANGED <<paths, spaths, snext>>
  BY <1>1, <1>5
<1>6. ASSUME u \in Urls, UrlSteps(u), ~Submit(u), ~start_response(u) PROVE UNCHANGED <<paths, spaths, snext>>
  BY <1>6 DEF UrlSteps, SearchForever, getOutstandingRequest, ClientEnd, ClientPlan, ClientReceive,
              ClientClose, ServerReceive, ServerSend, client, server
<1>7. ASSUME PlainSteps, ~pushIncomingChunk PROVE UNCHANGED <<paths, spaths, snext>>
  BY <1>7 DEF PlainSteps, ClientCall, ClientReturn, hasOutstandingRequest, RequestGone,
              lock_outgoing_chunks, ServerCall, ServerReturn, client, server
<1> QED
  BY <1>2, <1>3, <1>4, <1>5, <1>6, <1>7 DEF Steps

-------------------------------------------------------------------------------
(* Only streams that were given out are touched. *)

(* Nothing happens on a stream before its identifier is given out. *)
LEMMA UnusedStep ==
  ASSUME Inv, NEW u, Steps(u), NEW k \in Ids, paths'[k] = NoUrl
  PROVE  Unused(k)'
<1>1. /\ msg \in [Ids -> ClientMessages] /\ delivered \in [Ids -> Seq(Seq(Chunks))]
      /\ cin \in [Ids -> Seq(Chunks)] /\ cout \in [Ids -> Seq(Chunks)]
      /\ sin \in [AllIds -> Seq(Chunks)] /\ sout \in [AllIds -> Seq(Chunks)]
      /\ ongoing \in [AllIds -> Responses] /\ execs \in [AllIds -> Nat]
      /\ paths \in [Ids -> Urls \cup {NoUrl}] /\ NoUrl \notin Urls /\ k \in AllIds
  BY Numbers DEF Inv, Types, ClientTypes, ServerTypes
<1>2. paths[k] = NoUrl
  BY Grows
<1>3. Unused(k)
  BY <1>2 DEF Inv, Known
<1>4. SUFFICES /\ msg'[k] = msg[k] /\ delivered'[k] = delivered[k] /\ cin'[k] = cin[k] /\ cout'[k] = cout[k]
               /\ sin'[k] = sin[k] /\ sout'[k] = sout[k] /\ ongoing'[k] = ongoing[k] /\ execs'[k] = execs[k]
  BY <1>3 DEF Unused
<1>5. CASE u \in Urls /\ Submit(u)
  <2> DEFINE i == getNewRequestStreamIdentifier(u)
             first == IF u \in StaticUrls THEN Placeholder(i) ELSE RequestOf(i)
  <2>1. i \in Ids /\ UNCHANGED <<delivered, cin, cout, server>>
    BY <1>5, SubmitFacts
  <2>2. \/ paths' = [paths EXCEPT ![i] = u] /\ msg' = [msg EXCEPT ![i].out = first]
        \/ paths' = paths /\ msg' = msg
    BY <1>5, SubmitFacts
  <2> HIDE DEF i, first
  <2>3. paths' = [paths EXCEPT ![i] = u] => k # i
    BY <1>1, <1>5, <2>1
  <2>4. msg'[k] = msg[k]
    BY <1>1, <2>1, <2>2, <2>3
  <2> QED
    BY <2>1, <2>4 DEF server
<1>6. CASE ClientCall
  <2> DEFINE i == Head(cq)
             m == Received(msg[i], cin[i], IsStatic(i))
             done == [m EXCEPT !.got = <<>>, !.finished = TRUE]
  <2>1. i \in Ids /\ i \in Used /\ cin' = [cin EXCEPT ![i] = <<>>] /\ UNCHANGED <<cout, server>>
    BY <1>6, ClientCallFacts
  <2>2. /\ msg' = [msg EXCEPT ![i] = IF m.complete THEN done ELSE m]
        /\ delivered' = IF m.complete THEN [delivered EXCEPT ![i] = Append(@, m.got)] ELSE delivered
    BY <1>6, ClientCallFacts, Zenon
  <2>3. k # i
    BY <1>2, <2>1 DEF Used
  <2> HIDE DEF i, m, done
  <2> QED
    BY <1>1, <2>1, <2>2, <2>3 DEF server
<1>7. CASE ClientReturn
  <2> DEFINE i == cw.id
  <2>1. /\ i \in Ids /\ i \in Used
        /\ \/ cin' = [cin EXCEPT ![i] = <<>>] /\ cout' = [cout EXCEPT ![i] = <<>>]
           \/ cin' = cin /\ cout' = [cout EXCEPT ![i] = @ \o cw.out]
        /\ UNCHANGED <<msg, delivered, server>>
    BY <1>7, ClientReturnFacts
  <2>2. k # i
    BY <1>2, <2>1 DEF Used
  <2> HIDE DEF i
  <2> QED
    BY <1>1, <2>1, <2>2 DEF server
<1>8. CASE u \in Urls /\ getOutstandingRequest(u)
  <2> DEFINE i == StaticIdOf(u)
  <2>1. /\ \/ cout' = cout
           \/ i \in Ids /\ paths[i] = u /\ cout' = [cout EXCEPT ![i] = Kept(@, {c \in Chunks : c.kind # "hold"})]
        /\ UNCHANGED <<msg, delivered, cin, server>>
    BY <1>8, OpenFacts
  <2> HIDE DEF i
  <2>2. cout'[k] = cout[k]
    BY <1>1, <1>2, <1>8, <2>1
  <2> QED
    BY <2>1, <2>2 DEF server
<1>9. CASE lock_outgoing_chunks
  <2> DEFINE v == cio.url
  <2>1. /\ v \in Urls /\ UNCHANGED <<msg, delivered, cin, server>>
        /\ cout' = cout \/ \A i \in Ids : paths[i] # v => cout'[i] = cout[i]
    BY <1>9, LockFacts
  <2>2. cout'[k] = cout[k]
    BY <1>1, <1>2, <2>1
  <2> QED
    BY <2>1, <2>2 DEF server
<1>10. CASE u \in Urls /\ ClientReceive(u)
  <2> DEFINE i == ReceiverOf(u)
  <2>1. /\ paths[i] = u /\ \A j \in Ids : j # i => cin'[j] = cin[j]
        /\ UNCHANGED <<msg, delivered, cout, server>>
    BY <1>10, ReceiveFacts
  <2> HIDE DEF i
  <2> QED
    BY <1>1, <1>2, <1>10, <2>1 DEF server
<1>11. CASE u \in Urls /\ ClientClose(u)
  <2> DEFINE i == StaticIdOf(u)
  <2>1. /\ \/ cin' = cin
           \/ i \in Ids /\ paths[i] = u /\ cin' = [cin EXCEPT ![i] = @ \o Close(0)]
        /\ UNCHANGED <<msg, delivered, cout, server>>
    BY <1>11, CloseFacts
  <2> HIDE DEF i
  <2>2. cin'[k] = cin[k]
    BY <1>1, <1>2, <1>11, <2>1
  <2> QED
    BY <2>1, <2>2 DEF server
<1>12. CASE pushIncomingChunk
  <2> DEFINE c == sio.chunk
             i == c.id
  <2>1. /\ i \in Ids /\ i \in Used /\ sin' = [sin EXCEPT ![i] = Append(@, c)]
        /\ UNCHANGED <<client, sout, ongoing, execs>>
    BY <1>12, PushFacts
  <2>2. k # i
    BY <1>2, <2>1 DEF Used
  <2> HIDE DEF i, c
  <2> QED
    BY <1>1, <2>1, <2>2 DEF client
<1>13. CASE u \in Urls /\ start_response(u)
  <2> DEFINE i == StaticIdOf(u)
  <2>1. /\ UNCHANGED <<client, sin, ongoing>>
        /\ \/ UNCHANGED <<sout, execs>>
           \/ /\ i \in Ids /\ paths[i] = u /\ snext \notin Ids
              /\ sout' = [sout EXCEPT ![snext] = AnswerOf(snext)] /\ execs' = [execs EXCEPT ![i] = 1]
    BY <1>13, StartFacts
  <2> HIDE DEF i
  <2>2. sout'[k] = sout[k] /\ execs'[k] = execs[k]
    BY <1>1, <1>2, <1>13, <2>1
  <2> QED
    BY <2>1, <2>2 DEF client
<1>14. CASE u \in Urls /\ ServerSend(u)
  <2>1. /\ UNCHANGED <<client, sin, ongoing, execs>>
        /\ sout' = sout \/ \A j \in AllIds : spaths[j] # u => sout'[j] = sout[j]
    BY <1>14, SendFacts
  <2>2. spaths[k] # u
    BY <1>1, <1>2, <1>14 DEF Inv, Known
  <2>3. sout'[k] = sout[k]
    BY <1>1, <2>1, <2>2
  <2> QED
    BY <2>1, <2>3 DEF client
<1>15. CASE ServerCall
  <2> DEFINE i == Head(sq)
             got == ongoing[i].got \o OfKind(sin[i], "req")
  <2>1. /\ i \in AllIds /\ (i \in Ids => Routed(i)) /\ sin' = [sin EXCEPT ![i] = <<>>] /\ UNCHANGED client
        /\ Silent(i) \/ Ended(i) \/ Gather(i, got)
    BY <1>15, ServerCallFacts
  <2>2. k # i
    BY <1>1, <1>2, <2>1 DEF Routed
  <2> HIDE DEF i, got
  <2>3. sout'[k] = sout[k] /\ execs'[k] = execs[k] /\ ongoing'[k] = ongoing[k]
    <3>1. CASE Silent(i)
      BY <1>1, <2>1, <2>2, <3>1 DEF Silent
    <3>2. CASE Ended(i)
      BY <1>1, <2>1, <2>2, <3>2 DEF Ended
    <3>3. CASE Gather(i, got)
      BY <1>1, <2>1, <2>2, <3>3 DEF Gather
    <3> QED
      BY <2>1, <3>1, <3>2, <3>3
  <2> QED
    BY <1>1, <2>1, <2>2, <2>3 DEF client
<1>16. CASE ServerReturn
  <2>1. /\ UNCHANGED <<client, ongoing, execs>>
        /\ \/ sin' = sin /\ sout' = sout
           \/ sw.pc = "closed" /\ sin' = [sin EXCEPT ![sw.id] = <<>>] /\ sout' = [sout EXCEPT ![sw.id] = <<>>]
    BY <1>16 DEF ServerReturn
  <2>2. sin'[k] = sin[k] /\ sout'[k] = sout[k]
    <3>1. sin[k] = <<>> /\ sout[k] = <<>>
      BY <1>3 DEF Unused
    <3> QED
      BY <1>1, <2>1, <3>1
  <2> QED
    BY <2>1, <2>2 DEF client
<1>17. CASE UNCHANGED <<msg, delivered, cin, cout, sin, sout, ongoing, execs>>
  BY <1>17
<1>18. ASSUME u \in Urls, UrlSteps(u), ~Submit(u), ~getOutstandingRequest(u), ~ClientReceive(u),
              ~ClientClose(u), ~start_response(u), ~ServerSend(u)
       PROVE  UNCHANGED <<msg, delivered, cin, cout, sin, sout, ongoing, execs>>
  BY <1>18 DEF UrlSteps, SearchForever, ClientEnd, ClientPlan, ServerReceive, client, server
<1>19. ASSUME PlainSteps, ~ClientCall, ~ClientReturn, ~lock_outgoing_chunks, ~pushIncomingChunk,
              ~ServerCall, ~ServerReturn
       PROVE  UNCHANGED <<msg, delivered, cin, cout, sin, sout, ongoing, execs>>
  BY <1>19 DEF PlainSteps, hasOutstandingRequest, RequestGone, client, server
<1> QED
  BY <1>5, <1>6, <1>7, <1>8, <1>9, <1>10, <1>11, <1>12, <1>13, <1>14, <1>15, <1>16, <1>17, <1>18, <1>19 DEF Steps

(* Every identifier in use was given out. *)
LEMMA KnownStep == ASSUME Inv, NEW u, Steps(u) PROVE Known'
<1>1. Types /\ Known
  BY DEF Inv
<1>2. /\ cq \in Seq(Used) /\ (cw.pc = "called" => cw.id \in Used)
      /\ sq \in Seq(Opened) /\ (sw # Idle => sw.id \in Opened)
      /\ \A i \in Ids : spaths[i] # NoUrl => spaths[i] = paths[i] /\ spaths[i] \notin StaticUrls
      /\ \A x \in StaticIds : spaths[x] # NoUrl => 
           spaths[x] \in StaticUrls /\ x < snext /\ \E i \in Ids : paths[i] = spaths[x]
  BY <1>1 DEF Known
<1>3. /\ paths \in [Ids -> Urls \cup {NoUrl}] /\ spaths \in [AllIds -> Urls \cup {NoUrl}] /\ snext \in Nat
      /\ cq \in Seq(Ids) /\ sq \in Seq(AllIds)
  BY <1>1 DEF Types, ClientTypes, ServerTypes
<1>4. /\ \A i \in Ids : paths[i] # NoUrl => paths'[i] = paths[i]
      /\ \A j \in AllIds : spaths[j] # NoUrl => spaths'[j] = spaths[j]
      /\ snext' >= snext
  BY Grows
<1>5. Types'
  BY TypesStep
<1>6. Used \subseteq Used' /\ Opened \subseteq Opened'
  BY <1>4 DEF Used, Opened
<1>7. cq \in Seq(Used') /\ sq \in Seq(Opened')
  BY <1>2, <1>6, SeqMonotonic
<1>8. cq' \in Seq(Used') /\ (cw'.pc = "called" => cw'.id \in Used')
  <2>1. CASE u \in Urls /\ Submit(u)
    <3> DEFINE i == getNewRequestStreamIdentifier(u)
    <3>1. /\ i \in Ids /\ cw' = Idle /\ cq' = Append(cq, i)
          /\ paths' = [paths EXCEPT ![i] = u] \/ (paths' = paths /\ paths[i] = u)
      BY <2>1, SubmitFacts
    <3> HIDE DEF i
    <3>2. i \in Used'
      BY <1>3, <2>1, <3>1, Numbers DEF Used
    <3> QED
      BY <1>7, <3>1, <3>2, AppendProperties DEF Idle
  <2>2. CASE ClientCall
    <3> DEFINE i == Head(cq)
    <3>1. i \in Used /\ cw'.id = i /\ cq' = Tail(cq) /\ cq # <<>>
      BY <2>2, ClientCallFacts, Zenon
    <3>2. Tail(cq) \in Seq(Used')
      BY <1>7, <3>1, HeadThenTail
    <3> QED
      BY <1>6, <3>1, <3>2
  <2>3. CASE ClientReturn
    <3> DEFINE i == cw.id
    <3>1. i \in Used /\ cw' = Idle /\ (cq' = cq \/ cq' = Append(cq, i))
      BY <2>3, ClientReturnFacts
    <3> HIDE DEF i
    <3>2. Append(cq, i) \in Seq(Used')
      BY <1>6, <1>7, <3>1, AppendProperties
    <3> QED
      BY <1>7, <3>1, <3>2 DEF Idle
  <2>4. CASE u \in Urls /\ SearchForever(u)
    BY <1>7, <2>4 DEF SearchForever
  <2>5. CASE UNCHANGED <<cq, cw>>
    BY <1>2, <1>6, <1>7, <2>5
  <2>6. ASSUME u \in Urls, UrlSteps(u), ~Submit(u), ~SearchForever(u) PROVE UNCHANGED <<cq, cw>>
    BY <2>6 DEF UrlSteps, getOutstandingRequest, ClientEnd, ClientPlan, ClientReceive,
                ClientClose, ServerReceive, start_response, ServerSend, client
  <2>7. ASSUME PlainSteps, ~ClientCall, ~ClientReturn PROVE UNCHANGED <<cq, cw>>
    BY <2>7 DEF PlainSteps, hasOutstandingRequest, RequestGone,
                lock_outgoing_chunks, pushIncomingChunk, ServerCall, ServerReturn, client
  <2> QED
    BY <2>1, <2>2, <2>3, <2>4, <2>5, <2>6, <2>7 DEF Steps
<1>9. /\ sq' \in Seq(Opened') /\ (sw' # Idle => sw'.id \in Opened')
      /\ \A i \in Ids : spaths'[i] # NoUrl => spaths'[i] = paths'[i] /\ spaths'[i] \notin StaticUrls
      /\ \A x \in StaticIds : spaths'[x] # NoUrl => 
           spaths'[x] \in StaticUrls /\ x < snext' /\ \E i \in Ids : paths'[i] = spaths'[x]
  <2>1. ASSUME spaths' = spaths
        PROVE  /\ \A i \in Ids : spaths'[i] # NoUrl => spaths'[i] = paths'[i] /\ spaths'[i] \notin StaticUrls
               /\ \A x \in StaticIds : spaths'[x] # NoUrl => 
                    spaths'[x] \in StaticUrls /\ x < snext' /\ \E i \in Ids : paths'[i] = spaths'[x]
    <3>1. snext' \in Nat
      BY <1>5 DEF Types, ServerTypes
    <3>2. ASSUME NEW x \in StaticIds, spaths'[x] # NoUrl
          PROVE  spaths'[x] \in StaticUrls /\ x < snext' /\ \E i \in Ids : paths'[i] = spaths'[x]
      <4>1. spaths[x] \in StaticUrls /\ x < snext /\ \E i \in Ids : paths[i] = spaths[x]
        BY <1>2, <2>1, <3>2
      <4>2. x \in Nat
        BY Numbers
      <4> QED
        BY <1>3, <1>4, <2>1, <3>1, <3>2, <4>1, <4>2
    <3> QED
      BY <1>2, <1>4, <2>1, <3>2
  <2>2. CASE pushIncomingChunk
    <3> DEFINE c == sio.chunk
               i == c.id
    <3>1. /\ i \in Ids /\ i \in AllIds /\ Routed(i) /\ UNCHANGED <<client, snext, sw>>
          /\ \/ sq' = sq /\ spaths' = spaths
             \/ sq' = Append(sq, i) /\ spaths' = [spaths EXCEPT ![i] = paths[i]]
      BY <2>2, PushFacts
    <3> HIDE DEF i
    <3>2. CASE sq' = sq /\ spaths' = spaths
      BY <1>2, <1>6, <1>7, <2>1, <3>1, <3>2
    <3>3. CASE sq' = Append(sq, i) /\ spaths' = [spaths EXCEPT ![i] = paths[i]]
      <4>1. i \in Opened' /\ paths' = paths
        BY <1>3, <3>1, <3>3, Numbers DEF Opened, Routed, client
      <4>2. sq' \in Seq(Opened')
        BY <1>7, <3>3, <4>1, AppendProperties
      <4>3. \A x \in StaticIds : spaths'[x] = spaths[x]
        BY <1>3, <3>1, <3>3, Numbers
      <4>4. \A j \in Ids : spaths'[j] # NoUrl => spaths'[j] = paths'[j] /\ spaths'[j] \notin StaticUrls
        BY <1>2, <1>3, <3>1, <3>3, <4>1, Numbers DEF Routed
      <4>5. sw' # Idle => sw'.id \in Opened'
        BY <1>2, <1>6, <3>1
      <4> QED
        BY <1>2, <3>1, <4>1, <4>2, <4>3, <4>4, <4>5
    <3> QED
      BY <3>1, <3>2, <3>3
  <2>3. CASE u \in Urls /\ start_response(u) /\ u \in StaticUrls
    <3>1. /\ StaticIdOf(u) \in Ids /\ paths[StaticIdOf(u)] = u
          /\ snext \in Nat /\ snext \in AllIds /\ snext \notin Ids
          /\ snext' = snext + 1
          /\ sq' = Append(sq, snext) /\ spaths' = [spaths EXCEPT ![snext] = u]
          /\ UNCHANGED <<client, sw>>
      BY <2>3, StartFacts
    <3>2. snext \in Opened' /\ paths' = paths
      BY <1>3, <2>3, <3>1, Numbers DEF Opened, client
    <3>3. sq' \in Seq(Opened')
      BY <1>7, <3>1, <3>2, AppendProperties
    <3>4. \A j \in Ids : spaths'[j] = spaths[j]
      BY <1>3, <3>1, Numbers
    <3>5. ASSUME NEW x \in StaticIds, spaths'[x] # NoUrl
          PROVE  spaths'[x] \in StaticUrls /\ x < snext' /\ \E i \in Ids : paths'[i] = spaths'[x]
      <4>1. x \in AllIds /\ x \in Nat
        BY Numbers
      <4>2. CASE x = snext
        BY <1>3, <2>3, <3>1, <3>2, <4>1, <4>2
      <4>3. CASE x # snext
        <5>1. spaths'[x] = spaths[x]
          BY <1>3, <3>1, <4>1, <4>3
        <5>2. spaths[x] \in StaticUrls /\ x < snext /\ \E i \in Ids : paths[i] = spaths[x]
          BY <1>2, <3>5, <5>1
        <5> QED
          BY <3>1, <3>2, <4>1, <5>1, <5>2
      <4> QED
        BY <4>2, <4>3
    <3>6. sw' # Idle => sw'.id \in Opened'
      BY <1>2, <1>6, <3>1
    <3> QED
      BY <1>2, <3>2, <3>3, <3>4, <3>5, <3>6
  <2>4. CASE ServerCall
    <3> DEFINE i == Head(sq)
               got == ongoing[i].got \o OfKind(sin[i], "req")
    <3>1. /\ i \in Opened /\ sq' = Tail(sq) /\ sq # <<>> /\ UNCHANGED spaths
          /\ Silent(i) \/ Ended(i) \/ Gather(i, got)
      BY <2>4, ServerCallFacts
    <3> HIDE DEF i, got
    <3>2. Tail(sq) \in Seq(Opened')
      BY <1>7, <3>1, HeadThenTail
    <3>3. sw'.id = i
      BY <3>1 DEF Silent, Ended, Gather
    <3> QED
      BY <1>6, <2>1, <3>1, <3>2, <3>3
  <2>5. CASE ServerReturn
    <3>1. sw' = Idle /\ spaths' = spaths /\ sw # Idle /\ (sq' = sq \/ sq' = Append(sq, sw.id))
      BY <2>5 DEF ServerReturn, Idle
    <3>2. sw.id \in Opened'
      BY <1>2, <1>6, <3>1
    <3>3. Append(sq, sw.id) \in Seq(Opened')
      BY <1>7, <3>2, AppendProperties
    <3> QED
      BY <1>7, <2>1, <3>1, <3>3
  <2>6. CASE UNCHANGED <<sq, sw, spaths>>
    BY <1>2, <1>6, <1>7, <2>1, <2>6
  <2>7. ASSUME u \in Urls, UrlSteps(u), ~(start_response(u) /\ u \in StaticUrls) PROVE UNCHANGED <<sq, sw, spaths>>
    BY <2>7 DEF UrlSteps, Submit, SearchForever, getOutstandingRequest, ClientEnd, ClientPlan, ClientReceive,
                ClientClose, ServerReceive, start_response, ServerSend, server
  <2>8. ASSUME PlainSteps, ~pushIncomingChunk, ~ServerCall, ~ServerReturn PROVE UNCHANGED <<sq, sw, spaths>>
    BY <2>8 DEF PlainSteps, ClientCall, ClientReturn, hasOutstandingRequest, RequestGone,
                lock_outgoing_chunks, server
  <2> QED
    BY <2>2, <2>3, <2>4, <2>5, <2>6, <2>7, <2>8 DEF Steps
<1>10. \A k \in Ids : paths'[k] = NoUrl => Unused(k)'
  BY UnusedStep
<1> QED
  BY <1>8, <1>9, <1>10 DEF Known

-------------------------------------------------------------------------------
(* Every chunk keeps to the queues of its stream. *)

(* The queues that the client sends from hold chunks of their own stream, *)
LEMMA LanesClient ==
  ASSUME Inv, NEW u, Steps(u)
  PROVE  /\ \A i \in Ids : msg'[i].out \in Seq(Lane(i)) /\ cout'[i] \in Seq(Lane(i))
         /\ cw'.pc = "called" => cw'.out \in Seq(Lane(cw'.id))
<1>1. /\ msg \in [Ids -> ClientMessages] /\ cout \in [Ids -> Seq(Chunks)]
      /\ \A i \in Ids : msg[i].out \in Seq(Lane(i)) /\ cout[i] \in Seq(Lane(i))
      /\ cw.pc = "called" => cw.out \in Seq(Lane(cw.id))
  BY DEF Inv, Types, ClientTypes, Lanes
<1>2. CASE u \in Urls /\ Submit(u)
  <2> DEFINE i == getNewRequestStreamIdentifier(u)
             first == IF u \in StaticUrls THEN Placeholder(i) ELSE RequestOf(i)
  <2>1. i \in Ids /\ i \in Nat /\ cw' = Idle /\ cout' = cout
    BY <1>2, SubmitFacts
  <2>2. msg' = msg \/ msg' = [msg EXCEPT ![i].out = first]
    BY <1>2, SubmitFacts
  <2>3. first \in Seq(Lane(i))
    BY <2>1, SignalTypes, MessageTypes, LaneSeq
  <2> HIDE DEF i, first
  <2>4. \A k \in Ids : msg'[k].out \in Seq(Lane(k))
    BY <1>1, <2>1, <2>2, <2>3 DEF ClientMessages
  <2> QED
    BY <1>1, <2>1, <2>4 DEF Idle
<1>3. CASE ClientCall
  <2> DEFINE i == Head(cq)
             m == Received(msg[i], cin[i], IsStatic(i))
             done == [m EXCEPT !.got = <<>>, !.finished = TRUE]
             o == IF NeedsBeat(i, cin[i], m) THEN Beat(i)
                  ELSE msg[i].out \o (IF m.complete THEN Close(i) ELSE <<>>)
  <2>1. i \in Ids /\ cout' = cout
    BY <1>3, ClientCallFacts
  <2>2. m \in ClientMessages /\ m.out = <<>>
    BY <1>3, ClientCallFacts
  <2>3. /\ msg' = [msg EXCEPT ![i] = IF m.complete THEN done ELSE m]
        /\ cw' = [pc |-> "called", id |-> i, out |-> o]
    BY <1>3, ClientCallFacts, Zenon
  <2>4. o \in Seq(Lane(i))
    <3>1. i \in Nat /\ <<>> \in Seq(Lane(i)) /\ msg[i].out \in Seq(Lane(i))
      BY <1>1, <2>1, Numbers, EmptySeq
    <3>2. Beat(i) \in Seq(Lane(i)) /\ Close(i) \in Seq(Lane(i))
      BY <3>1, SignalTypes, LaneSeq
    <3>3. msg[i].out \o Close(i) \in Seq(Lane(i)) /\ msg[i].out \o <<>> \in Seq(Lane(i))
      BY <3>1, <3>2, ConcatProperties
    <3> QED
      BY <3>2, <3>3
  <2> HIDE DEF i, m, o
  <2>5. done.out = <<>>
    BY <2>2 DEF ClientMessages
  <2> HIDE DEF done
  <2>6. \A k \in Ids : msg'[k].out \in Seq(Lane(k))
    <3>1. msg'[i].out = <<>>
      BY <1>1, <2>1, <2>2, <2>3, <2>5
    <3>2. \A k \in Ids : k # i => msg'[k] = msg[k]
      BY <1>1, <2>1, <2>3
    <3> QED
      BY <1>1, <3>1, <3>2, EmptySeq
  <2> QED
    BY <1>1, <2>1, <2>3, <2>4, <2>6
<1>4. CASE ClientReturn
  <2> DEFINE i == cw.id
             o == cw.out
  <2>1. /\ i \in Ids /\ cw' = Idle /\ msg' = msg /\ o \in Seq(Lane(i))
        /\ cout' = [cout EXCEPT ![i] = <<>>] \/ cout' = [cout EXCEPT ![i] = @ \o o]
    BY <1>1, <1>4, ClientReturnFacts
  <2> HIDE DEF i, o
  <2>2. cout[i] \o o \in Seq(Lane(i)) /\ <<>> \in Seq(Lane(i))
    BY <1>1, <2>1, ConcatProperties, EmptySeq
  <2>3. cout'[i] \in Seq(Lane(i)) /\ \A k \in Ids : k # i => cout'[k] = cout[k]
    BY <1>1, <2>1, <2>2
  <2> QED
    BY <1>1, <2>1, <2>3 DEF Idle
<1>5. CASE u \in Urls /\ getOutstandingRequest(u)
  <2> DEFINE i == StaticIdOf(u)
             T == {c \in Chunks : c.kind # "hold"}
  <2>1. /\ cw' = cw /\ msg' = msg
        /\ cout' = cout \/ (i \in Ids /\ cout' = [cout EXCEPT ![i] = Kept(@, T)])
    BY <1>5, OpenFacts
  <2> HIDE DEF i, T
  <2>2. \A k \in Ids : Kept(cout[k], T) \in Seq(Lane(k))
    BY <1>1, KeptType
  <2>3. \A k \in Ids : cout'[k] = cout[k] \/ cout'[k] = Kept(cout[k], T)
    BY <1>1, <2>1
  <2> QED
    BY <1>1, <2>1, <2>2, <2>3
<1>6. CASE lock_outgoing_chunks
  <2>1. cw' = cw /\ msg' = msg /\ (cout' = cout \/ \A i \in Ids : cout'[i] \in Seq(Lane(i)))
    BY <1>6, LockFacts
  <2> QED
    BY <1>1, <2>1
<1>7. CASE u \in Urls /\ SearchForever(u)
  BY <1>1, <1>7 DEF SearchForever
<1>8. CASE UNCHANGED <<msg, cout, cw>>
  BY <1>1, <1>8
<1>9. ASSUME u \in Urls, UrlSteps(u), ~Submit(u), ~SearchForever(u), ~getOutstandingRequest(u)
      PROVE  UNCHANGED <<msg, cout, cw>>
  BY <1>9 DEF UrlSteps, ClientEnd, ClientPlan, ClientReceive,
              ClientClose, ServerReceive, start_response, ServerSend, client
<1>10. ASSUME PlainSteps, ~ClientCall, ~ClientReturn, ~lock_outgoing_chunks PROVE UNCHANGED <<msg, cout, cw>>
  BY <1>10 DEF PlainSteps, hasOutstandingRequest, RequestGone, pushIncomingChunk, ServerCall, ServerReturn, client
<1> QED
  BY <1>2, <1>3, <1>4, <1>5, <1>6, <1>7, <1>8, <1>9, <1>10 DEF Steps

(* so do those of the server, *)
LEMMA LanesServer ==
  ASSUME Inv, NEW u, Steps(u)
  PROVE  \A j \in AllIds : sout'[j] \in Seq(Lane(j))
<1>1. sout \in [AllIds -> Seq(Chunks)] /\ \A j \in AllIds : sout[j] \in Seq(Lane(j)) /\ <<>> \in Seq(Lane(j))
  BY EmptySeq DEF Inv, Types, ServerTypes, Lanes
<1>2. \A j \in AllIds : AnswerOf(j) \in Seq(Lane(j))
  BY MessageTypes, LaneSeq, Numbers
<1>3. CASE u \in Urls /\ start_response(u)
  <2>1. sout' = sout \/ (snext \in AllIds /\ sout' = [sout EXCEPT ![snext] = AnswerOf(snext)])
    BY <1>3, StartFacts
  <2> QED
    BY <1>1, <1>2, <2>1
<1>4. CASE u \in Urls /\ ServerSend(u)
  <2>1. sout' = sout \/ \A j \in AllIds : sout'[j] \in Seq(Lane(j))
    BY <1>4, SendFacts
  <2> QED
    BY <1>1, <2>1
<1>5. CASE ServerCall
  <2> DEFINE i == Head(sq)
             got == ongoing[i].got \o OfKind(sin[i], "req")
  <2>1. i \in AllIds /\ (Silent(i) \/ Ended(i) \/ Gather(i, got))
    BY <1>5, ServerCallFacts
  <2> HIDE DEF i, got
  <2>2. sout' = sout \/ sout' = [sout EXCEPT ![i] = @ \o AnswerOf(i)]
    BY <2>1 DEF Silent, Ended, Gather
  <2>3. sout[i] \o AnswerOf(i) \in Seq(Lane(i))
    BY <1>1, <1>2, <2>1, ConcatProperties
  <2>4. sout'[i] \in Seq(Lane(i)) /\ \A k \in AllIds : k # i => sout'[k] = sout[k]
    BY <1>1, <2>1, <2>2, <2>3
  <2> QED
    BY <1>1, <2>4
<1>6. CASE ServerReturn
  <2>1. sout' = sout \/ sout' = [sout EXCEPT ![sw.id] = <<>>]
    BY <1>6 DEF ServerReturn
  <2> QED
    BY <1>1, <2>1
<1>7. CASE sout' = sout
  BY <1>1, <1>7
<1>8. ASSUME u \in Urls, UrlSteps(u), ~start_response(u), ~ServerSend(u) PROVE sout' = sout
  BY <1>8 DEF UrlSteps, Submit, SearchForever, getOutstandingRequest, ClientEnd, ClientPlan, ClientReceive,
              ClientClose, ServerReceive, server
<1>9. ASSUME PlainSteps, ~ServerCall, ~ServerReturn PROVE sout' = sout
  BY <1>9 DEF PlainSteps, ClientCall, ClientReturn, hasOutstandingRequest, RequestGone,
              lock_outgoing_chunks, pushIncomingChunk, server
<1> QED
  BY <1>3, <1>4, <1>5, <1>6, <1>7, <1>8, <1>9 DEF Steps

(* and the HTTP/3 stream of a URL carries chunks of that URL. *)
LEMMA LanesWire ==
  ASSUME Inv, NEW u, Steps(u)
  PROVE  \A v \in Urls : http'[v].up \in Seq(UpLane(v)') /\ http'[v].down \in Seq(DownLane(v)')
<1>1. /\ http \in [Urls -> Streams]
      /\ \A v \in Urls : http[v].up \in Seq(UpLane(v)) /\ http[v].down \in Seq(DownLane(v))
  BY DEF Inv, Types, Lanes
<1>2. /\ \A i \in Ids : paths[i] # NoUrl => paths'[i] = paths[i]
      /\ \A j \in AllIds : spaths[j] # NoUrl => spaths'[j] = spaths[j]
  BY Grows
<1>3. \A v \in Urls : UpLane(v) \subseteq UpLane(v)' /\ DownLane(v) \subseteq DownLane(v)'
  BY <1>2, Numbers DEF UpLane, DownLane
<1>4. SUFFICES \A v \in Urls : http'[v].up \in Seq(UpLane(v)) /\ http'[v].down \in Seq(DownLane(v))
  BY <1>3, SeqMonotonic
<1>s. \A v \in Urls : <<>> \in Seq(UpLane(v)) /\ <<>> \in Seq(DownLane(v))
  BY EmptySeq
<1>5. CASE u \in Urls /\ (getOutstandingRequest(u) \/ ClientClose(u))
  <2> DEFINE o == [NoStream EXCEPT !.open = TRUE, !.upFin = u \in StaticUrls]
  <2>1. http' = [http EXCEPT ![u] = o] \/ http' = [http EXCEPT ![u] = NoStream]
    BY <1>5 DEF getOutstandingRequest, ClientClose
  <2>2. o.up = <<>> /\ o.down = <<>> /\ NoStream.up = <<>> /\ NoStream.down = <<>>
    BY DEF NoStream
  <2> HIDE DEF o
  <2>3. http'[u].up = <<>> /\ http'[u].down = <<>> /\ \A v \in Urls : v # u => http'[v] = http[v]
    BY <1>1, <1>5, <2>1, <2>2
  <2> QED
    BY <1>1, <1>s, <2>3
<1>6. CASE u \in Urls /\ (ClientEnd(u) \/ start_response(u))
  <2>1. http' = [http EXCEPT ![u].upFin = TRUE] \/ http' = [http EXCEPT ![u].started = TRUE]
    BY <1>6 DEF ClientEnd, start_response
  <2> QED
    BY <1>1, <1>6, <2>1 DEF Streams
<1>7. CASE lock_outgoing_chunks
  <2> DEFINE w == cio.url
  <2>1. /\ w \in Urls
        /\ \/ http' = [http EXCEPT ![w].upFin = TRUE]
           \/ \E taken \in Seq(UpLane(w)) : http' = [http EXCEPT ![w].up = @ \o taken]
    BY <1>7, LockFacts
  <2> HIDE DEF w
  <2>2. CASE http' = [http EXCEPT ![w].upFin = TRUE]
    BY <1>1, <2>1, <2>2 DEF Streams
  <2>3. ASSUME NEW taken \in Seq(UpLane(w)), http' = [http EXCEPT ![w].up = @ \o taken]
        PROVE  \A v \in Urls : http'[v].up \in Seq(UpLane(v)) /\ http'[v].down \in Seq(DownLane(v))
    <3> DEFINE t == http[w].up \o taken
    <3>1. t \in Seq(UpLane(w)) /\ http' = [http EXCEPT ![w].up = t]
      BY <1>1, <2>1, <2>3, ConcatProperties
    <3> HIDE DEF t
    <3> QED
      BY <1>1, <2>1, <3>1 DEF Streams
  <2> QED
    BY <2>1, <2>2, <2>3
<1>8. CASE u \in Urls /\ ClientReceive(u)
  <2> DEFINE t == Tail(http[u].down)
  <2>1. t \in Seq(DownLane(u)) /\ http' = [http EXCEPT ![u].down = t]
    BY <1>8, ReceiveFacts
  <2> HIDE DEF t
  <2> QED
    BY <1>1, <1>8, <2>1 DEF Streams
<1>9. CASE u \in Urls /\ ServerReceive(u)
  <2> DEFINE t == Tail(http[u].up)
  <2>1. t \in Seq(UpLane(u)) /\ http' = [http EXCEPT ![u].up = t]
    BY <1>9, ServerReceiveFacts
  <2> HIDE DEF t
  <2> QED
    BY <1>1, <1>9, <2>1 DEF Streams
<1>10. CASE u \in Urls /\ ServerSend(u)
  <2>1. \/ http' = [http EXCEPT ![u].downFin = TRUE]
        \/ \E taken \in Seq(DownLane(u)) : http' = [http EXCEPT ![u].down = @ \o taken]
    BY <1>10, SendFacts
  <2>2. CASE http' = [http EXCEPT ![u].downFin = TRUE]
    BY <1>1, <1>10, <2>2 DEF Streams
  <2>3. ASSUME NEW taken \in Seq(DownLane(u)), http' = [http EXCEPT ![u].down = @ \o taken]
        PROVE  \A v \in Urls : http'[v].up \in Seq(UpLane(v)) /\ http'[v].down \in Seq(DownLane(v))
    <3> DEFINE t == http[u].down \o taken
    <3>1. t \in Seq(DownLane(u)) /\ http' = [http EXCEPT ![u].down = t]
      BY <1>1, <1>10, <2>3, ConcatProperties
    <3> HIDE DEF t
    <3> QED
      BY <1>1, <1>10, <3>1 DEF Streams
  <2> QED
    BY <2>1, <2>2, <2>3
<1>11. CASE http' = http
  BY <1>1, <1>11
<1>12. ASSUME u \in Urls, UrlSteps(u), ~getOutstandingRequest(u), ~ClientEnd(u), ~ClientReceive(u), ~ClientClose(u),
              ~ServerReceive(u), ~start_response(u), ~ServerSend(u)
       PROVE  http' = http
  BY <1>12 DEF UrlSteps, Submit, SearchForever, ClientPlan
<1>13. ASSUME PlainSteps, ~lock_outgoing_chunks PROVE http' = http
  BY <1>13 DEF PlainSteps, ClientCall, ClientReturn, hasOutstandingRequest, RequestGone,
               pushIncomingChunk, ServerCall, ServerReturn
<1> QED
  BY <1>5, <1>6, <1>7, <1>8, <1>9, <1>10, <1>11, <1>12, <1>13 DEF Steps

(* Every chunk stays on its stream. *)
LEMMA LanesStep == ASSUME Inv, NEW u, Steps(u) PROVE Lanes'
<1>1. /\ \A i \in Ids : msg'[i].out \in Seq(Lane(i)) /\ cout'[i] \in Seq(Lane(i))
      /\ cw'.pc = "called" => cw'.out \in Seq(Lane(cw'.id))
  BY LanesClient
<1>2. \A j \in AllIds : sout'[j] \in Seq(Lane(j))
  BY LanesServer
<1>3. \A v \in Urls : http'[v].up \in Seq(UpLane(v)') /\ http'[v].down \in Seq(DownLane(v)')
  BY LanesWire
<1>4. sio' # Idle => sio'.chunk \in {d \in Chunks : d.id \in Ids /\ paths'[d.id] = sio'.url} /\ sio'.url \notin StaticUrls
  <2>1. \A i \in Ids : paths[i] # NoUrl => paths'[i] = paths[i]
    BY Grows
  <2>2. \A v \in Urls : UpLane(v) \subseteq {c \in Chunks : c.id \in Ids /\ paths'[c.id] = v}
    BY <2>1, Numbers DEF UpLane
  <2>3. CASE u \in Urls /\ ServerReceive(u)
    <3> DEFINE c == Head(http[u].up)
    <3>1. u \notin StaticUrls /\ c \in UpLane(u) /\ sio'.url = u /\ sio'.chunk = c
      <4>1. u \notin StaticUrls /\ c \in UpLane(u)
        BY <2>3, ServerReceiveFacts
      <4>2. sio' = [pc |-> "push", url |-> u, chunk |-> c, ready |-> HandlerReady(c.id)]
        BY <2>3, ServerReceiveFacts
      <4> QED
        BY <4>1, <4>2
    <3> HIDE DEF c
    <3>2. c \in {d \in Chunks : d.id \in Ids /\ paths'[d.id] = u}
      BY <2>2, <2>3, <3>1
    <3> QED
      BY <3>1, <3>2
  <2>4. CASE pushIncomingChunk
    BY <2>4 DEF pushIncomingChunk
  <2>5. CASE sio' = sio
    <3>1. sio # Idle => sio.chunk \in UpLane(sio.url) /\ sio.url \notin StaticUrls /\ sio.url \in Urls
      BY DEF Inv, Lanes, Types, ServerTypes
    <3>2. sio # Idle => sio.chunk \in {d \in Chunks : d.id \in Ids /\ paths'[d.id] = sio.url}
      BY <2>2, <3>1
    <3> QED
      BY <2>5, <3>1, <3>2
  <2>6. ASSUME u \in Urls, UrlSteps(u), ~ServerReceive(u) PROVE sio' = sio
    BY <2>6 DEF UrlSteps, Submit, SearchForever, getOutstandingRequest, ClientEnd, ClientPlan, ClientReceive,
                ClientClose, start_response, ServerSend, server
  <2>7. ASSUME PlainSteps, ~pushIncomingChunk PROVE sio' = sio
    BY <2>7 DEF PlainSteps, ClientCall, ClientReturn, hasOutstandingRequest, RequestGone,
                lock_outgoing_chunks, ServerCall, ServerReturn, server
  <2> QED
    BY <2>3, <2>4, <2>5, <2>6, <2>7 DEF Steps
<1> QED
  BY <1>1, <1>2, <1>3, <1>4 DEF Lanes, Lane, UpLane
===============================================================================
