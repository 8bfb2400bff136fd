-------------------------- MODULE StreamQueuesProofs --------------------------
(***************************************************************************)
(* Theorems about StreamQueues: every request that waits for the route has *)
(* a handler, nothing follows an answer, messages arrive whole, and the    *)
(* queues implement Exchange.  StreamQueuesFacts states the inductive      *)
(* invariant Inv and shows that every step preserves its types, its counts *)
(* and what it says of single streams; the pipelines of the requests, the  *)
(* answers and the assets are followed here.                               *)
(***************************************************************************)
EXTENDS StreamQueuesFacts


-------------------------------------------------------------------------------
(* The life of a HTTP/3 stream. *)

(* Changing one field of a stream leaves the others. *)
SameBut(s, r, f) ==
  /\ f # "open" => r.open = s.open
  /\ f # "up" => r.up = s.up
  /\ f # "upFin" => r.upFin = s.upFin
  /\ f # "started" => r.started = s.started
  /\ f # "down" => r.down = s.down
  /\ f # "downFin" => r.downFin = s.downFin

(* A step that sets one field of a HTTP/3 stream leaves the others alone. *)
LEMMA StreamField ==
  ASSUME http \in [Urls -> Streams], NEW u \in Urls, NEW t
  PROVE  /\ http' = [http EXCEPT ![u].up = t] =>
              http'[u].up = t /\ SameBut(http[u], http'[u], "up") /\ \A v \in Urls : v # u => http'[v] = http[v]
         /\ http' = [http EXCEPT ![u].upFin = t] =>
              http'[u].upFin = t /\ SameBut(http[u], http'[u], "upFin") /\ \A v \in Urls : v # u => http'[v] = http[v]
         /\ http' = [http EXCEPT ![u].started = t] =>
              http'[u].started = t /\ SameBut(http[u], http'[u], "started") /\ \A v \in Urls : v # u => http'[v] = http[v]
         /\ http' = [http EXCEPT ![u].down = t] =>
              http'[u].down = t /\ SameBut(http[u], http'[u], "down") /\ \A v \in Urls : v # u => http'[v] = http[v]
         /\ http' = [http EXCEPT ![u].downFin = t] =>
              http'[u].downFin = t /\ SameBut(http[u], http'[u], "downFin") /\ \A v \in Urls : v # u => http'[v] = http[v]
<1>1. http[u] \in Streams
  OBVIOUS
<1>2. ASSUME http' = [http EXCEPT ![u].up = t]
      PROVE  http'[u].up = t /\ SameBut(http[u], http'[u], "up") /\ \A v \in Urls : v # u => http'[v] = http[v]
  BY <1>1, <1>2 DEF Streams, SameBut
<1>3. ASSUME http' = [http EXCEPT ![u].upFin = t]
      PROVE  http'[u].upFin = t /\ SameBut(http[u], http'[u], "upFin") /\ \A v \in Urls : v # u => http'[v] = http[v]
  BY <1>1, <1>3 DEF Streams, SameBut
<1>4. ASSUME http' = [http EXCEPT ![u].started = t]
      PROVE  http'[u].started = t /\ SameBut(http[u], http'[u], "started") /\ \A v \in Urls : v # u => http'[v] = http[v]
  BY <1>1, <1>4 DEF Streams, SameBut
<1>5. ASSUME http' = [http EXCEPT ![u].down = t]
      PROVE  http'[u].down = t /\ SameBut(http[u], http'[u], "down") /\ \A v \in Urls : v # u => http'[v] = http[v]
  BY <1>1, <1>5 DEF Streams, SameBut
<1>6. ASSUME http' = [http EXCEPT ![u].downFin = t]
      PROVE  http'[u].downFin = t /\ SameBut(http[u], http'[u], "downFin") /\ \A v \in Urls : v # u => http'[v] = http[v]
  BY <1>1, <1>6 DEF Streams, SameBut
<1> QED
  BY <1>2, <1>3, <1>4, <1>5, <1>6

(* The streams go through their life in order. *)
LEMMA FlagsStep == ASSUME Inv, NEW u, Steps(u) PROVE Flags'
<1> DEFINE Fine(v, ps, h) ==
             /\ IF h[v].open THEN \E i \in Ids : ps[i] = v ELSE h[v] = NoStream
             /\ h[v].started => h[v].upFin /\ h[v].up = <<>>
             /\ v \in StaticUrls => h[v].up = <<>> /\ (h[v].open => h[v].upFin)
             /\ h[v].downFin \/ h[v].down # <<>> => h[v].started
<1>1. /\ http \in [Urls -> Streams] /\ \A v \in Urls : Fine(v, paths, http)
      /\ cio.pc = "send" =>
           /\ cio.url \in Urls /\ cio.url \notin StaticUrls /\ http[cio.url].open /\ ~http[cio.url].upFin
           /\ NoRepeat(cio.plan) /\ cio.plan \in Seq({i \in Ids : paths[i] = cio.url})
  <2>1. cio.pc = "send" => cio.url \in Urls
    BY DEF Inv, Types, ClientTypes, Idle
  <2> QED
    BY <2>1 DEF Inv, Types, Flags
<1>2. \A i \in Ids : paths[i] # NoUrl => paths'[i] = paths[i]
  BY Grows
<1>3. \A v \in Urls : (\E i \in Ids : paths[i] = v) => (\E i \in Ids : paths'[i] = v)
  BY <1>2, Numbers
<1>4. \A v \in Urls : Fine(v, paths', http')
  <2>1. SUFFICES \A v \in Urls : Fine(v, paths, http')
    BY <1>3
  <2>2. CASE u \in Urls /\ getOutstandingRequest(u)
    <3> DEFINE o == [NoStream EXCEPT !.open = TRUE, !.upFin = u \in StaticUrls]
    <3>1. http' = [http EXCEPT ![u] = o] /\ \E i \in Ids : paths[i] = u
      BY <2>2, OpenFacts
    <3>2. o.open /\ (u \in StaticUrls => o.upFin) /\ o.up = <<>> /\ o.down = <<>> /\ ~o.downFin /\ ~o.started
      BY DEF NoStream
    <3> HIDE DEF o
    <3>3. http'[u] = o /\ \A v \in Urls : v # u => http'[v] = http[v]
      BY <1>1, <2>2, <3>1
    <3> QED
      BY <1>1, <3>1, <3>2, <3>3
  <2>3. CASE u \in Urls /\ ClientClose(u)
    <3>1. http' = [http EXCEPT ![u] = NoStream]
      BY <2>3, CloseFacts
    <3>2. http'[u] = NoStream /\ \A v \in Urls : v # u => http'[v] = http[v]
      BY <1>1, <2>3, <3>1
    <3>3. NoStream.open = FALSE /\ NoStream.started = FALSE /\ NoStream.up = <<>> /\ NoStream.downFin = FALSE /\ NoStream.down = <<>>
      BY DEF NoStream
    <3>4. Fine(u, paths, http')
      BY <3>2, <3>3
    <3> QED
      BY <1>1, <3>2, <3>4
  <2>4. CASE u \in Urls /\ (ClientEnd(u) \/ start_response(u))
    <3>1. /\ http[u].open
          /\ \/ http' = [http EXCEPT ![u].upFin = TRUE]
             \/ http[u].upFin /\ http[u].up = <<>> /\ http' = [http EXCEPT ![u].started = TRUE]
      BY <2>4 DEF ClientEnd, start_response
    <3>2. \/ http'[u].upFin = TRUE /\ SameBut(http[u], http'[u], "upFin")
          \/ http'[u].started = TRUE /\ SameBut(http[u], http'[u], "started") /\ http[u].upFin /\ http[u].up = <<>>
      BY <1>1, <2>4, <3>1, StreamField, ZenonT(60)
    <3>3. \A v \in Urls : v # u => http'[v] = http[v]
      BY <1>1, <2>4, <3>1
    <3>4. Fine(u, paths, http')
      <4>1. CASE http'[u].upFin = TRUE /\ SameBut(http[u], http'[u], "upFin")
        BY <1>1, <2>4, <3>1, <4>1 DEF SameBut
      <4>2. CASE http'[u].started = TRUE /\ SameBut(http[u], http'[u], "started") /\ http[u].upFin /\ http[u].up = <<>>
        BY <1>1, <2>4, <3>1, <4>2 DEF SameBut
      <4> QED
        BY <3>2, <4>1, <4>2
    <3> QED
      BY <1>1, <3>3, <3>4
  <2>5. CASE lock_outgoing_chunks
    <3> DEFINE w == cio.url
    <3>1. /\ w \in Urls /\ cio.pc = "send"
          /\ \/ http' = [http EXCEPT ![w].upFin = TRUE]
             \/ \E taken : http' = [http EXCEPT ![w].up = @ \o taken]
      BY <2>5, LockFacts
    <3>2. w \notin StaticUrls /\ http[w].open /\ ~http[w].upFin
      BY <1>1, <3>1
    <3> HIDE DEF w
    <3>3. CASE http' = [http EXCEPT ![w].upFin = TRUE]
      <4>1. http'[w].upFin = TRUE /\ SameBut(http[w], http'[w], "upFin") /\ \A v \in Urls : v # w => http'[v] = http[v]
        BY <1>1, <3>1, <3>3, StreamField
      <4> QED
        BY <1>1, <3>1, <3>2, <4>1, ZenonT(60) DEF SameBut
    <3>4. ASSUME NEW taken, http' = [http EXCEPT ![w].up = @ \o taken] PROVE \A v \in Urls : Fine(v, paths, http')
      <4> DEFINE t == http[w].up \o taken
      <4>1. http' = [http EXCEPT ![w].up = t]
        BY <3>4
      <4> HIDE DEF t
      <4>2. http'[w].up = t /\ SameBut(http[w], http'[w], "up") /\ \A v \in Urls : v # w => http'[v] = http[v]
        BY <1>1, <3>1, <4>1, StreamField
      <4> QED
        BY <1>1, <3>1, <3>2, <4>2, ZenonT(60) DEF SameBut
    <3> QED
      BY <3>1, <3>3, <3>4
  <2>6. CASE u \in Urls /\ ClientReceive(u)
    <3> DEFINE t == Tail(http[u].down)
    <3>1. http[u].down # <<>> /\ http[u].open /\ http' = [http EXCEPT ![u].down = t]
      BY <2>6, ReceiveFacts
    <3> HIDE DEF t
    <3> QED
      BY <1>1, <2>6, <3>1 DEF Streams
  <2>7. CASE u \in Urls /\ ServerReceive(u)
    <3> DEFINE t == Tail(http[u].up)
    <3>1. http[u].open /\ u \notin StaticUrls /\ http[u].up # <<>> /\ http' = [http EXCEPT ![u].up = t]
      BY <2>7, ServerReceiveFacts
    <3> HIDE DEF t
    <3> QED
      BY <1>1, <2>7, <3>1 DEF Streams
  <2>8. CASE u \in Urls /\ ServerSend(u)
    <3>1. /\ http[u].open /\ http[u].started
          /\ \/ http' = [http EXCEPT ![u].downFin = TRUE]
             \/ \E taken : http' = [http EXCEPT ![u].down = @ \o taken]
      BY <2>8, SendFacts
    <3>2. CASE http' = [http EXCEPT ![u].downFin = TRUE]
      BY <1>1, <2>8, <3>1, <3>2 DEF Streams
    <3>3. ASSUME NEW taken, http' = [http EXCEPT ![u].down = @ \o taken] PROVE \A v \in Urls : Fine(v, paths, http')
      <4> DEFINE t == http[u].down \o taken
      <4>1. http' = [http EXCEPT ![u].down = t]
        BY <3>3
      <4> HIDE DEF t
      <4> QED
        BY <1>1, <2>8, <3>1, <4>1 DEF Streams
    <3> QED
      BY <3>1, <3>2, <3>3
  <2>9. CASE http' = http
    BY <1>1, <2>9
  <2>10. ASSUME u \in Urls, UrlSteps(u), ~getOutstandingRequest(u), ~ClientEnd(u), ~ClientReceive(u), ~ClientClose(u),
                ~ServerReceive(u), ~start_response(u), ~ServerSend(u)
         PROVE  http' = http
    BY <2>10 DEF UrlSteps, Submit, SearchForever, ClientPlan
  <2>11. ASSUME PlainSteps, ~lock_outgoing_chunks PROVE http' = http
    BY <2>11 DEF PlainSteps, ClientCall, ClientReturn, hasOutstandingRequest, RequestGone,
                 pushIncomingChunk, ServerCall, ServerReturn
  <2> HIDE DEF Fine
  <2> QED
    BY <2>2, <2>3, <2>4, <2>5, <2>6, <2>7, <2>8, <2>9, <2>10, <2>11 DEF Steps
<1>5. cio'.pc = "send" =>
        /\ cio'.url \notin StaticUrls /\ http'[cio'.url].open /\ ~http'[cio'.url].upFin
        /\ NoRepeat(cio'.plan) /\ cio'.plan \in Seq({i \in Ids : paths'[i] = cio'.url})
  <2>1. CASE cio' = cio
    <3> SUFFICES ASSUME cio.pc = "send"
                 PROVE  /\ cio.url \notin StaticUrls /\ http'[cio.url].open /\ ~http'[cio.url].upFin
                        /\ NoRepeat(cio.plan) /\ cio.plan \in Seq({i \in Ids : paths'[i] = cio.url})
      BY <2>1
    <3> DEFINE w == cio.url
    <3>0. w \in Urls /\ w \notin StaticUrls /\ http[w].open /\ ~http[w].upFin /\ NoRepeat(cio.plan)
          /\ cio.plan \in Seq({i \in Ids : paths[i] = w})
      BY <1>1
    <3>1. {i \in Ids : paths[i] = w} \subseteq {i \in Ids : paths'[i] = w}
      BY <1>2, <3>0, Numbers
    <3>2. cio.plan \in Seq({i \in Ids : paths'[i] = w})
      BY <3>0, <3>1, SeqMonotonic
    <3> HIDE DEF w
    <3>3. http'[w].open = http[w].open /\ http'[w].upFin = http[w].upFin
      <4>a. cio # Idle /\ cio.pc # "open"
        BY DEF Idle
      <4>1. CASE http' = http
        BY <4>1
      <4>2. CASE u \in Urls /\ ServerReceive(u)
        BY <1>1, <3>0, <4>2, ZenonT(60) DEF ServerReceive, Streams
      <4>3. CASE u \in Urls /\ start_response(u)
        BY <1>1, <3>0, <4>3 DEF start_response, Streams
      <4>4. CASE u \in Urls /\ ServerSend(u)
        <5>1. http' = [http EXCEPT ![u].downFin = TRUE] \/ \E taken : http' = [http EXCEPT ![u].down = @ \o taken]
          BY <4>4, SendFacts
        <5>2. CASE http' = [http EXCEPT ![u].downFin = TRUE]
          <6>1. SameBut(http[u], http'[u], "downFin") /\ \A v \in Urls : v # u => http'[v] = http[v]
            BY <1>1, <4>4, <5>2, StreamField
          <6> QED
            BY <3>0, <6>1 DEF SameBut
        <5>3. ASSUME NEW taken, http' = [http EXCEPT ![u].down = @ \o taken]
              PROVE  http'[w].open = http[w].open /\ http'[w].upFin = http[w].upFin
          <6> DEFINE t == http[u].down \o taken
          <6>1. http' = [http EXCEPT ![u].down = t]
            BY <5>3
          <6> HIDE DEF t
          <6>2. SameBut(http[u], http'[u], "down") /\ \A v \in Urls : v # u => http'[v] = http[v]
            BY <1>1, <4>4, <6>1, StreamField
          <6> QED
            BY <3>0, <6>2 DEF SameBut
        <5> QED
          BY <5>1, <5>2, <5>3
      <4>5. ASSUME u \in Urls, UrlSteps(u), ~ServerReceive(u), ~start_response(u), ~ServerSend(u)
            PROVE  http' = http
        BY <4>a, <4>5 DEF UrlSteps, Submit, SearchForever, getOutstandingRequest, ClientEnd, ClientPlan,
                          ClientReceive, ClientClose
      <4>6. ASSUME PlainSteps PROVE http' = http
        BY <2>1, <4>a, <4>6 DEF PlainSteps, ClientCall, ClientReturn, hasOutstandingRequest, RequestGone,
                          lock_outgoing_chunks, pushIncomingChunk, ServerCall, ServerReturn, Idle
      <4> QED
        BY <4>1, <4>2, <4>3, <4>4, <4>5, <4>6 DEF Steps
    <3> QED
      BY <3>0, <3>2, <3>3 DEF w
  <2>2. CASE u \in Urls /\ ClientPlan(u)
    <3>1. PICK p \in planForNOutgoingChunks(cout, paths, u, VecCnt) : cio' = [pc |-> "send", url |-> u, plan |-> p]
      BY <2>2 DEF ClientPlan
    <3>2. DOMAIN cout = Ids /\ IsFiniteSet(Ids)
      BY Numbers DEF Inv, Types, ClientTypes
    <3>3. p \in Seq(Waiting(cout, paths, u)) /\ NoRepeat(p)
      BY <3>2, PlanIsWaiting
    <3>4. Waiting(cout, paths, u) \subseteq {i \in Ids : paths'[i] = u}
      BY <2>2, <3>2 DEF Waiting, ClientPlan
    <3>5. p \in Seq({i \in Ids : paths'[i] = u})
      BY <3>3, <3>4, SeqMonotonic
    <3>6. http[u].open /\ ~http[u].upFin /\ http' = http
      BY <2>2 DEF ClientPlan
    <3>7. u \notin StaticUrls
      BY <1>1, <2>2, <3>6
    <3> QED
      BY <3>1, <3>3, <3>5, <3>6, <3>7
  <2>3. CASE cio'.pc # "send"
    BY <2>3
  <2>4. ASSUME u \in Urls, UrlSteps(u), ~ClientPlan(u), ~getOutstandingRequest(u) PROVE cio' = cio
    BY <2>4 DEF UrlSteps, Submit, SearchForever, ClientEnd, ClientReceive,
                ClientClose, ServerReceive, start_response, ServerSend, client
  <2>5. ASSUME u \in Urls, getOutstandingRequest(u) PROVE cio'.pc # "send"
    BY <2>5 DEF getOutstandingRequest, Idle
  <2>6. ASSUME PlainSteps PROVE cio' = cio \/ cio'.pc # "send"
    <3>1. ASSUME hasOutstandingRequest \/ RequestGone \/ lock_outgoing_chunks PROVE cio'.pc # "send"
      BY <3>1 DEF hasOutstandingRequest, RequestGone, lock_outgoing_chunks, Idle
    <3> QED
      BY <2>6, <3>1 DEF PlainSteps, ClientCall, ClientReturn,
                        pushIncomingChunk, ServerCall, ServerReturn, client
  <2> QED
    BY <2>1, <2>2, <2>3, <2>4, <2>5, <2>6 DEF Steps
<1> QED
  BY <1>4, <1>5 DEF Flags, NoRepeat

-------------------------------------------------------------------------------
(* The handlers of the server. *)

(* What the server's I/O thread holds in its hands while it looks for a handler. *)
LEMMA PushedFacts ==
  ASSUME Inv, NEW i \in Ids, sio # Idle, sio.chunk.id = i
  PROVE  /\ sio.chunk \in Chunks /\ Pushed(i) = <<sio.chunk>>
         /\ sio.chunk.kind = "req" => Req(Pushed(i)) # <<>>
<1>1. sio.chunk \in Chunks
  BY DEF Inv, Types, ServerTypes
<1>2. Pushed(i) = <<sio.chunk>>
  BY <1>1, OfStreamFacts DEF Pushed
<1>3. sio.chunk.kind = "req" => Kept(<<sio.chunk>>, {c \in Chunks : c.kind = "req"}) = <<sio.chunk>>
  BY <1>1, KeptOne
<1> QED
  BY <1>1, <1>2, <1>3 DEF Req, OfKind

(* A finished or closed stream has no request under way. *)
LEMMA NoneUnderWay ==
  ASSUME Inv, NEW i \in Ids, Routed(i), execs[i] = 1
  PROVE  Up(i) = <<>> /\ Req(sin[i]) = <<>> /\ Req(Pushed(i)) = <<>> /\ Req(WireUp(i)) = <<>> 
         /\ Req(cout[i]) = <<>> /\ Req(InHand(i)) = <<>> /\ Req(msg[i].out) = <<>>
<1>1. Asking(i) /\ paths[i] \in Urls
  BY DEF Inv, AllAsk, Routed
<1> QED
  BY <1>1, UpLinks, SeqTypes DEF Asking, Inv

(* A chunk that waits for the route has a handler, and never a third one. *)
LEMMA HandlingStep == ASSUME Inv, NEW u, Steps(u) PROVE Handling'
<1> DEFINE H(i) == Count(sq', i) + (IF sw'.pc = "served" /\ sw'.id = i THEN 1 ELSE 0)
           Fine(i) == /\ H(i) <= 2
                      /\ Req(sin'[i]) # <<>> => H(i) > 0
                      /\ sio' # Idle /\ sio'.chunk.id = i =>
                           IF sio'.ready THEN sio'.chunk.kind = "req" => H(i) > 0 ELSE H(i) <= 1
<1>0. SUFFICES ASSUME NEW i \in Ids PROVE Fine(i)
  BY DEF Handling, Handlers, Req
<1>1. /\ Handlers(i) <= 2
      /\ Req(sin[i]) # <<>> => Handlers(i) > 0
      /\ sio # Idle /\ sio.chunk.id = i =>
           IF sio.ready THEN sio.chunk.kind = "req" => Handlers(i) > 0 ELSE Handlers(i) <= 1
  BY DEF Inv, Handling, Req
<1>2. sq \in Seq(AllIds) /\ Count(sq, i) \in Nat /\ sin \in [AllIds -> Seq(Chunks)] /\ i \in AllIds
  <2>1. sq \in Seq(AllIds) /\ sin \in [AllIds -> Seq(Chunks)]
    BY DEF Inv, Types, ServerTypes
  <2> QED
    BY <2>1, CountFacts, Numbers
<1>c. \A x \in AllIds : Count(Append(sq, x), i) = Count(sq, i) + (IF x = i THEN 1 ELSE 0)
  BY <1>2, CountFacts
<1>3. Handlers(i) \in Nat /\ Handlers(i) = Count(sq, i) + (IF sw.pc = "served" /\ sw.id = i THEN 1 ELSE 0)
  BY <1>2 DEF Handlers
<1>4. CASE u \in Urls /\ ServerReceive(u)
  <2> DEFINE c == Head(http[u].up)
  <2>1. UNCHANGED <<sq, sin, sw>> /\ sio' = [pc |-> "push", url |-> u, chunk |-> c, ready |-> HandlerReady(c.id)]
    BY <1>4, ServerReceiveFacts
  <2>2. c.id = i => (HandlerReady(c.id) <=> Count(sq, i) > 0)
    BY <1>2, CountFacts DEF HandlerReady
  <2> HIDE DEF c
  <2>3. H(i) = Handlers(i)
    BY <1>3, <2>1
  <2> QED
    BY <1>1, <1>2, <1>3, <2>1, <2>2, <2>3
<1>5. CASE pushIncomingChunk
  <2> DEFINE c == sio.chunk
             j == c.id
  <2>1. /\ sio # Idle /\ sio.ready \in BOOLEAN /\ c \in Chunks /\ j \in Ids /\ j \in AllIds
        /\ (sio.ready /\ sq' = sq) \/ (~sio.ready /\ sq' = Append(sq, j))
        /\ sin' = [sin EXCEPT ![j] = Append(@, c)] /\ sio' = Idle /\ sw' = sw
    BY <1>5, PushFacts
  <2> HIDE DEF c
  <2>2. CASE j = i
    <3>1. Req(sin'[i]) # <<>> => Req(sin[i]) # <<>> \/ c.kind = "req"
      <4>1. sin'[i] = Append(sin[i], c)
        BY <1>2, <2>1, <2>2
      <4>2. Kept(Append(sin[i], c), {d \in Chunks : d.kind = "req"})
              = IF c \in {d \in Chunks : d.kind = "req"}
                THEN Append(Kept(sin[i], {d \in Chunks : d.kind = "req"}), c)
                ELSE Kept(sin[i], {d \in Chunks : d.kind = "req"})
        BY <1>2, <2>1, KeptAppend
      <4> QED
        BY <4>1, <4>2 DEF Req, OfKind
    <3>2. CASE sio.ready
      <4>1. H(i) = Handlers(i)
        BY <1>3, <2>1, <3>2
      <4>2. c.kind = "req" => Handlers(i) > 0
        BY <1>1, <2>1, <2>2, <3>2 DEF c
      <4> QED
        BY <1>1, <2>1, <3>1, <4>1, <4>2
    <3>3. CASE ~sio.ready
      <4>0. sq' = Append(sq, j) /\ sw' = sw
        BY <2>1, <3>3
      <4>1. Count(sq', i) = Count(sq, i) + 1
        BY <1>c, <2>1, <2>2, <4>0
      <4>2. H(i) = Handlers(i) + 1
        BY <1>2, <1>3, <4>0, <4>1
      <4>3. Handlers(i) <= 1
        BY <1>1, <2>1, <2>2, <3>3 DEF c
      <4> QED
        BY <1>3, <2>1, <4>2, <4>3
    <3> QED
      BY <2>1, <3>2, <3>3
  <2>3. CASE j # i
    <3>1. Count(Append(sq, j), i) = Count(sq, i)
      BY <1>2, <1>c, <2>1, <2>3
    <3>2. H(i) = Handlers(i) /\ sin'[i] = sin[i]
      BY <1>2, <1>3, <2>1, <2>3, <3>1
    <3> QED
      BY <1>1, <2>1, <3>2
  <2> QED
    BY <2>2, <2>3
<1>6. CASE u \in Urls /\ start_response(u)
  <2>1. /\ UNCHANGED <<sin, sw, sio>>
        /\ sq' = sq \/ (snext \in AllIds /\ snext \notin Ids /\ sq' = Append(sq, snext))
    BY <1>6, StartFacts
  <2>2. Count(sq', i) = Count(sq, i)
    <3>1. CASE snext \in AllIds /\ snext \notin Ids /\ sq' = Append(sq, snext)
      <4>1. Count(Append(sq, snext), i) = Count(sq, i) + (IF snext = i THEN 1 ELSE 0)
        BY <1>c, <3>1
      <4>2. snext # i
        BY <3>1
      <4> QED
        BY <1>2, <3>1, <4>1, <4>2
    <3> QED
      BY <2>1, <3>1
  <2>3. H(i) = Handlers(i)
    BY <1>3, <2>1, <2>2
  <2> QED
    BY <1>1, <2>1, <2>3
<1>7. CASE ServerCall
  <2> DEFINE j == Head(sq)
             got == ongoing[j].got \o OfKind(sin[j], "req")
  <2>1. /\ sw = Idle /\ sq # <<>> /\ j \in AllIds /\ sq' = Tail(sq)
        /\ sin' = [sin EXCEPT ![j] = <<>>] /\ sio' = sio
        /\ Silent(j) \/ Ended(j) \/ Gather(j, got)
    BY <1>7, ServerCallFacts
  <2>2. Count(sq, i) = Count(Tail(sq), i) + (IF j = i THEN 1 ELSE 0) /\ Count(Tail(sq), i) \in Nat
    BY <1>2, <2>1, CountFacts
  <2>3. Handlers(i) = Count(sq, i)
    BY <1>2, <1>3, <2>1 DEF Idle
  <2>r. Req(<<>>) = <<>>
    BY OfKindFacts DEF Req
  <2>r2. j \in Ids => Routed(j)
    BY <1>7, ServerCallFacts
  <2> HIDE DEF j, got
  <2>4. CASE j # i
    <3>1. sw'.id = j
      BY <2>1 DEF Silent, Ended, Gather
    <3>2. H(i) = Handlers(i) /\ sin'[i] = sin[i]
      BY <1>2, <2>1, <2>2, <2>3, <2>4, <3>1
    <3> QED
      BY <1>1, <2>1, <3>2
  <2>5. CASE j = i /\ sw' = [pc |-> "served", id |-> i]
    <3>1. H(i) = Handlers(i) /\ sin'[i] = <<>>
      BY <1>2, <2>1, <2>2, <2>3, <2>5
    <3> QED
      BY <1>1, <2>1, <2>r, <3>1
  <2>6. CASE j = i /\ sw' # [pc |-> "served", id |-> i]
    <3>1. sw' = [pc |-> "closed", id |-> i] /\ ongoing[i].finished
      BY <2>1, <2>6 DEF Silent, Ended, Gather
    <3>2. H(i) = Count(sq, i) - 1 /\ sin'[i] = <<>>
      BY <1>2, <2>1, <2>2, <2>6, <3>1
    <3>3. Asking(i) /\ Routed(i)
      BY <2>6, <2>r2 DEF Inv, AllAsk
    <3>4. execs[i] = 1
      BY <3>1, <3>3 DEF Asking
    <3>5. Req(Pushed(i)) = <<>>
      BY <3>3, <3>4, NoneUnderWay
    <3>6. sio # Idle /\ sio.chunk.id = i => sio.chunk.kind # "req"
      BY <3>5, PushedFacts
    <3> QED
      BY <1>1, <1>2, <2>1, <2>3, <2>r, <3>2, <3>6
  <2> QED
    BY <2>4, <2>5, <2>6
<1>8. CASE ServerReturn
  <2>1. sw.id \in AllIds /\ sw' = Idle /\ sio' = sio
        /\ \/ sw.pc = "served" /\ sq' = Append(sq, sw.id) /\ sin' = sin
           \/ sw.pc = "closed" /\ sq' = sq /\ sin' = [sin EXCEPT ![sw.id] = <<>>]
    BY <1>8 DEF ServerReturn, Inv, Types, ServerTypes, Idle
  <2>2. Count(Append(sq, sw.id), i) = Count(sq, i) + (IF sw.id = i THEN 1 ELSE 0)
    BY <1>c, <2>1
  <2>3. H(i) = Handlers(i)
    <3>1. CASE sw.pc = "served"
      <4>1. Count(sq', i) = Count(sq, i) + (IF sw.id = i THEN 1 ELSE 0)
        BY <2>1, <2>2, <3>1
      <4> QED
        BY <1>2, <1>3, <2>1, <3>1, <4>1 DEF Idle
    <3>2. CASE sw.pc = "closed"
      <4>1. Count(sq', i) = Count(sq, i)
        BY <2>1, <3>2
      <4> QED
        BY <1>2, <1>3, <2>1, <3>2, <4>1 DEF Idle
    <3> QED
      BY <2>1, <3>1, <3>2
  <2>4. Req(sin'[i]) = Req(sin[i]) \/ Req(sin'[i]) = <<>>
    <3>1. sin'[i] = sin[i] \/ sin'[i] = <<>>
      BY <1>2, <2>1
    <3> QED
      BY <3>1, OfKindFacts DEF Req
  <2> QED
    BY <1>1, <2>1, <2>3, <2>4
<1>9. CASE UNCHANGED <<sq, sw, sin, sio>>
  BY <1>1, <1>3, <1>9
<1>10. ASSUME u \in Urls, UrlSteps(u), ~ServerReceive(u), ~start_response(u)
      PROVE  UNCHANGED <<sq, sw, sin, sio>>
  BY <1>10 DEF UrlSteps, Submit, SearchForever, getOutstandingRequest, ClientEnd, ClientPlan, ClientReceive,
              ClientClose, ServerSend, server
<1>11. ASSUME PlainSteps, ~pushIncomingChunk, ~ServerCall, ~ServerReturn
       PROVE  UNCHANGED <<sq, sw, sin, sio>>
  BY <1>11 DEF PlainSteps, ClientCall, ClientReturn, hasOutstandingRequest, RequestGone, lock_outgoing_chunks, server
<1> HIDE DEF Fine
<1> QED
  BY <1>4, <1>5, <1>6, <1>7, <1>8, <1>9, <1>10, <1>11 DEF Steps

-------------------------------------------------------------------------------
(* The way of a request: a step moves chunks between neighbours. *)

Chain(a, b, c, d, e, f) == a \o (b \o (c \o (d \o (e \o f))))

(* The sequences over S and their concatenation, for the provers to take as they are. *)
List(S) == Seq(S)
Cat(s, t) == s \o t

(* Concatenation under another name, so that the provers do not expand it. *)
LEMMA CatFacts ==
  \A S : \A a, b, c \in List(S) : Cat(Cat(a, b), c) = Cat(a, Cat(b, c)) /\ Cat(a, b) \in List(S)
<1> SUFFICES ASSUME NEW S, NEW a \in Seq(S), NEW b \in Seq(S), NEW c \in Seq(S)
             PROVE  (a \o b) \o c = a \o (b \o c) /\ a \o b \in Seq(S)
  BY DEF List, Cat
<1> QED
  BY ConcatAssociative, ConcatProperties, SMTT(40)

(* What two neighbours hold together may be split anew without a trace in what follows. *)
LEMMA Shift ==
  ASSUME NEW S, NEW a \in List(S), NEW b \in List(S), NEW c \in List(S), NEW d \in List(S), NEW z \in List(S)
  PROVE  Cat(a, b) = Cat(c, d) => Cat(a, Cat(b, z)) = Cat(c, Cat(d, z))
BY CatFacts, SMT

(* What a step leaves as it was leaves the chain as it was. *)
LEMMA UpFrame ==
  ASSUME NEW i, paths'[i] = paths[i], sin'[i] = sin[i], Pushed(i)' = Pushed(i),
         http'[paths[i]].up = http[paths[i]].up, cout'[i] = cout[i], InHand(i)' = InHand(i), msg'[i].out = msg[i].out
  PROVE  Up(i)' = Up(i)
BY DEF Up, WireUp

(* The chain of a request does not change when two neighbours are split anew. *)
LEMMA UpMoves ==
  ASSUME TypedSeqs, NEW i \in Ids, paths[i] \in Urls, NEW x \in Seq(Chunks), NEW y \in Seq(Chunks)
  PROVE  /\ x \o y = Req(sin[i]) \o Req(Pushed(i)) =>
              Chain(x, y, Req(WireUp(i)), Req(cout[i]), Req(InHand(i)), Req(msg[i].out)) = Up(i)
         /\ x \o y = Req(Pushed(i)) \o Req(WireUp(i)) =>
              Chain(Req(sin[i]), x, y, Req(cout[i]), Req(InHand(i)), Req(msg[i].out)) = Up(i)
         /\ x \o y = Req(WireUp(i)) \o Req(cout[i]) =>
              Chain(Req(sin[i]), Req(Pushed(i)), x, y, Req(InHand(i)), Req(msg[i].out)) = Up(i)
         /\ x \o y = Req(cout[i]) \o Req(InHand(i)) =>
              Chain(Req(sin[i]), Req(Pushed(i)), Req(WireUp(i)), x, y, Req(msg[i].out)) = Up(i)
         /\ x \o y = Req(InHand(i)) \o Req(msg[i].out) =>
              Chain(Req(sin[i]), Req(Pushed(i)), Req(WireUp(i)), Req(cout[i]), x, y) = Up(i)
<1> DEFINE a == Req(sin[i])
           b == Req(Pushed(i))
           c == Req(WireUp(i))
           d == Req(cout[i])
           e == Req(InHand(i))
           f == Req(msg[i].out)
<1>1. a \in Seq(Chunks) /\ b \in Seq(Chunks) /\ c \in Seq(Chunks) /\ d \in Seq(Chunks) /\ e \in Seq(Chunks) /\ f \in Seq(Chunks)
  BY UpLinks
<1>2. Up(i) = Chain(a, b, c, d, e, f)
  BY DEF Up, Chain
<1> HIDE DEF a, b, c, d, e, f
<1> DEFINE Six(p, q, r, s, t, w) == Cat(p, Cat(q, Cat(r, Cat(s, Cat(t, w)))))
<1>3. a \in List(Chunks) /\ b \in List(Chunks) /\ c \in List(Chunks) /\ d \in List(Chunks) /\ e \in List(Chunks)
      /\ f \in List(Chunks) /\ x \in List(Chunks) /\ y \in List(Chunks)
  BY <1>1 DEF List
<1>4. /\ Cat(e, f) \in List(Chunks) /\ Cat(d, Cat(e, f)) \in List(Chunks)
      /\ Cat(c, Cat(d, Cat(e, f))) \in List(Chunks)
  BY ONLY <1>3, CatFacts, SMT
<1>5. /\ Cat(x, y) = Cat(a, b) => Six(x, y, c, d, e, f) = Six(a, b, c, d, e, f)
      /\ Cat(x, y) = Cat(b, c) => Six(a, x, y, d, e, f) = Six(a, b, c, d, e, f)
      /\ Cat(x, y) = Cat(c, d) => Six(a, b, x, y, e, f) = Six(a, b, c, d, e, f)
      /\ Cat(x, y) = Cat(d, e) => Six(a, b, c, x, y, f) = Six(a, b, c, d, e, f)
      /\ Cat(x, y) = Cat(e, f) => Six(a, b, c, d, x, y) = Six(a, b, c, d, e, f)
  BY ONLY <1>3, <1>4, Shift, SMTT(40)
<1>6. /\ \A p, q, r, s, t, w : Six(p, q, r, s, t, w) = Chain(p, q, r, s, t, w)
      /\ \A p, q : Cat(p, q) = p \o q
  BY DEF Cat, Chain
<1> HIDE DEF Six
<1>7. /\ x \o y = a \o b => Chain(x, y, c, d, e, f) = Up(i)
      /\ x \o y = b \o c => Chain(a, x, y, d, e, f) = Up(i)
      /\ x \o y = c \o d => Chain(a, b, x, y, e, f) = Up(i)
      /\ x \o y = d \o e => Chain(a, b, c, x, y, f) = Up(i)
      /\ x \o y = e \o f => Chain(a, b, c, d, x, y) = Up(i)
  BY ONLY <1>2, <1>5, <1>6, Zenon
<1> QED
  BY <1>7 DEF a, b, c, d, e, f

(* The steps of the client's threads move the chunks of a request from the message to the
   HTTP/3 stream. *)
LEMMA UpClient ==
  ASSUME Inv, NEW u, NEW i \in Ids, Routed(i),
         \/ ClientCall \/ ClientReturn \/ lock_outgoing_chunks
  PROVE  Up(i)' = Up(i)
<1>1. paths[i] \in Urls /\ i \in Nat /\ i \in Used
  BY Numbers DEF Routed, Used
<1>2. /\ Req(sin[i]) \in Seq(Chunks) /\ Req(Pushed(i)) \in Seq(Chunks) /\ Req(WireUp(i)) \in Seq(Chunks)
      /\ Req(cout[i]) \in Seq(Chunks) /\ Req(InHand(i)) \in Seq(Chunks) /\ Req(msg[i].out) \in Seq(Chunks)
  BY <1>1, UpLinks, SeqTypes DEF Inv
<1>3. /\ msg \in [Ids -> ClientMessages] /\ msg[i].out \in Seq(Chunks) /\ cout \in [Ids -> Seq(Chunks)] /\ InHand(i) \in Seq(Chunks)
      /\ http \in [Urls -> Streams] /\ http[paths[i]].up \in Seq(Chunks) /\ WireUp(i) \in Seq(Chunks)
  BY <1>1, SeqTypes DEF Inv, Types, ClientTypes, TypedSeqs
<1>r. /\ Req(<<>>) = <<>> /\ <<>> \in Seq(Chunks)
      /\ \A s, t \in Seq(Chunks) : Req(s \o t) = Req(s) \o Req(t)
      /\ Req(Beat(i)) = <<>> /\ Req(Close(i)) = <<>> /\ Beat(i) \in Seq(Chunks) /\ Close(i) \in Seq(Chunks)
  <2>1. Beat(i) \in Seq(Kind("beat")) /\ Close(i) \in Seq(Kind("close"))
    BY <1>1, SignalTypes, LaneSeq
  <2>2. Req(Beat(i)) = <<>> /\ Req(Close(i)) = <<>>
    BY <2>1, OfKindFacts DEF Req
  <2> QED
    BY <1>1, <2>2, OfKindFacts, WrittenTypes, EmptySeq DEF Req
<1>t. TypedSeqs
  BY SeqTypes DEF Inv
<1>5. CASE ClientCall
  <2> DEFINE j == Head(cq)
             m == Received(msg[j], cin[j], IsStatic(j))
             done == [m EXCEPT !.got = <<>>, !.finished = TRUE]
             o == IF NeedsBeat(j, cin[j], m) THEN Beat(j)
                  ELSE msg[j].out \o (IF m.complete THEN Close(j) ELSE <<>>)
  <2>1. /\ cw = Idle /\ j \in Ids /\ m \in ClientMessages /\ m.out = <<>>
        /\ UNCHANGED <<paths, cout, http, sin, sio>>
    BY <1>5, ClientCallFacts DEF server
  <2>2. msg' = [msg EXCEPT ![j] = IF m.complete THEN done ELSE m] /\ cw' = [pc |-> "called", id |-> j, out |-> o]
    BY <1>5, ClientCallFacts, Zenon
  <2>3. NeedsBeat(j, cin[j], m) => msg[j].out = <<>>
    BY DEF NeedsBeat
  <2>4. j = i => Req(o) = Req(msg[i].out)
    <3>1. msg[i].out \o <<>> = msg[i].out
      BY <1>3, ConcatEmptySeq
    <3>2. Req(msg[i].out \o Close(i)) = Req(msg[i].out) \o <<>>
      BY <1>3, <1>r, ZenonT(60)
    <3>3. Req(msg[i].out) \o <<>> = Req(msg[i].out)
      BY <1>2, ConcatEmptySeq
    <3> QED
      BY <1>r, <2>3, <3>1, <3>2, <3>3
  <2> HIDE DEF j, m, o
  <2>5. done.out = <<>>
    BY <2>1 DEF ClientMessages
  <2> HIDE DEF done
  <2>6. CASE j = i
    <3>1. msg'[i].out = <<>> /\ InHand(i)' = o /\ InHand(i) = <<>>
      BY <1>3, <2>1, <2>2, <2>5, <2>6 DEF InHand, Calling, Idle
    <3>2. Up(i)' = Chain(Req(sin[i]), Req(Pushed(i)), Req(WireUp(i)), Req(cout[i]), Req(msg[i].out), <<>>)
      BY <2>1, <2>4, <2>6, <3>1, <1>r DEF Up, Chain, Pushed, WireUp
    <3>3. Req(msg[i].out) \o <<>> = Req(InHand(i)) \o Req(msg[i].out)
      <4>1. Req(msg[i].out) \o <<>> = Req(msg[i].out) /\ <<>> \o Req(msg[i].out) = Req(msg[i].out)
        BY <1>2, ConcatEmptySeq
      <4> QED
        BY <1>r, <3>1, <4>1, Zenon
    <3> QED
      BY <1>1, <1>2, <1>t, <1>r, <3>2, <3>3, UpMoves
  <2>7. CASE j # i
    <3>1. msg'[i] = msg[i] /\ InHand(i)' = <<>> /\ InHand(i) = <<>>
      BY <1>3, <2>1, <2>2, <2>7 DEF InHand, Calling, Idle
    <3> QED
      BY <2>1, <3>1, UpFrame DEF Pushed
  <2> QED
    BY <2>6, <2>7
<1>6. CASE ClientReturn
  <2>1. cw.pc = "called" /\ cw.id \in Ids /\ cw.out \in Seq(Chunks) /\ cw' = Idle /\ UNCHANGED <<paths, msg, http, sin, sio>>
    BY <1>6, ClientReturnFacts DEF server
  <2>2. \/ cw.out = Close(cw.id) /\ cout' = [cout EXCEPT ![cw.id] = <<>>]
        \/ cout' = [cout EXCEPT ![cw.id] = @ \o cw.out]
    BY <1>6, ClientReturnFacts
  <2>3. InHand(i)' = <<>>
    BY <2>1 DEF InHand, Calling, Idle
  <2>4. CASE cw.id = i
    <3>1. InHand(i) = cw.out
      BY <2>1, <2>4 DEF InHand, Calling
    <3>2. Req(cout'[i]) = Req(cout[i]) \o Req(InHand(i))
      <4>1. CASE cw.out = Close(cw.id) /\ cout' = [cout EXCEPT ![cw.id] = <<>>]
        <5>1. msg[i].complete
          BY <2>1, <2>4, <4>1 DEF Inv, Completes
        <5>2. delivered[i] # <<>>
          BY <5>1 DEF Inv, Completes
        <5>3. execs[i] = 1
          BY <5>2 DEF Inv, AllAsk, AllAnswer, Asking, Answering
        <5>4. Req(cout[i]) = <<>>
          BY <5>3, NoneUnderWay
        <5>5. cout'[i] = <<>>
          BY <1>3, <2>4, <4>1
        <5>6. <<>> \o <<>> = <<>>
          BY <1>r, ConcatEmptySeq
        <5> QED
          BY <1>r, <2>4, <3>1, <4>1, <5>4, <5>5, <5>6
      <4>2. CASE cout' = [cout EXCEPT ![cw.id] = @ \o cw.out]
        <5>1. cout'[i] = cout[i] \o InHand(i) /\ cout[i] \in Seq(Chunks)
          BY <1>3, <2>1, <2>4, <3>1, <4>2
        <5> QED
          BY <1>3, <1>r, <5>1, Zenon
      <4> QED
        BY <2>2, <4>1, <4>2
    <3>3. Up(i)' = Chain(Req(sin[i]), Req(Pushed(i)), Req(WireUp(i)), Req(cout'[i]), <<>>, Req(msg[i].out))
      BY <2>1, <2>3, <1>r DEF Up, Chain, Pushed, WireUp
    <3>4. Req(cout'[i]) \o <<>> = Req(cout[i]) \o Req(InHand(i)) /\ Req(cout'[i]) \in Seq(Chunks)
      BY <1>2, <3>2, ConcatEmptySeq, ConcatProperties
    <3> QED
      BY <1>1, <1>2, <1>t, <1>r, <3>3, <3>4, UpMoves
  <2>5. CASE cw.id # i
    <3>1. cout'[i] = cout[i] /\ InHand(i) = <<>>
      BY <1>3, <2>1, <2>2, <2>5 DEF InHand, Calling
    <3> QED
      BY <2>1, <2>3, <3>1, UpFrame DEF Pushed
  <2> QED
    BY <2>4, <2>5
<1>7. CASE lock_outgoing_chunks
  <2> DEFINE w == cio.url
  <2>1. w \in Urls /\ UNCHANGED <<paths, msg, cw, sin, sio>>
    BY <1>7, LockFacts DEF server
  <2>2. \/ cout' = cout /\ http' = [http EXCEPT ![w].upFin = TRUE]
        \/ \E taken \in Seq(Chunks) :
             /\ http' = [http EXCEPT ![w].up = @ \o taken]
             /\ OfStream(taken, i) \in Seq(Chunks) /\ OfStream(taken, i) \o cout'[i] = cout[i]
             /\ cout'[i] \in Seq(Chunks)
             /\ paths[i] # w => cout'[i] = cout[i]
    BY <1>7, LockFacts
  <2> HIDE DEF w
  <2>3. InHand(i)' = InHand(i) /\ Pushed(i)' = Pushed(i)
    BY <2>1 DEF InHand, Calling, Pushed
  <2>4. CASE cout' = cout /\ http' = [http EXCEPT ![w].upFin = TRUE]
    <3>1. http'[w].up = http[w].up /\ \A v \in Urls : v # w => http'[v] = http[v]
      BY <1>3, <2>1, <2>4, StreamField DEF SameBut
    <3> QED
      BY <1>1, <2>1, <2>3, <2>4, <3>1, UpFrame
  <2>5. ASSUME NEW taken \in Seq(Chunks), http' = [http EXCEPT ![w].up = @ \o taken],
               OfStream(taken, i) \in Seq(Chunks), OfStream(taken, i) \o cout'[i] = cout[i], cout'[i] \in Seq(Chunks),
               paths[i] # w => cout'[i] = cout[i]
        PROVE  Up(i)' = Up(i)
    <3> DEFINE t == http[w].up \o taken
    <3>1. http' = [http EXCEPT ![w].up = t]
      BY <2>5
    <3> HIDE DEF t
    <3>2. http'[w].up = t /\ \A v \in Urls : v # w => http'[v] = http[v]
      BY <1>3, <2>1, <3>1, StreamField
    <3>3. CASE paths[i] # w
      BY <1>1, <2>1, <2>3, <2>5, <3>2, <3>3, UpFrame
    <3>4. CASE paths[i] = w
      <4>1. WireUp(i)' = OfStream(t, i)
        BY <2>1, <3>2, <3>4 DEF WireUp
      <4>2. OfStream(t, i) = WireUp(i) \o OfStream(taken, i)
        BY <1>3, <2>5, <3>4, OfStreamFacts DEF t, WireUp
      <4>3. Req(WireUp(i)') = Req(WireUp(i)) \o Req(OfStream(taken, i))
        <5>1. OfStream(t, i) = WireUp(i) \o OfStream(taken, i) /\ WireUp(i) \in Seq(Chunks) /\ OfStream(taken, i) \in Seq(Chunks)
          BY <1>3, <2>5, <4>2
        <5>2. Req(WireUp(i) \o OfStream(taken, i)) = Req(WireUp(i)) \o Req(OfStream(taken, i))
          BY <1>r, <5>1
        <5> QED
          BY <4>1, <5>1, <5>2
      <4>4. Req(cout[i]) = Req(OfStream(taken, i)) \o Req(cout'[i])
        BY <1>r, <2>5
      <4>5. Req(OfStream(taken, i)) \in Seq(Chunks) /\ Req(cout'[i]) \in Seq(Chunks)
        BY <2>5, OfKindFacts DEF Req
      <4>6. Req(WireUp(i)') \o Req(cout'[i]) = Req(WireUp(i)) \o Req(cout[i]) /\ Req(WireUp(i)') \in Seq(Chunks)
        <5> DEFINE p == Req(WireUp(i))
                   q == Req(OfStream(taken, i))
                   o == Req(cout'[i])
        <5>1. p \in Seq(Chunks) /\ q \in Seq(Chunks) /\ o \in Seq(Chunks)
          BY <1>2, <4>5
        <5>2. Req(WireUp(i)') = p \o q /\ Req(cout[i]) = q \o o
          BY <4>3, <4>4
        <5> HIDE DEF p, q, o
        <5>3. (p \o q) \o o = p \o (q \o o)
          BY ONLY <5>1, ConcatAssociative, SMT
        <5>4. p \o q \in Seq(Chunks)
          BY ONLY <5>1, ConcatProperties
        <5> QED
          BY <5>2, <5>3, <5>4, Zenon DEF p, o
      <4>7. Up(i)' = Chain(Req(sin[i]), Req(Pushed(i)), Req(WireUp(i)'), Req(cout'[i]), Req(InHand(i)), Req(msg[i].out))
        BY <2>1, <2>3 DEF Up, Chain
      <4> QED
        BY <1>1, <1>2, <1>t, <4>5, <4>6, <4>7, UpMoves
    <3> QED
      BY <3>3, <3>4
  <2> QED
    BY <2>2, <2>4, <2>5
<1> QED
  BY <1>5, <1>6, <1>7

(* Only its reader and its writer change what is on a HTTP/3 stream: another one is opened where
   none was, and a stream is closed when it is empty. *)
LEMMA WireFrame ==
  ASSUME Inv, NEW u \in Urls, UrlSteps(u)
  PROVE  /\ ~ServerReceive(u) => \A v \in Urls : http'[v].up = http[v].up
         /\ ~ServerSend(u) /\ ~ClientReceive(u) => \A v \in Urls : http'[v].down = http[v].down
<1>1. /\ http \in [Urls -> Streams]
      /\ ~http[u].open => http[u] = NoStream
  BY DEF Inv, Types, Flags
<1>2. NoStream.up = <<>> /\ NoStream.down = <<>>
  BY DEF NoStream
<1>3. CASE getOutstandingRequest(u)
  <2> DEFINE o == [NoStream EXCEPT !.open = TRUE, !.upFin = u \in StaticUrls]
  <2>1. http' = [http EXCEPT ![u] = o] /\ ~http[u].open
    BY <1>3, OpenFacts
  <2>2. o.up = <<>> /\ o.down = <<>>
    BY DEF NoStream
  <2> HIDE DEF o
  <2>3. http'[u] = o /\ \A v \in Urls : v # u => http'[v] = http[v]
    BY <1>1, <2>1
  <2> QED
    BY <1>1, <1>2, <2>1, <2>2, <2>3
<1>4. CASE ClientClose(u)
  <2>1. http' = [http EXCEPT ![u] = NoStream] /\ http[u].up = <<>> /\ http[u].down = <<>>
    BY <1>4, CloseFacts
  <2>2. http'[u] = NoStream /\ \A v \in Urls : v # u => http'[v] = http[v]
    BY <1>1, <2>1
  <2> QED
    BY <1>2, <2>1, <2>2
<1>5. CASE ClientEnd(u)
  <2>1. http' = [http EXCEPT ![u].upFin = TRUE]
    BY <1>5 DEF ClientEnd
  <2> QED
    BY <1>1, <2>1, StreamField DEF SameBut
<1>6. CASE start_response(u)
  <2>1. http' = [http EXCEPT ![u].started = TRUE]
    BY <1>6, StartFacts
  <2> QED
    BY <1>1, <2>1, StreamField DEF SameBut
<1>7. CASE ClientReceive(u)
  <2> DEFINE t == Tail(http[u].down)
  <2>1. http' = [http EXCEPT ![u].down = t]
    BY <1>7, ReceiveFacts
  <2> HIDE DEF t
  <2> QED
    BY <1>1, <1>7, <2>1, StreamField DEF SameBut
<1>8. CASE ServerReceive(u)
  <2> DEFINE t == Tail(http[u].up)
  <2>1. http' = [http EXCEPT ![u].up = t]
    BY <1>8, ServerReceiveFacts
  <2> HIDE DEF t
  <2> QED
    BY <1>1, <1>8, <2>1, StreamField DEF SameBut
<1>9. CASE ServerSend(u)
  <2>1. http' = [http EXCEPT ![u].downFin = TRUE] \/ \E taken : http' = [http EXCEPT ![u].down = @ \o taken]
    BY <1>9, SendFacts
  <2>2. CASE http' = [http EXCEPT ![u].downFin = TRUE]
    BY <1>1, <1>9, <2>2, StreamField DEF SameBut
  <2>3. ASSUME NEW taken, http' = [http EXCEPT ![u].down = @ \o taken] PROVE \A v \in Urls : http'[v].up = http[v].up
    <3> DEFINE t == http[u].down \o taken
    <3>1. http' = [http EXCEPT ![u].down = t]
      BY <2>3
    <3> HIDE DEF t
    <3> QED
      BY <1>1, <3>1, StreamField DEF SameBut
  <2> QED
    BY <1>9, <2>1, <2>2, <2>3
<1>10. CASE Submit(u) \/ SearchForever(u) \/ ClientPlan(u)
  <2>1. http' = http
    BY <1>10 DEF Submit, SearchForever, ClientPlan
  <2> QED
    BY <2>1
<1> QED
  BY <1>3, <1>4, <1>5, <1>6, <1>7, <1>8, <1>9, <1>10 DEF UrlSteps

(* What the client's queues and messages of a routed stream undergo in the steps of a URL. *)
LEMMA AsideFrame ==
  ASSUME Inv, NEW u \in Urls, UrlSteps(u), NEW i \in Ids, Routed(i)
  PROVE  /\ paths'[i] = paths[i] /\ msg'[i] = msg[i] /\ cout'[i] = cout[i] /\ sin' = sin
         /\ InHand(i)' = InHand(i) /\ ongoing' = ongoing /\ sw' = sw /\ execs'[i] = execs[i] /\ delivered' = delivered
         /\ ~ServerReceive(u) => Pushed(i)' = Pushed(i)
         /\ ~ClientReceive(u) => cin'[i] = cin[i]
         /\ ~ServerSend(u) => sout'[i] = sout[i]
<1>1. /\ msg \in [Ids -> ClientMessages] /\ cout \in [Ids -> Seq(Chunks)] /\ cin \in [Ids -> Seq(Chunks)]
      /\ execs \in [AllIds -> Nat] /\ sout \in [AllIds -> Seq(Chunks)] /\ paths[i] # NoUrl /\ i \in AllIds
      /\ ~IsStatic(i)
  BY Numbers DEF Inv, Types, ClientTypes, ServerTypes, Routed, IsStatic
<1>2. paths'[i] = paths[i]
  BY <1>1, Grows DEF Steps
<1>3. CASE Submit(u)
  <2> DEFINE j == getNewRequestStreamIdentifier(u)
             o == IF u \in StaticUrls THEN Placeholder(j) ELSE RequestOf(j)
  <2>1. /\ UNCHANGED <<delivered, cin, cout, cw, cio, http, server>>
        /\ \/ paths[j] = NoUrl /\ msg' = [msg EXCEPT ![j].out = o]
           \/ msg' = msg
    BY <1>3, SubmitFacts
  <2> HIDE DEF j, o
  <2>2. msg'[i] = msg[i]
    BY <1>1, <2>1
  <2> QED
    BY <1>2, <2>1, <2>2 DEF InHand, Calling, server, Pushed
<1>4. CASE SearchForever(u)
  <2>1. InHand(i)' = InHand(i)
    BY <1>4 DEF SearchForever, InHand, Calling, Idle
  <2> QED
    BY <1>4, <2>1 DEF SearchForever, server, Pushed
<1>5. CASE getOutstandingRequest(u)
  <2> DEFINE j == StaticIdOf(u)
             k == Kept(cout[j], {c \in Chunks : c.kind # "hold"})
  <2>1. /\ UNCHANGED <<calls, nextId, paths, msg, delivered, cq, cin, cw, server>>
        /\ u \notin StaticUrls => cout' = cout
        /\ u \in StaticUrls => IsStatic(j) /\ cout' = [cout EXCEPT ![j] = k]
    BY <1>5, OpenFacts DEF IsStatic
  <2> HIDE DEF j, k
  <2>2. cout'[i] = cout[i]
    BY <1>1, <2>1
  <2> QED
    BY <1>2, <2>1, <2>2 DEF InHand, Calling, server, Pushed
<1>6. CASE ClientEnd(u) \/ ClientPlan(u)
  BY <1>2, <1>6 DEF ClientEnd, ClientPlan, client, server, InHand, Calling, Pushed
<1>7. CASE ClientReceive(u)
  <2>1. UNCHANGED <<calls, nextId, paths, msg, delivered, cq, cout, cw, cio, server>>
    BY <1>7, ReceiveFacts
  <2> QED
    BY <1>7, <2>1 DEF InHand, Calling, server, Pushed
<1>8. CASE ClientClose(u)
  <2> DEFINE j == StaticIdOf(u)
             k == cin[j] \o Close(0)
  <2>1. /\ UNCHANGED <<calls, nextId, paths, msg, delivered, cq, cout, cw, cio, server>>
        /\ u \notin StaticUrls => cin' = cin
        /\ u \in StaticUrls => IsStatic(j) /\ cin' = [cin EXCEPT ![j] = k]
    BY <1>8, CloseFacts DEF IsStatic
  <2> HIDE DEF j, k
  <2>2. cin'[i] = cin[i]
    BY <1>1, <2>1
  <2> QED
    BY <1>2, <2>1, <2>2 DEF InHand, Calling, server, Pushed
<1>9. CASE ServerReceive(u)
  <2>1. UNCHANGED <<client, snext, spaths, sq, sin, sout, ongoing, execs, sw>>
    BY <1>9, ServerReceiveFacts
  <2> QED
    BY <1>9, <2>1 DEF InHand, Calling, client
<1>10. CASE start_response(u)
  <2> DEFINE j == StaticIdOf(u)
  <2>1. /\ UNCHANGED <<client, sin, ongoing, sw, sio>>
        /\ \/ UNCHANGED <<sout, execs>>
           \/ /\ IsStatic(j) /\ snext \notin Ids /\ snext \in AllIds /\ sout' = [sout EXCEPT ![snext] = AnswerOf(snext)]
              /\ execs' = [execs EXCEPT ![j] = 1]
    BY <1>10, StartFacts DEF IsStatic
  <2> HIDE DEF j
  <2>2. execs'[i] = execs[i] /\ sout'[i] = sout[i]
    BY <1>1, <2>1
  <2> QED
    BY <2>1, <2>2 DEF InHand, Calling, client, Pushed
<1>11. CASE ServerSend(u)
  <2>1. UNCHANGED <<client, snext, spaths, sq, sin, ongoing, execs, sw, sio>>
    BY <1>11, SendFacts
  <2> QED
    BY <1>11, <2>1 DEF InHand, Calling, client, Pushed
<1> QED
  BY <1>3, <1>4, <1>5, <1>6, <1>7, <1>8, <1>9, <1>10, <1>11 DEF UrlSteps

(* The steps of the server's I/O thread move the chunks of a request from the HTTP/3 stream to
   the queue of the listener. *)
LEMMA UpServer ==
  ASSUME Inv, NEW u, NEW i \in Ids, Routed(i),
         \/ u \in Urls /\ ServerReceive(u)
         \/ pushIncomingChunk \/ ServerReturn
  PROVE  Up(i)' = Up(i)
<1>1. paths[i] \in Urls /\ i \in Nat /\ i \in AllIds
  BY Numbers DEF Routed
<1>t. TypedSeqs
  BY SeqTypes DEF Inv
<1>2. /\ Req(sin[i]) \in Seq(Chunks) /\ Req(Pushed(i)) \in Seq(Chunks) /\ Req(WireUp(i)) \in Seq(Chunks)
  BY <1>1, <1>t, UpLinks
<1>3. /\ sin \in [AllIds -> Seq(Chunks)] /\ sin[i] \in Seq(Chunks) /\ http \in [Urls -> Streams]
  BY <1>1 DEF Inv, Types, ServerTypes
<1>r. /\ Req(<<>>) = <<>> /\ <<>> \in Seq(Chunks) /\ OfStream(<<>>, i) = <<>>
      /\ \A s, t \in Seq(Chunks) : Req(s \o t) = Req(s) \o Req(t)
      /\ \A s, t \in Seq(Chunks) : OfStream(s \o t, i) = OfStream(s, i) \o OfStream(t, i)
      /\ \A s \in Seq(Chunks) : Req(s) \in Seq(Chunks) /\ OfStream(s, i) \in Seq(Chunks)
  BY <1>1, OfKindFacts, OfStreamFacts, EmptySeq DEF Req
<1>4. CASE u \in Urls /\ ServerReceive(u)
  <2> DEFINE c == Head(http[u].up)
             t == Tail(http[u].up)
             p == OfStream(<<c>>, i)
  <2>1. /\ sio = Idle /\ UNCHANGED <<paths, sin, cout, cw, msg>>
        /\ http[u].up = <<c>> \o t /\ t \in Seq(Chunks) /\ c \in Chunks /\ c.id \in Ids /\ paths[c.id] = u
    BY <1>4, ServerReceiveFacts DEF client
  <2>2. sio' = [pc |-> "push", url |-> u, chunk |-> c, ready |-> HandlerReady(c.id)] /\ http' = [http EXCEPT ![u].up = t]
    BY <1>4, ServerReceiveFacts
  <2>3. <<c>> \in Seq(Chunks) /\ p \in Seq(Chunks)
    <3>1. <<c>> \in Seq(Chunks)
      BY <2>1
    <3> QED
      BY <3>1, <1>r
  <2>4. c.id # i => p = <<>>
    BY <2>1, OfStreamFacts
  <2>5. OfStream(http[u].up, i) = p \o OfStream(t, i)
    <3> DEFINE d == <<c>>
    <3>1. http[u].up = d \o t /\ d \in Seq(Chunks) /\ t \in Seq(Chunks)
      BY <2>1, <2>3
    <3> HIDE DEF d, t, c
    <3>2. OfStream(d \o t, i) = OfStream(d, i) \o OfStream(t, i)
      BY <1>r, <3>1
    <3> QED
      BY <3>1, <3>2 DEF d
  <2>6. Pushed(i) = <<>> /\ Pushed(i)' = p /\ InHand(i)' = InHand(i)
    BY <2>1, <2>2 DEF Pushed, Idle, InHand, Calling
  <2> HIDE DEF c, t, p
  <2>7. http'[u].up = t /\ \A v \in Urls : v # u => http'[v] = http[v]
    BY <1>3, <1>4, <2>2, StreamField
  <2>8. CASE paths[i] # u
    <3>1. Pushed(i)' = Pushed(i)
      BY <2>1, <2>4, <2>6, <2>8
    <3> QED
      BY <1>1, <2>1, <2>6, <2>7, <2>8, <3>1, UpFrame
  <2>9. CASE paths[i] = u
    <3>1. WireUp(i) = p \o OfStream(t, i) /\ WireUp(i)' = OfStream(t, i)
      BY <2>1, <2>5, <2>7, <2>9 DEF WireUp
    <3>2. OfStream(t, i) \in Seq(Chunks)
      BY <1>r, <2>1
    <3>3. Req(WireUp(i)) = Req(p) \o Req(OfStream(t, i)) /\ Req(p) \in Seq(Chunks) /\ Req(OfStream(t, i)) \in Seq(Chunks)
      BY <1>r, <2>3, <3>1, <3>2, ZenonT(60)
    <3>4. <<>> \o Req(WireUp(i)) = Req(WireUp(i))
      BY <1>2, ConcatEmptySeq
    <3>5. Req(p) \o Req(OfStream(t, i)) = Req(Pushed(i)) \o Req(WireUp(i))
      BY <1>r, <2>6, <3>3, <3>4
    <3>6. Up(i)' = Chain(Req(sin[i]), Req(p), Req(OfStream(t, i)), Req(cout[i]), Req(InHand(i)), Req(msg[i].out))
      BY <2>1, <2>6, <3>1 DEF Up, Chain
    <3> QED
      BY <1>1, <1>t, <3>3, <3>5, <3>6, UpMoves
  <2> QED
    BY <2>8, <2>9
<1>5. CASE pushIncomingChunk
  <2> DEFINE c == sio.chunk
             j == c.id
             p == OfStream(<<c>>, i)
  <2>1. /\ sio # Idle /\ c \in Chunks /\ j \in Ids /\ j \in AllIds /\ sin' = [sin EXCEPT ![j] = Append(@, c)]
        /\ sio' = Idle /\ UNCHANGED <<paths, http, cout, cw, msg>>
    BY <1>5, PushFacts DEF client
  <2>2. Pushed(i) = p /\ Pushed(i)' = <<>> /\ InHand(i)' = InHand(i) /\ WireUp(i)' = WireUp(i)
    BY <2>1 DEF Pushed, InHand, Calling, WireUp
  <2>3. p = IF j = i THEN <<c>> ELSE <<>>
    BY <2>1, OfStreamFacts
  <2>3a. <<c>> \in Seq(Chunks)
    BY <2>1
  <2> HIDE DEF c, p
  <2>4. CASE j = i
    <3>1. sin'[i] = sin[i] \o <<c>>
      <4>1. sin'[i] = Append(sin[i], c)
        BY <1>1, <1>3, <2>1, <2>4
      <4>2. Append(sin[i], c) = sin[i] \o <<c>>
        BY <1>3, <2>1, AppendIsConcat
      <4> QED
        BY <4>1, <4>2
    <3>2. Req(sin'[i]) = Req(sin[i]) \o Req(Pushed(i))
      <4> DEFINE d == <<c>>
      <4>1. sin'[i] = sin[i] \o d /\ d \in Seq(Chunks) /\ Pushed(i) = d
        BY <2>2, <2>3, <2>3a, <2>4, <3>1
      <4> HIDE DEF d
      <4>2. Req(sin[i] \o d) = Req(sin[i]) \o Req(d)
        BY <1>3, <1>r, <4>1
      <4> QED
        BY <4>1, <4>2
    <3>3. Req(sin'[i]) \in Seq(Chunks) /\ Req(sin'[i]) \o <<>> = Req(sin'[i])
      BY <1>2, <3>2, ConcatProperties, ConcatEmptySeq
    <3>4. Up(i)' = Chain(Req(sin'[i]), <<>>, Req(WireUp(i)), Req(cout[i]), Req(InHand(i)), Req(msg[i].out))
      BY <1>r, <2>1, <2>2 DEF Up, Chain
    <3>5. Req(sin'[i]) \o <<>> = Req(sin[i]) \o Req(Pushed(i))
      BY <3>2, <3>3
    <3> QED
      BY <1>1, <1>t, <1>r, <3>3, <3>4, <3>5, UpMoves
  <2>5. CASE j # i
    <3>1. Pushed(i)' = Pushed(i) /\ sin'[i] = sin[i]
      BY <1>1, <1>3, <2>1, <2>2, <2>3, <2>5
    <3> QED
      BY <2>1, <2>2, <3>1, UpFrame
  <2> QED
    BY <2>4, <2>5
<1>6. CASE ServerReturn
  <2>1. UNCHANGED <<paths, http, cout, cw, msg, sio>> /\ InHand(i)' = InHand(i) /\ Pushed(i)' = Pushed(i)
    BY <1>6 DEF ServerReturn, client, InHand, Calling, Pushed
  <2>2. sin'[i] = sin[i] \/ (sw.pc = "closed" /\ sw.id = i /\ sin'[i] = <<>>)
    BY <1>1, <1>3, <1>6 DEF ServerReturn
  <2>3. CASE sin'[i] = sin[i]
    BY <2>1, <2>3, UpFrame
  <2>4. CASE sw.pc = "closed" /\ sw.id = i /\ sin'[i] = <<>>
    <3>1. execs[i] = 1
      BY <2>4 DEF Inv, AllAsk, Asking
    <3>2. Req(sin'[i]) = Req(sin[i])
      BY <1>r, <2>4, <3>1, NoneUnderWay
    <3> QED
      BY <2>1, <3>2 DEF Up, WireUp
  <2> QED
    BY <2>2, <2>3, <2>4
<1> QED
  BY <1>4, <1>5, <1>6

(* No step but the worker's call changes what is under way of a request. *)
LEMMA UpStep ==
  ASSUME Inv, NEW u, Steps(u), ~ServerCall, NEW i \in Ids, Routed(i)
  PROVE  Up(i)' = Up(i)
<1>1. paths[i] \in Urls
  BY DEF Routed
<1>2. CASE ClientCall \/ ClientReturn \/ lock_outgoing_chunks
  BY <1>2, UpClient
<1>3. CASE (u \in Urls /\ ServerReceive(u)) \/ pushIncomingChunk \/ ServerReturn
  BY <1>3, UpServer
<1>4. CASE u \in Urls /\ UrlSteps(u) /\ ~ServerReceive(u)
  <2>1. http'[paths[i]].up = http[paths[i]].up
    BY <1>1, <1>4, WireFrame
  <2>2. paths'[i] = paths[i] /\ msg'[i] = msg[i] /\ cout'[i] = cout[i] /\ sin'[i] = sin[i]
        /\ InHand(i)' = InHand(i) /\ Pushed(i)' = Pushed(i)
    BY <1>4, AsideFrame
  <2> QED
    BY <2>1, <2>2, UpFrame
<1>5. CASE hasOutstandingRequest \/ RequestGone
  <2>1. UNCHANGED <<paths, msg, cout, cw, http, server>>
    BY <1>5 DEF hasOutstandingRequest, RequestGone
  <2> QED
    BY <2>1, UpFrame DEF InHand, Calling, Pushed, server
<1> QED
  BY <1>2, <1>3, <1>4, <1>5 DEF Steps, PlainSteps

(* A new identifier finds nothing under way. *)
LEMMA FreshSubmit ==
  ASSUME Inv, NEW u, Steps(u), NEW i \in Ids, paths[i] = NoUrl, paths'[i] # NoUrl
  PROVE  /\ u \in Urls /\ Submit(u) /\ paths'[i] = u
         /\ msg'[i] = [NoMsg EXCEPT !.out = IF u \in StaticUrls THEN Placeholder(i) ELSE RequestOf(i)]
         /\ delivered'[i] = <<>> /\ cin'[i] = <<>> /\ cout'[i] = <<>> /\ sin'[i] = <<>> /\ sout'[i] = <<>>
         /\ ongoing'[i] = NoResponse /\ execs'[i] = 0
         /\ InHand(i)' = <<>> /\ Pushed(i)' = <<>> /\ WireUp(i)' = <<>> /\ WireDown(i)' = <<>>
         /\ ~(sw'.pc = "closed" /\ sw'.id = i)
         /\ http' = http /\ spaths' = spaths
         /\ u \in StaticUrls => \A j \in Ids : paths[j] # u
         /\ \A j \in Ids : j # i => paths'[j] = paths[j]
<1>1. u \in Urls /\ Submit(u)
  <2>1. ASSUME u \in Urls, UrlSteps(u), ~Submit(u) PROVE paths' = paths
    BY <2>1 DEF UrlSteps, SearchForever, getOutstandingRequest, ClientEnd, ClientPlan, ClientReceive,
                ClientClose, ServerReceive, start_response, ServerSend, client
  <2>2. ASSUME PlainSteps PROVE paths' = paths
    BY <2>2 DEF PlainSteps, ClientCall, ClientReturn, hasOutstandingRequest, RequestGone, lock_outgoing_chunks,
                pushIncomingChunk, ServerCall, ServerReturn, client
  <2> QED
    BY <2>1, <2>2 DEF Steps
<1> DEFINE j == getNewRequestStreamIdentifier(u)
           o == IF u \in StaticUrls THEN Placeholder(j) ELSE RequestOf(j)
<1>2. /\ UNCHANGED <<delivered, cin, cout, cw, cio, http, server>> /\ cw = Idle
      /\ \/ /\ paths[j] = NoUrl /\ Unused(j) /\ paths' = [paths EXCEPT ![j] = u] /\ spaths[j] = NoUrl
            /\ msg' = [msg EXCEPT ![j].out = o]
            /\ u \in StaticUrls => \A k \in Ids : paths[k] # u
         \/ paths' = paths
  BY <1>1, SubmitFacts
<1>3. /\ paths \in [Ids -> Urls \cup {NoUrl}] /\ msg \in [Ids -> ClientMessages] /\ http \in [Urls -> Streams]
      /\ \A v \in Urls : http[v].up \in Seq(UpLane(v)) /\ http[v].down \in Seq(DownLane(v))
      /\ sio # Idle => sio.chunk \in UpLane(sio.url) /\ sio.url \in Urls
      /\ sw # Idle => sw.id \in AllIds /\ spaths[sw.id] # NoUrl
      /\ NoUrl \notin Urls /\ i \in AllIds
  BY Numbers DEF Inv, Types, ClientTypes, ServerTypes, Lanes, Known, Opened
<1>4. /\ j = i /\ paths'[i] = u /\ spaths[i] = NoUrl /\ Unused(i) /\ msg' = [msg EXCEPT ![i].out = o]
      /\ u \in StaticUrls => \A k \in Ids : paths[k] # u
      /\ paths' = [paths EXCEPT ![i] = u]
  <2> HIDE DEF j, o
  <2>1. j = i
    BY <1>2, <1>3
  <2> QED
    BY <1>1, <1>2, <1>3, <2>1
<1>5. o = IF u \in StaticUrls THEN Placeholder(i) ELSE RequestOf(i)
  BY <1>4
<1> HIDE DEF j, o
<1>6. msg'[i] = [NoMsg EXCEPT !.out = o]
  BY <1>3, <1>4 DEF Unused
<1>7. OfStream(http[u].up, i) = <<>> /\ OfStream(http[u].down, i) = <<>>
  <2>1. \A c \in UpLane(u) : c.id # i
    BY <1>1, <1>3 DEF UpLane
  <2>2. \A c \in DownLane(u) : c.id # i
    BY <1>1, <1>3, <1>4 DEF DownLane
  <2> QED
    BY <1>1, <1>3, <2>1, <2>2, OfStreamFacts
<1>8. WireUp(i)' = <<>> /\ WireDown(i)' = <<>>
  BY <1>2, <1>4, <1>7 DEF WireUp, WireDown
<1>9. Pushed(i) = <<>>
  <2>1. sio # Idle => sio.chunk \in Chunks /\ sio.chunk.id # i
    BY <1>3 DEF UpLane
  <2>2. sio # Idle => OfStream(<<sio.chunk>>, i) = <<>>
    BY <2>1, OfStreamFacts
  <2> QED
    BY <2>2 DEF Pushed
<1>10. Pushed(i)' = <<>> /\ InHand(i)' = <<>>
  BY <1>2, <1>9 DEF Pushed, InHand, Calling, Idle, server
<1>11. ~(sw.pc = "closed" /\ sw.id = i)
  BY <1>3, <1>4 DEF Idle
<1> QED
  BY <1>1, <1>2, <1>4, <1>5, <1>6, <1>8, <1>10, <1>11 DEF Unused, server

(* The route recognises the last chunk of a request, the client that of an answer. *)
LEMMA RequestEnds ==
  ASSUME NEW i, NEW got \in Seq(Chunks), NEW rest \in Seq(Chunks), got \o rest = RequestOf(i)
  PROVE  RequestComplete(got) <=> rest = <<>>
<1>1. Tells(Request, i, "req", got, rest)
  BY EndsWhole
<1> QED
  BY <1>1 DEF Tells, RequestOf, RequestComplete, RequestPieces

(* The client knows that the answer is whole when nothing of it is on its way. *)
LEMMA AnswerEnds ==
  ASSUME NEW i, NEW got \in Seq(Chunks), NEW rest \in Seq(Chunks), got \o rest = AnswerOf(i)
  PROVE  (can_decode(Response.type, [k \in DOMAIN got |-> ResponsePieces[got[k].n]]) > 0) <=> rest = <<>>
<1>1. Tells(Response, i, "resp", got, rest)
  BY EndsWhole
<1> QED
  BY <1>1 DEF Tells, AnswerOf, ResponsePieces

(* The worker's call takes the chunks that wait for it; the last chunk of the request makes the
   route execute it. *)
LEMMA AskCall ==
  ASSUME Inv, ServerCall, NEW i \in Ids, Routed(i)
  PROVE  Asking(i)'
<1> DEFINE j == Head(sq)
           got == ongoing[j].got \o OfKind(sin[j], "req")
<1>1. /\ sw = Idle /\ j \in AllIds /\ (j \in Ids => Routed(j))
      /\ sin' = [sin EXCEPT ![j] = <<>>]
      /\ UNCHANGED <<paths, msg, cout, cw, http, sio>>
      /\ Silent(j) \/ Ended(j) \/ Gather(j, got)
  BY ServerCallFacts DEF client
<1>2. i \in AllIds /\ i \in Nat /\ paths[i] \in Urls /\ TypedSeqs /\ i \notin StaticIds
  BY SeqTypes, Numbers DEF Inv, Routed
<1>3. sin \in [AllIds -> Seq(Chunks)] /\ sout \in [AllIds -> Seq(Chunks)] /\ execs \in [AllIds -> Nat] /\ ongoing \in [AllIds -> Responses]
      /\ ongoing[i] \in Responses
  BY <1>2 DEF Inv, Types, ServerTypes
<1>4. InHand(i)' = InHand(i) /\ Pushed(i)' = Pushed(i) /\ WireUp(i)' = WireUp(i)
  BY <1>1 DEF InHand, Calling, Pushed, WireUp
<1>5. Asking(i)
  BY DEF Inv, AllAsk
<1> DEFINE rest == Req(Pushed(i)) \o (Req(WireUp(i)) \o (Req(cout[i]) \o (Req(InHand(i)) \o Req(msg[i].out))))
<1>6. Up(i) = Req(sin[i]) \o rest /\ Up(i)' = Req(sin'[i]) \o rest
  BY <1>1, <1>4 DEF Up
<1>7. rest \in Seq(Chunks) /\ Req(sin[i]) \in Seq(Chunks) /\ ongoing[i].got \in Seq(Chunks) /\ Req(<<>>) = <<>>
  <2>1. /\ Req(sin[i]) \in Seq(Chunks) /\ Req(Pushed(i)) \in Seq(Chunks) /\ Req(WireUp(i)) \in Seq(Chunks)
        /\ Req(cout[i]) \in Seq(Chunks) /\ Req(InHand(i)) \in Seq(Chunks) /\ Req(msg[i].out) \in Seq(Chunks)
        /\ ongoing[i].got \in Seq(Chunks)
    BY <1>2, UpLinks DEF TypedSeqs
  <2> QED
    BY <2>1, ConcatProperties, OfKindFacts DEF Req
<1>e. <<>> \o rest = rest
  BY <1>7, ConcatEmptySeq
<1> HIDE DEF rest
<1>8. CASE j # i
  <2> HIDE DEF j, got
  <2>1. sin'[i] = sin[i] /\ ongoing'[i] = ongoing[i] /\ execs'[i] = execs[i] /\ sw'.id # i
    BY <1>1, <1>2, <1>3, <1>8 DEF Silent, Ended, Gather
  <2> QED
    BY <1>1, <1>5, <1>6, <2>1 DEF Asking
<1>9. CASE j = i /\ Silent(i)
  <2>1. sin[i] = <<>> /\ sin'[i] = <<>> /\ ongoing'[i] = ongoing[i] /\ execs' = execs /\ sw'.pc = "served"
    <3> HIDE DEF j, got
    <3> QED
      BY <1>1, <1>2, <1>3, <1>9 DEF Silent
  <2> QED
    BY <1>1, <1>5, <1>6, <2>1 DEF Asking
<1>10. CASE j = i /\ Ended(i)
  <2>1. /\ sin'[i] = <<>> /\ ongoing[i].finished /\ execs' = execs /\ sout' = sout
        /\ ongoing'[i] = NoResponse \/ ongoing'[i] = ongoing[i]
        /\ sw'.pc = "closed" => sout[i] = <<>>
    <3> HIDE DEF j, got
    <3> QED
      BY <1>1, <1>2, <1>3, <1>10 DEF Ended
  <2>2. execs[i] = 1 /\ Up(i) = <<>>
    BY <1>5, <2>1 DEF Asking
  <2>3. rest = <<>>
    BY <1>6, <1>7, <2>2, BothEmpty
  <2>4. Up(i)' = <<>>
    BY <1>6, <1>7, <1>e, <2>1, <2>3
  <2> QED
    BY <1>1, <1>5, <2>1, <2>2, <2>4 DEF Asking, NoResponse
<1>11. CASE j = i /\ Gather(i, got)
  <2>1. got = ongoing[i].got \o Req(sin[i])
    BY <1>11 DEF Req
  <2> HIDE DEF j, got
  <2>2. /\ sin'[i] = <<>> /\ ongoing'[i] = [got |-> got, open |-> TRUE, finished |-> RequestComplete(got)]
        /\ execs'[i] = IF RequestComplete(got) THEN execs[i] + 1 ELSE execs[i]
        /\ sw'.pc = "served"
    BY <1>1, <1>2, <1>3, <1>11 DEF Gather
  <2>3. Up(i)' = rest
    BY <1>6, <1>7, <1>e, <2>2
  <2>4. got \in Seq(Chunks) /\ got \o rest = ongoing[i].got \o Up(i)
    <3> DEFINE p == ongoing[i].got
               q == Req(sin[i])
    <3>1. p \in Seq(Chunks) /\ q \in Seq(Chunks) /\ rest \in Seq(Chunks) /\ got = p \o q /\ Up(i) = q \o rest
      BY <1>6, <1>7, <2>1
    <3> HIDE DEF p, q
    <3>2. (p \o q) \o rest = p \o (q \o rest) /\ p \o q \in Seq(Chunks)
      BY ONLY <3>1, ConcatAssociative, ConcatProperties, SMTT(40)
    <3> QED
      BY <3>1, <3>2 DEF p
  <2>6. CASE execs[i] = 0
    <3>1. got \o rest = RequestOf(i)
      BY <1>5, <2>4, <2>6 DEF Asking
    <3>2. RequestComplete(got) <=> rest = <<>>
      BY <1>7, <2>4, <3>1, RequestEnds
    <3>3. ongoing'[i].open /\ ongoing'[i].got = got /\ ongoing'[i].finished = RequestComplete(got)
      BY <2>2
    <3>4. sw'.pc # "closed" /\ msg'[i].out \in Seq(Kind("req"))
      BY <1>1, <1>5, <2>2 DEF Asking
    <3>5. CASE RequestComplete(got)
      <4>1. execs'[i] = 1
        BY <2>2, <2>6, <3>5
      <4> QED
        BY <2>3, <3>2, <3>3, <3>4, <3>5, <4>1 DEF Asking
    <3>6. CASE ~RequestComplete(got)
      <4>1. execs'[i] = 0
        BY <2>2, <2>6, <3>6
      <4> QED
        BY <2>3, <3>1, <3>3, <3>4, <3>6, <4>1 DEF Asking
    <3> QED
      BY <3>5, <3>6
  <2>7. CASE execs[i] = 1
    <3>1. Up(i) = <<>> /\ ongoing[i].got = <<>>
      BY <1>1, <1>3, <1>5, <1>11, <2>7 DEF Asking, Gather, NoResponse, Responses
    <3>2. rest = <<>> /\ Req(sin[i]) = <<>>
      BY <1>6, <1>7, <3>1, BothEmpty
    <3>3. got = <<>>
      BY <1>7, <2>1, <3>1, <3>2, ConcatEmptySeq
    <3>4. RequestOf(i) \in Seq(Chunks) /\ RequestOf(i) # <<>>
      BY <1>2, MessageTypes, WrittenTypes
    <3>5. got \o RequestOf(i) = RequestOf(i)
      BY <3>3, <3>4, ConcatEmptySeq
    <3>6. ~RequestComplete(got)
      BY <2>4, <3>4, <3>5, RequestEnds
    <3> QED
      BY <1>1, <1>5, <2>2, <2>3, <2>7, <3>2, <3>3, <3>6 DEF Asking
  <2> QED
    BY <1>5, <2>6, <2>7 DEF Asking
<1> QED
  BY <1>1, <1>8, <1>9, <1>10, <1>11

(* A step that leaves the way of the request alone preserves Asking. *)
LEMMA AskKept ==
  ASSUME NEW i, Asking(i), Up(i)' = Up(i), ongoing'[i] = ongoing[i], execs'[i] = execs[i],
         msg'[i].out \in Seq(Kind("req")),
         sw'.pc = "closed" /\ sw'.id = i => execs[i] = 1 /\ sout'[i] = <<>>
  PROVE  Asking(i)'
BY DEF Asking

(* No step loses, doubles or reorders the chunks of a request. *)
LEMMA AskStep == ASSUME Inv, NEW u, Steps(u) PROVE AllAsk'
<1> SUFFICES ASSUME NEW i \in Ids, Routed(i)' PROVE Asking(i)'
  BY DEF AllAsk
<1>1. /\ msg \in [Ids -> ClientMessages] /\ execs \in [AllIds -> Nat] /\ sout \in [AllIds -> Seq(Chunks)] /\ i \in AllIds /\ i \in Nat
      /\ ongoing \in [AllIds -> Responses]
      /\ paths[i] # NoUrl => paths'[i] = paths[i]
  BY Grows, Numbers DEF Inv, Types, ClientTypes, ServerTypes
<1>2. CASE paths[i] = NoUrl
  <2>1. paths'[i] # NoUrl /\ paths'[i] \notin StaticUrls
    BY Numbers DEF Routed
  <2>2. /\ paths'[i] = u /\ msg'[i] = [NoMsg EXCEPT !.out = IF u \in StaticUrls THEN Placeholder(i) ELSE RequestOf(i)]
        /\ cout'[i] = <<>> /\ sin'[i] = <<>> /\ ongoing'[i] = NoResponse /\ execs'[i] = 0
        /\ InHand(i)' = <<>> /\ Pushed(i)' = <<>> /\ WireUp(i)' = <<>>
        /\ ~(sw'.pc = "closed" /\ sw'.id = i)
    BY <1>2, <2>1, FreshSubmit
  <2>3. msg'[i].out = RequestOf(i)
    BY <2>1, <2>2 DEF NoMsg
  <2>4. RequestOf(i) \in Seq(Kind("req")) /\ RequestOf(i) \in Seq(Chunks)
    BY <1>1, MessageTypes, LaneSeq
  <2>5. Req(RequestOf(i)) = RequestOf(i) /\ Req(<<>>) = <<>> /\ <<>> \o RequestOf(i) = RequestOf(i)
    BY <2>4, OfKindFacts, ConcatEmptySeq DEF Req
  <2>6. Up(i)' = RequestOf(i)
    <3>1. Up(i)' = <<>> \o (<<>> \o (<<>> \o (<<>> \o (<<>> \o RequestOf(i)))))
      BY <2>2, <2>3, <2>5 DEF Up
    <3> QED
      BY <2>5, <3>1
  <2>7. NoResponse.got = <<>> /\ ~NoResponse.finished /\ ~NoResponse.open
    BY DEF NoResponse
  <2> QED
    BY <2>2, <2>3, <2>4, <2>5, <2>6, <2>7 DEF Asking
<1>3. CASE paths[i] # NoUrl
  <2>1. Routed(i)
    BY <1>1, <1>3 DEF Routed
  <2>2. Asking(i)
    BY <2>1 DEF Inv, AllAsk
  <2>3. msg[i].out \in Seq(Kind("req")) /\ (sw.pc = "closed" /\ sw.id = i => execs[i] = 1 /\ sout[i] = <<>>)
    BY <2>2 DEF Asking
  <2>4. CASE ServerCall
    BY <2>1, <2>4, AskCall
  <2>5. CASE ~ServerCall
    <3>1. Up(i)' = Up(i)
      BY <2>1, <2>5, UpStep
    <3>2. CASE u \in Urls /\ UrlSteps(u)
      <4>1. /\ msg'[i] = msg[i] /\ ongoing' = ongoing /\ sw' = sw /\ execs'[i] = execs[i]
            /\ ~ServerSend(u) => sout'[i] = sout[i]
        BY <2>1, <3>2, AsideFrame
      <4>2. sout[i] = <<>> => sout'[i] = <<>>
        <5>1. CASE ServerSend(u)
          <6>1. sout' = sout \/ \E taken \in Seq(Chunks) : /\ OfStream(taken, i) \in Seq(Chunks) /\ sout'[i] \in Seq(Chunks)
                                                          /\ OfStream(taken, i) \o sout'[i] = sout[i]
            BY <1>1, <3>2, <5>1, SendFacts
          <6>2. ASSUME NEW taken, OfStream(taken, i) \in Seq(Chunks), sout'[i] \in Seq(Chunks),
                       OfStream(taken, i) \o sout'[i] = <<>>
                PROVE  sout'[i] = <<>>
            BY <6>2, BothEmpty
          <6> QED
            BY <6>1, <6>2
        <5> QED
          BY <4>1, <5>1
      <4> QED
        BY <2>2, <2>3, <3>1, <4>1, <4>2, AskKept
    <3>3. CASE ClientCall
      <4> DEFINE j == Head(cq)
                 m == Received(msg[j], cin[j], IsStatic(j))
                 done == [m EXCEPT !.got = <<>>, !.finished = TRUE]
      <4>1. j \in Ids /\ m \in ClientMessages /\ m.out = <<>> /\ UNCHANGED server
        BY <3>3, ClientCallFacts
      <4>2. msg' = [msg EXCEPT ![j] = IF m.complete THEN done ELSE m]
        BY <3>3, ClientCallFacts, Zenon
      <4> HIDE DEF j, m
      <4>3. done.out = <<>>
        BY <4>1 DEF ClientMessages
      <4> HIDE DEF done
      <4>4. msg'[i].out = msg[i].out \/ msg'[i].out = <<>>
        BY <1>1, <4>1, <4>2, <4>3
      <4>5. msg'[i].out \in Seq(Kind("req"))
        BY <2>3, <4>4, EmptySeq
      <4> QED
        BY <2>2, <2>3, <3>1, <4>1, <4>5, AskKept DEF server
    <3>4. CASE ClientReturn \/ lock_outgoing_chunks
      <4>1. msg' = msg /\ UNCHANGED server
        BY <3>4, ClientReturnFacts, LockFacts
      <4> QED
        BY <2>2, <2>3, <3>1, <4>1, AskKept DEF server
    <3>5. CASE hasOutstandingRequest \/ RequestGone
      BY <2>2, <2>3, <3>1, <3>5, AskKept DEF server, hasOutstandingRequest, RequestGone
    <3>6. CASE pushIncomingChunk
      <4>1. UNCHANGED <<client, http, snext, sout, ongoing, execs, sw>>
        BY <3>6, PushFacts
      <4> QED
        BY <2>2, <2>3, <3>1, <4>1, AskKept DEF client
    <3>7. CASE ServerReturn
      <4>1. msg' = msg /\ ongoing' = ongoing /\ execs' = execs /\ sw'.pc # "closed"
        BY <3>7 DEF ServerReturn, client, Idle
      <4> QED
        BY <2>2, <2>3, <3>1, <4>1, AskKept
    <3> QED
      BY <2>5, <3>2, <3>3, <3>4, <3>5, <3>6, <3>7 DEF Steps, PlainSteps
  <2> QED
    BY <2>4, <2>5
<1> QED
  BY <1>2, <1>3

-------------------------------------------------------------------------------
(* The way of an answer. *)

(* The chain of an answer does not change when two neighbours are split anew. *)
LEMMA DownMoves ==
  ASSUME TypedSeqs, NEW i \in Ids, paths[i] \in Urls, NEW x \in Seq(Chunks), NEW y \in Seq(Chunks)
  PROVE  /\ x \o y = msg[i].got \o cin[i] => x \o (y \o (WireDown(i) \o sout[i])) = Down(i)
         /\ x \o y = cin[i] \o WireDown(i) => msg[i].got \o (x \o (y \o sout[i])) = Down(i)
         /\ x \o y = WireDown(i) \o sout[i] => msg[i].got \o (cin[i] \o (x \o y)) = Down(i)
<1> DEFINE a == msg[i].got
           b == cin[i]
           c == WireDown(i)
           d == sout[i]
<1>1. a \in Seq(Chunks) /\ b \in Seq(Chunks) /\ c \in Seq(Chunks) /\ d \in Seq(Chunks)
  BY DEF TypedSeqs
<1>2. Down(i) = a \o (b \o (c \o d))
  BY DEF Down
<1> HIDE DEF a, b, c, d
<1>3. a \in List(Chunks) /\ b \in List(Chunks) /\ c \in List(Chunks) /\ d \in List(Chunks)
      /\ x \in List(Chunks) /\ y \in List(Chunks)
  BY <1>1 DEF List
<1>4. Cat(c, d) \in List(Chunks)
  BY ONLY <1>3, CatFacts, SMT
<1>5. /\ Cat(x, y) = Cat(a, b) => Cat(x, Cat(y, Cat(c, d))) = Cat(a, Cat(b, Cat(c, d)))
      /\ Cat(x, y) = Cat(b, c) => Cat(a, Cat(x, Cat(y, d))) = Cat(a, Cat(b, Cat(c, d)))
      /\ Cat(x, y) = Cat(c, d) => Cat(a, Cat(b, Cat(x, y))) = Cat(a, Cat(b, Cat(c, d)))
  BY ONLY <1>3, <1>4, Shift, SMT
<1>6. \A p, q : Cat(p, q) = p \o q
  BY DEF Cat
<1>7. /\ x \o y = a \o b => x \o (y \o (c \o d)) = a \o (b \o (c \o d))
      /\ x \o y = b \o c => a \o (x \o (y \o d)) = a \o (b \o (c \o d))
      /\ x \o y = c \o d => a \o (b \o (x \o y)) = a \o (b \o (c \o d))
  BY ONLY <1>5, <1>6, Zenon
<1> QED
  BY <1>2, <1>7 DEF a, b, c, d

(* Such a step does not touch the answer. *)
LEMMA DownFrame ==
  ASSUME NEW i, paths'[i] = paths[i], msg'[i].got = msg[i].got, cin'[i] = cin[i],
         http'[paths[i]].down = http[paths[i]].down, sout'[i] = sout[i]
  PROVE  Down(i)' = Down(i)
BY DEF Down, WireDown

(* The I/O threads move the chunks of an answer from the queue of the listener to that of the
   connector. *)
LEMMA DownIO ==
  ASSUME Inv, NEW u \in Urls, NEW i \in Ids, Routed(i), UrlSteps(u)
  PROVE  Down(i)' = Down(i)
<1>1. paths[i] \in Urls /\ i \in Nat /\ i \in AllIds /\ paths[i] \notin StaticUrls
  BY Numbers DEF Routed
<1>t. TypedSeqs
  BY SeqTypes DEF Inv
<1>2. /\ msg[i].got \in Seq(Chunks) /\ cin[i] \in Seq(Chunks) /\ WireDown(i) \in Seq(Chunks) /\ sout[i] \in Seq(Chunks)
      /\ http \in [Urls -> Streams] /\ http[paths[i]].down \in Seq(Chunks)
  BY <1>1, <1>t DEF TypedSeqs, Inv, Types
<1>3. /\ paths'[i] = paths[i] /\ msg'[i] = msg[i]
      /\ ~ClientReceive(u) => cin'[i] = cin[i]
      /\ ~ServerSend(u) => sout'[i] = sout[i]
  BY AsideFrame
<1>4. ~ServerSend(u) /\ ~ClientReceive(u) => http'[paths[i]].down = http[paths[i]].down
  BY <1>1, WireFrame
<1>r. \A s, t \in Seq(Chunks) : OfStream(s \o t, i) = OfStream(s, i) \o OfStream(t, i)
  BY OfStreamFacts
<1>5. CASE ServerSend(u)
  <2>0. cin'[i] = cin[i]
    <3>1. UNCHANGED client
      BY <1>5, SendFacts
    <3> QED
      BY <3>1 DEF client
  <2>1. \/ sout' = sout /\ http' = [http EXCEPT ![u].downFin = TRUE]
        \/ \E taken \in Seq(Chunks) :
             /\ http' = [http EXCEPT ![u].down = @ \o taken]
             /\ OfStream(taken, i) \in Seq(Chunks) /\ OfStream(taken, i) \o sout'[i] = sout[i] /\ sout'[i] \in Seq(Chunks)
             /\ spaths[i] # u => sout'[i] = sout[i] /\ OfStream(taken, i) = <<>>
    <3>1. CASE sout' = sout /\ http' = [http EXCEPT ![u].downFin = TRUE]
      BY <3>1
    <3>2. ASSUME NEW taken \in Seq(DownLane(u)), taken \in Seq(Chunks), http' = [http EXCEPT ![u].down = @ \o taken],
                 sout' \in [AllIds -> Seq(Chunks)],
                 OfStream(taken, i) \in Seq(Chunks), OfStream(taken, i) \o sout'[i] = sout[i],
                 spaths[i] # u => sout'[i] = sout[i]
          PROVE  \E t \in Seq(Chunks) :
                   /\ http' = [http EXCEPT ![u].down = @ \o t]
                   /\ OfStream(t, i) \in Seq(Chunks) /\ OfStream(t, i) \o sout'[i] = sout[i] /\ sout'[i] \in Seq(Chunks)
                   /\ spaths[i] # u => sout'[i] = sout[i] /\ OfStream(t, i) = <<>>
      <4>1. spaths[i] # u => \A c \in DownLane(u) : c.id # i
        BY DEF DownLane
      <4>2. spaths[i] # u => OfStream(taken, i) = <<>>
        BY <4>1, OfStreamFacts
      <4> QED
        BY <1>1, <3>2, <4>2
    <3> QED
      BY <1>1, <1>5, <3>1, <3>2, SendFacts
  <2>2. CASE sout' = sout /\ http' = [http EXCEPT ![u].downFin = TRUE]
    <3>1. http'[paths[i]].down = http[paths[i]].down
      BY <1>1, <1>2, <2>2, StreamField DEF SameBut
    <3> QED
      BY <1>3, <2>0, <2>2, <3>1, DownFrame
  <2>3. ASSUME NEW taken \in Seq(Chunks), http' = [http EXCEPT ![u].down = @ \o taken],
               OfStream(taken, i) \in Seq(Chunks), OfStream(taken, i) \o sout'[i] = sout[i], sout'[i] \in Seq(Chunks),
               spaths[i] # u => sout'[i] = sout[i] /\ OfStream(taken, i) = <<>>
        PROVE  Down(i)' = Down(i)
    <3> DEFINE t == http[u].down \o taken
    <3>1. http' = [http EXCEPT ![u].down = t]
      BY <2>3
    <3> HIDE DEF t
    <3>2. http'[u].down = t /\ \A v \in Urls : v # u => http'[v] = http[v]
      BY <1>2, <3>1, StreamField
    <3>3. CASE paths[i] # u
      <4>1. spaths[i] # u
        BY <3>3, Numbers DEF Inv, Known
      <4> QED
        BY <1>1, <1>3, <2>0, <2>3, <3>2, <3>3, <4>1, DownFrame
    <3>4. CASE paths[i] = u
      <4> DEFINE p == OfStream(taken, i)
                 x == WireDown(i) \o p
      <4>1. WireDown(i)' = x
        <5>1. OfStream(t, i) = OfStream(http[u].down, i) \o OfStream(taken, i)
          BY <1>2, <1>r, <2>3, <3>4 DEF t
        <5> QED
          BY <1>3, <3>2, <3>4, <5>1 DEF WireDown
      <4>2. p \in Seq(Chunks) /\ p \o sout'[i] = sout[i] /\ sout'[i] \in Seq(Chunks)
        BY <2>3
      <4> HIDE DEF p
      <4>3. x \in Seq(Chunks)
        BY <1>2, <4>2, ConcatProperties
      <4>4. x \o sout'[i] = WireDown(i) \o sout[i]
        <5> DEFINE w == WireDown(i)
                   s == sout'[i]
        <5>1. w \in Seq(Chunks) /\ p \in Seq(Chunks) /\ s \in Seq(Chunks) /\ p \o s = sout[i] /\ x = w \o p
          BY <1>2, <4>2
        <5> HIDE DEF w, s, x
        <5>2. w \in List(Chunks) /\ p \in List(Chunks) /\ s \in List(Chunks)
          BY <5>1 DEF List
        <5>3. Cat(Cat(w, p), s) = Cat(w, Cat(p, s))
          BY ONLY <5>2, CatFacts, SMT
        <5>4. (w \o p) \o s = w \o (p \o s)
          BY ONLY <5>3 DEF Cat
        <5> QED
          BY <5>1, <5>4 DEF w, s
      <4>5. Down(i)' = msg[i].got \o (cin[i] \o (x \o sout'[i]))
        BY <1>3, <2>0, <4>1 DEF Down
      <4> HIDE DEF x
      <4> QED
        BY <1>1, <1>t, <4>2, <4>3, <4>4, <4>5, DownMoves
    <3> QED
      BY <3>3, <3>4
  <2> QED
    BY <2>1, <2>2, <2>3
<1>6. CASE ClientReceive(u) /\ ~ServerSend(u)
  <2> DEFINE c == Head(http[u].down)
             t == Tail(http[u].down)
             d == <<c>>
             j == ReceiverOf(u)
  <2>1. /\ c \in Chunks /\ http[u].down = d \o t /\ t \in Seq(Chunks) /\ j \in Ids /\ paths[j] = u
        /\ cin'[j] = Append(cin[j], c) /\ \A k \in Ids : k # j => cin'[k] = cin[k]
        /\ http' = [http EXCEPT ![u].down = t]
        /\ u \notin StaticUrls => j = c.id
    BY <1>6, ReceiveFacts DEF ReceiverOf
  <2>3. sout'[i] = sout[i]
    BY <1>3, <1>6
  <2> HIDE DEF c, t, j
  <2>2. d \in Seq(Chunks) /\ OfStream(d, i) = IF c.id = i THEN d ELSE <<>>
    <3>1. c \in Chunks
      BY <2>1
    <3>2. d \in Seq(Chunks)
      BY ONLY <3>1
    <3> QED
      BY <3>1, <3>2, OfStreamFacts
  <2>4. http'[u].down = t /\ \A v \in Urls : v # u => http'[v] = http[v]
    BY <1>2, <2>1, StreamField
  <2>5. CASE paths[i] # u
    BY <1>1, <1>3, <2>1, <2>3, <2>4, <2>5, DownFrame
  <2>6. CASE paths[i] = u
    <3>0. j = c.id
      BY <1>1, <2>1, <2>6
    <3>1. Append(cin[i], c) = cin[i] \o d
      BY <1>2, <2>1, AppendIsConcat
    <3> HIDE DEF d
    <3>2. WireDown(i) = OfStream(d, i) \o OfStream(t, i) /\ WireDown(i)' = OfStream(t, i) /\ OfStream(t, i) \in Seq(Chunks)
      <4>1. OfStream(d \o t, i) = OfStream(d, i) \o OfStream(t, i) /\ OfStream(t, i) \in Seq(Chunks)
        BY <1>r, <2>1, <2>2, OfStreamFacts
      <4> QED
        BY <1>3, <2>1, <2>4, <2>6, <4>1 DEF WireDown
    <3>3. CASE c.id = i
      <4> DEFINE x == cin[i] \o d
                 y == OfStream(t, i)
      <4>1. cin'[i] = x /\ x \in Seq(Chunks) /\ y \in Seq(Chunks)
        BY <1>2, <2>1, <2>2, <3>0, <3>1, <3>2, <3>3, ConcatProperties
      <4>2. x \o y = cin[i] \o WireDown(i)
        <5> DEFINE w == cin[i]
        <5>1. w \in Seq(Chunks) /\ d \in Seq(Chunks) /\ y \in Seq(Chunks) /\ WireDown(i) = d \o y /\ x = w \o d
          BY <1>2, <2>2, <3>2, <3>3
        <5> HIDE DEF w, x, y
        <5>2. (w \o d) \o y = w \o (d \o y)
          BY ONLY <5>1, ConcatAssociative, SMT
        <5> QED
          BY <5>1, <5>2 DEF w
      <4>3. Down(i)' = msg[i].got \o (x \o (y \o sout[i]))
        BY <1>3, <2>3, <3>2, <4>1 DEF Down
      <4> HIDE DEF x, y
      <4> QED
        BY <1>1, <1>t, <4>1, <4>2, <4>3, DownMoves
    <3>4. CASE c.id # i
      <4>1. cin'[i] = cin[i] /\ OfStream(d, i) = <<>>
        BY <2>1, <2>2, <3>0, <3>4
      <4>2. WireDown(i)' = WireDown(i)
        <5>1. <<>> \o OfStream(t, i) = OfStream(t, i)
          BY <3>2, ConcatEmptySeq
        <5> QED
          BY <3>2, <4>1, <5>1
      <4> QED
        BY <1>3, <2>3, <4>1, <4>2 DEF Down
    <3> QED
      BY <3>3, <3>4
  <2> QED
    BY <2>5, <2>6
<1> QED
  BY <1>3, <1>4, <1>5, <1>6, DownFrame

(* A part of a message consists of chunks of its kind. *)
LEMMA PartKind ==
  ASSUME NEW k, NEW p \in Seq(Chunks), NEW c \in Seq(Chunks), NEW r \in Seq(Chunks), p \o (c \o r) \in Seq(Kind(k))
  PROVE  c \in Seq(Kind(k))
<1> DEFINE q == c \o r
<1>1. /\ q \in Seq(Chunks) /\ Len(q) = Len(c) + Len(r) /\ Len(c) \in Nat /\ Len(r) \in Nat
      /\ \A n \in 1 .. Len(c) + Len(r) : q[n] = IF n <= Len(c) THEN c[n] ELSE r[n - Len(c)]
  BY ConcatProperties, LenProperties
<1> HIDE DEF q
<1>2. /\ Len(p \o q) = Len(p) + Len(q) /\ Len(p) \in Nat
      /\ \A n \in 1 .. Len(p) + Len(q) : (p \o q)[n] = IF n <= Len(p) THEN p[n] ELSE q[n - Len(p)]
  BY <1>1, ConcatProperties, LenProperties
<1>3. p \o q \in Seq(Kind(k))
  BY DEF q
<1>4. ASSUME NEW n \in 1 .. Len(c) PROVE c[n] \in Kind(k)
  <2>1. n \in Nat /\ n \in 1 .. Len(c) + Len(r) /\ Len(p) + n \in 1 .. Len(p) + Len(q) /\ ~(Len(p) + n <= Len(p))
    BY <1>1, <1>2
  <2>2. (p \o q)[Len(p) + n] = q[Len(p) + n - Len(p)] /\ Len(p) + n - Len(p) = n
    BY <1>2, <2>1
  <2>3. q[n] = c[n]
    BY <1>1, <2>1
  <2>4. (p \o q)[Len(p) + n] \in Kind(k)
    BY <1>2, <1>3, <2>1, ElementOfSeq
  <2> QED
    BY <2>2, <2>3, <2>4
<1>5. c \in [1 .. Len(c) -> Chunks]
  BY LenProperties
<1>6. c \in [1 .. Len(c) -> Kind(k)]
  BY <1>4, <1>5
<1> QED
  BY <1>1, <1>6

(* The updater takes the chunks of the answer, and hands out the whole answer. *)
LEMMA AnswerCall ==
  ASSUME Inv, ClientCall, NEW i \in Ids, Routed(i)
  PROVE  Answering(i)'
<1> DEFINE j == Head(cq)
           m == Received(msg[j], cin[j], IsStatic(j))
           done == [m EXCEPT !.got = <<>>, !.finished = TRUE]
<1>1. /\ cw = Idle /\ cq # <<>> /\ j \in Ids /\ j \in Used /\ m \in ClientMessages
      /\ m.got = msg[j].got \o OfKind(cin[j], "resp")
      /\ m.complete = (msg[j].complete \/ Whole(m.got, cin[j], IsStatic(j)))
      /\ cin' = [cin EXCEPT ![j] = <<>>]
      /\ UNCHANGED <<paths, http, server>>
  BY ClientCallFacts
<1>2. /\ msg' = [msg EXCEPT ![j] = IF m.complete THEN done ELSE m]
      /\ delivered' = IF m.complete THEN [delivered EXCEPT ![j] = Append(@, m.got)] ELSE delivered
  BY ClientCallFacts, Zenon
<1>3. /\ paths[i] \in Urls /\ i \in Nat /\ i \in AllIds /\ ~IsStatic(i) /\ i \in Used
  BY Numbers DEF Routed, IsStatic, Used
<1>t. TypedSeqs
  BY SeqTypes DEF Inv
<1>4. /\ msg[i].got \in Seq(Chunks) /\ cin[i] \in Seq(Chunks) /\ WireDown(i) \in Seq(Chunks) /\ sout[i] \in Seq(Chunks)
      /\ msg \in [Ids -> ClientMessages] /\ cin \in [Ids -> Seq(Chunks)] /\ delivered \in [Ids -> Seq(Seq(Chunks))]
  BY <1>3, <1>t DEF TypedSeqs, Inv, Types, ClientTypes
<1>5. Answering(i) /\ execs[i] \in {0, 1}
  BY DEF Inv, AllAnswer, AllAsk, Asking
<1>6. CASE j # i
  <2> HIDE DEF j, m, done
  <2>1. msg'[i] = msg[i] /\ cin'[i] = cin[i] /\ delivered'[i] = delivered[i]
    BY <1>1, <1>2, <1>4, <1>6
  <2>2. Down(i)' = Down(i)
    BY <1>1, <2>1, DownFrame DEF server
  <2> QED
    BY <1>1, <1>5, <2>1, <2>2 DEF Answering, server
<1>7. CASE j = i
  <2> DEFINE rest == WireDown(i) \o sout[i]
  <2>0. m.complete => execs[i] = 1
    BY <1>7, CompleteCall
  <2>c. execs[i] = 0 => cin[i] = <<>> /\ ~msg[i].complete
    BY <1>1, <1>7, MessageOut
  <2>d. done.got = <<>>
    BY <1>1 DEF ClientMessages
  <2> HIDE DEF done, j, m
  <2>1. /\ m.got = msg[i].got \o OfKind(cin[i], "resp") /\ m \in ClientMessages
        /\ m.complete = (msg[i].complete \/ Whole(m.got, cin[i], IsStatic(i)))
    BY <1>1, <1>7, Zenon
  <2>2. /\ cin'[i] = <<>> /\ msg'[i].got = IF m.complete THEN <<>> ELSE m.got
        /\ delivered'[i] = IF m.complete THEN Append(delivered[i], m.got) ELSE delivered[i]
    BY <1>1, <1>2, <1>4, <1>7, <2>d
  <2>3. rest \in Seq(Chunks)
    BY <1>4, ConcatProperties
  <2>4. Down(i)' = msg'[i].got \o (<<>> \o rest) /\ Down(i) = msg[i].got \o (cin[i] \o rest)
    BY <1>1, <2>2 DEF Down, WireDown, server
  <2>5. <<>> \o rest = rest
    BY <2>3, ConcatEmptySeq
  <2> HIDE DEF rest
  <2>6. CASE execs[i] = 0
    <3>1. Down(i) = <<>> /\ cin[i] = <<>> /\ delivered[i] = <<>> /\ ~m.complete
      BY <1>5, <2>0, <2>c, <2>6 DEF Answering
    <3>2. msg[i].got = <<>> /\ cin[i] \o rest = <<>>
      <4>1. cin[i] \o rest \in Seq(Chunks)
        BY <1>4, <2>3, ConcatProperties
      <4> QED
        BY <1>4, <2>4, <3>1, <4>1, BothEmpty
    <3>3. rest = <<>>
      BY <1>4, <2>3, <3>2, BothEmpty
    <3>4. OfKind(cin[i], "resp") = <<>>
      BY <3>1, OfKindFacts
    <3>5. m.got = <<>>
      BY <2>1, <2>5, <3>2, <3>3, <3>4
    <3>6. Down(i)' = <<>> /\ delivered'[i] = <<>>
      BY <2>2, <2>4, <2>5, <3>1, <3>3, <3>5
    <3> QED
      BY <1>1, <2>6, <3>6 DEF Answering, server
  <2>7. CASE execs[i] = 1
    <3>1. delivered[i] = <<>>
      <4>1. Count(cq, i) > 0
        <5>1. cq \in Seq(Ids)
          BY DEF Inv, Types, ClientTypes
        <5>2. Count(cq, i) = Count(Tail(cq), i) + (IF Head(cq) = i THEN 1 ELSE 0) /\ Count(Tail(cq), i) \in Nat
          BY <1>1, <5>1, CountFacts
        <5> QED
          BY <1>7, <5>2 DEF j
      <4> QED
        BY <4>1 DEF Inv, AllSingle, Single
    <3>2. ~msg[i].complete /\ Down(i) = AnswerOf(i)
      BY <1>5, <2>7, <3>1 DEF Inv, Completes, Answering
    <3>3. cin[i] \in Seq(Kind("resp"))
      <4>1. AnswerOf(i) \in Seq(Kind("resp"))
        BY <1>3, MessageTypes, LaneSeq
      <4> QED
        BY <1>4, <2>3, <2>4, <3>2, <4>1, PartKind
    <3>4. OfKind(cin[i], "resp") = cin[i] /\ OfKind(cin[i], "close") = <<>>
      BY <3>3, OfKindFacts
    <3> DEFINE g == m.got
    <3>5. g = msg[i].got \o cin[i] /\ g \in Seq(Chunks)
      BY <1>4, <2>1, <3>4, ConcatProperties
    <3> HIDE DEF g
    <3>6. g \o rest = AnswerOf(i)
      <4> DEFINE p == msg[i].got
                 q == cin[i]
      <4>1. p \in List(Chunks) /\ q \in List(Chunks) /\ rest \in List(Chunks) /\ g = p \o q /\ p \o (q \o rest) = AnswerOf(i)
        BY <1>4, <2>3, <2>4, <3>2, <3>5 DEF List
      <4> HIDE DEF p, q
      <4>2. Cat(Cat(p, q), rest) = Cat(p, Cat(q, rest))
        BY ONLY <4>1, CatFacts, SMT
      <4> QED
        BY ONLY <4>1, <4>2 DEF Cat
    <3>7. m.complete => rest = <<>>
      <4>1. m.complete => can_decode(Response.type, [k \in DOMAIN g |-> ResponsePieces[g[k].n]]) > 0
        <5>1. m.complete => Whole(m.got, cin[i], IsStatic(i))
          BY <2>1, <3>2
        <5> QED
          BY <1>3, <3>4, <5>1 DEF Whole, g
      <4>2. (can_decode(Response.type, [k \in DOMAIN g |-> ResponsePieces[g[k].n]]) > 0) <=> rest = <<>>
        BY <2>3, <3>5, <3>6, AnswerEnds
      <4> QED
        BY <4>1, <4>2
    <3>8. CASE m.complete
      <4>1. rest = <<>> /\ g = AnswerOf(i)
        <5>1. g \o <<>> = g
          BY <3>5, ConcatEmptySeq
        <5> QED
          BY <3>6, <3>7, <3>8, <5>1
      <4>2. Append(<<>>, g) = <<g>>
        OBVIOUS
      <4>3. delivered'[i] = <<AnswerOf(i)>>
        BY <2>2, <3>1, <3>8, <4>1, <4>2 DEF g
      <4>4. Down(i)' = <<>> /\ <<AnswerOf(i)>> # <<>>
        BY <2>2, <2>4, <2>5, <3>8, <4>1
      <4> QED
        BY <1>1, <2>7, <4>3, <4>4 DEF Answering, server
    <3>9. CASE ~m.complete
      <4>1. Down(i)' = AnswerOf(i) /\ delivered'[i] = <<>>
        BY <2>2, <2>4, <2>5, <3>1, <3>6, <3>9 DEF g
      <4> QED
        BY <1>1, <2>7, <4>1 DEF Answering, server
    <3> QED
      BY <3>8, <3>9
  <2> QED
    BY <1>5, <2>6, <2>7
<1> QED
  BY <1>6, <1>7

(* The route hands out the answer when it has executed the request. *)
LEMMA AnswerServe ==
  ASSUME Inv, ServerCall, NEW i \in Ids, Routed(i)
  PROVE  Answering(i)'
<1> DEFINE j == Head(sq)
           got == ongoing[j].got \o OfKind(sin[j], "req")
<1>1. Silent(j) \/ Ended(j) \/ Gather(j, got)
  BY ServerCallFacts
<1>1a. UNCHANGED <<client, http>> /\ j \in AllIds
  BY ServerCallFacts
<1>2. i \in AllIds /\ i \in Nat /\ paths[i] \in Urls
  BY Numbers DEF Routed
<1>t. TypedSeqs
  BY SeqTypes DEF Inv
<1>3. sout \in [AllIds -> Seq(Chunks)] /\ execs \in [AllIds -> Nat] /\ sout[i] \in Seq(Chunks)
  BY <1>2 DEF Inv, Types, ServerTypes
<1>4. Answering(i) /\ execs[i] \in {0, 1} /\ execs'[i] \in {0, 1}
  <2>1. Asking(i)'
    BY AskCall
  <2> QED
    BY <2>1 DEF Inv, AllAnswer, AllAsk, Asking
<1>5. (execs' = execs /\ sout' = sout)
      \/ (execs' = [execs EXCEPT ![j] = @ + 1] /\ sout' = [sout EXCEPT ![j] = @ \o AnswerOf(j)])
  BY <1>1 DEF Silent, Ended, Gather
<1> HIDE DEF j, got
<1>6. CASE execs'[i] = execs[i] /\ sout'[i] = sout[i]
  <2>1. Down(i)' = Down(i)
    BY <1>1a, <1>6, DownFrame DEF client
  <2> QED
    BY <1>1a, <1>4, <1>6, <2>1 DEF Answering, client
<1>7. CASE execs'[i] = execs[i] + 1 /\ sout'[i] = sout[i] \o AnswerOf(i)
  <2>1. execs[i] = 0 /\ execs'[i] = 1
    BY <1>4, <1>7
  <2>2. delivered[i] = <<>> /\ Down(i) = <<>>
    BY <1>4, <2>1 DEF Answering
  <2>3. msg[i].got = <<>> /\ cin[i] = <<>> /\ WireDown(i) = <<>> /\ sout[i] = <<>>
    BY <1>2, <1>t, <2>2, DownLinks
  <2>4. AnswerOf(i) \in Seq(Chunks)
    BY <1>2, WrittenTypes
  <2>5. <<>> \o AnswerOf(i) = AnswerOf(i)
    BY <2>4, ConcatEmptySeq
  <2>6. Down(i)' = <<>> \o (<<>> \o (<<>> \o (<<>> \o AnswerOf(i))))
    BY <1>1a, <1>7, <2>3 DEF Down, WireDown, client
  <2>7. Down(i)' = AnswerOf(i)
    BY <2>5, <2>6
  <2> QED
    BY <1>1a, <2>1, <2>2, <2>7 DEF Answering, client
<1> QED
  BY <1>1a, <1>2, <1>3, <1>5, <1>6, <1>7

(* No step loses, doubles or reorders the chunks of an answer. *)
LEMMA AnswerStep == ASSUME Inv, NEW u, Steps(u) PROVE AllAnswer'
<1> SUFFICES ASSUME NEW i \in Ids, Routed(i)' PROVE Answering(i)'
  BY DEF AllAnswer
<1>1. paths[i] # NoUrl => paths'[i] = paths[i]
  BY Grows
<1>2. CASE paths[i] = NoUrl
  <2>1. paths'[i] # NoUrl /\ paths'[i] \notin StaticUrls
    BY Numbers DEF Routed
  <2>2. /\ msg'[i] = [NoMsg EXCEPT !.out = IF u \in StaticUrls THEN Placeholder(i) ELSE RequestOf(i)]
        /\ cin'[i] = <<>> /\ WireDown(i)' = <<>> /\ sout'[i] = <<>> /\ execs'[i] = 0 /\ delivered'[i] = <<>>
    BY <1>2, <2>1, FreshSubmit
  <2>3. msg'[i].got = <<>>
    BY <2>2 DEF NoMsg
  <2>4. <<>> \o <<>> = <<>>
    BY EmptySeq, ConcatEmptySeq
  <2>5. Down(i)' = <<>> \o (<<>> \o (<<>> \o <<>>))
    BY <2>2, <2>3 DEF Down
  <2>6. Down(i)' = <<>>
    BY <2>4, <2>5
  <2> QED
    BY <2>2, <2>6 DEF Answering
<1>3. CASE paths[i] # NoUrl
  <2>1. Routed(i)
    BY <1>1, <1>3 DEF Routed
  <2>2. Answering(i) /\ Asking(i)
    BY <2>1 DEF Inv, AllAnswer, AllAsk
  <2>3. CASE ClientCall
    BY <2>1, <2>3, AnswerCall
  <2>4. CASE ServerCall
    BY <2>1, <2>4, AnswerServe
  <2>5. CASE u \in Urls /\ UrlSteps(u)
    <3>1. delivered' = delivered /\ execs'[i] = execs[i]
      BY <2>1, <2>5, AsideFrame
    <3>2. Down(i)' = Down(i)
      BY <2>1, <2>5, DownIO
    <3> QED
      BY <2>2, <3>1, <3>2 DEF Answering
  <2>6. CASE ClientReturn
    <3>1. /\ UNCHANGED <<paths, msg, delivered, http, server>>
          /\ cin'[i] = cin[i] \/ (cw.pc = "called" /\ cw.out = Close(cw.id) /\ cw.id = i /\ cin'[i] = <<>>)
      <4>1. cin \in [Ids -> Seq(Chunks)]
        BY DEF Inv, Types, ClientTypes
      <4> QED
        BY <2>6, <4>1, ClientReturnFacts
    <3>2. cin'[i] = cin[i]
      <4>1. ASSUME cw.pc = "called", cw.out = Close(cw.id), cw.id = i PROVE cin[i] = <<>>
        <5>1. delivered[i] # <<>>
          BY <4>1 DEF Inv, Completes
        <5>2. Down(i) = <<>>
          BY <2>2, <5>1 DEF Answering, Asking
        <5> QED
          BY <2>1, <5>2, DownLinks, SeqTypes DEF Inv, Routed
      <4> QED
        BY <3>1, <4>1
    <3>3. Down(i)' = Down(i)
      BY <3>1, <3>2, DownFrame DEF server
    <3> QED
      BY <2>2, <3>1, <3>3 DEF Answering, server
  <2>7. CASE lock_outgoing_chunks
    <3> DEFINE w == cio.url
    <3>1. /\ UNCHANGED <<calls, nextId, paths, msg, delivered, cq, cin, cw, server>> /\ w \in Urls
          /\ \/ http' = [http EXCEPT ![w].upFin = TRUE]
             \/ \E taken : http' = [http EXCEPT ![w].up = @ \o taken]
      BY <2>7, LockFacts
    <3> HIDE DEF w
    <3>2. http'[paths[i]].down = http[paths[i]].down
      <4>1. http \in [Urls -> Streams] /\ paths[i] \in Urls
        BY <2>1 DEF Inv, Types, Routed
      <4>2. CASE http' = [http EXCEPT ![w].upFin = TRUE]
        BY <3>1, <4>1, <4>2, StreamField DEF SameBut
      <4>3. ASSUME NEW taken, http' = [http EXCEPT ![w].up = @ \o taken] PROVE http'[paths[i]].down = http[paths[i]].down
        <5> DEFINE t == http[w].up \o taken
        <5>1. http' = [http EXCEPT ![w].up = t]
          BY <4>3
        <5> HIDE DEF t
        <5> QED
          BY <3>1, <4>1, <5>1, StreamField DEF SameBut
      <4> QED
        BY <3>1, <4>2, <4>3
    <3>3. Down(i)' = Down(i)
      BY <3>1, <3>2, DownFrame DEF server
    <3> QED
      BY <2>2, <3>1, <3>3 DEF Answering, server
  <2>8. CASE ServerReturn
    <3>1. /\ UNCHANGED <<client, http, execs>>
          /\ sout'[i] = sout[i] \/ (sw.pc = "closed" /\ sw.id = i /\ sout'[i] = <<>>)
      <4>1. sout \in [AllIds -> Seq(Chunks)] /\ i \in AllIds
        BY Numbers DEF Inv, Types, ServerTypes
      <4> QED
        BY <2>8, <4>1 DEF ServerReturn
    <3>2. sout'[i] = sout[i]
      BY <2>2, <3>1 DEF Asking
    <3>3. Down(i)' = Down(i)
      BY <3>1, <3>2, DownFrame DEF client
    <3> QED
      BY <2>2, <3>1, <3>3 DEF Answering, client
  <2>9. CASE hasOutstandingRequest \/ RequestGone \/ pushIncomingChunk
    <3>1. UNCHANGED <<paths, msg, delivered, cin, http, sout, execs>>
      <4>1. pushIncomingChunk => UNCHANGED <<client, http, sout, execs>>
        BY PushFacts
      <4> QED
        BY <2>9, <4>1 DEF hasOutstandingRequest, RequestGone, client, server
    <3>2. Down(i)' = Down(i)
      BY <3>1, DownFrame
    <3> QED
      BY <2>2, <3>1, <3>2 DEF Answering
  <2> QED
    BY <2>3, <2>4, <2>5, <2>6, <2>7, <2>8, <2>9 DEF Steps, PlainSteps
<1> QED
  BY <1>2, <1>3

-------------------------------------------------------------------------------
(* The way of an asset. *)

(* Fetching with the URL of i as a constant. *)
LEMMA FetchedIs ==
  ASSUME NEW i, NEW v, paths'[i] = v, Fetched(i, v)' PROVE Fetching(i)'
BY DEF Fetching, Fetched, Sending, Unsent, Alone

(* What a step must leave alone not to touch the fetch of i. *)
LEMMA FetchFrame ==
  ASSUME NEW i, NEW v, Fetched(i, v), Alone(i, v)', Held(i)' = Held(i), execs'[i] = execs[i],
         http'[v] = http[v], msg'[i] = msg[i], cin'[i] = cin[i], delivered'[i] = delivered[i],
         \A x \in StaticIds : spaths[x] = v => sout'[x] = sout[x],
         \A x \in StaticIds : spaths'[x] = v <=> spaths[x] = v
  PROVE  Fetched(i, v)'
<1>1. execs[i] = 0 => Unsent(i, v)'
  BY DEF Fetched, Unsent
<1>2. ASSUME NEW x \in StaticIds, Sending(i, v, x) PROVE Sending(i, v, x)'
  <2>1. spaths'[x] = v /\ spaths[x] = v /\ sout'[x] = sout[x]
    BY <1>2 DEF Sending
  <2> QED
    BY <1>2, <2>1 DEF Sending
<1> QED
  BY <1>1, <1>2 DEF Fetched

(* What the placeholder's place depends on. *)
LEMMA HeldFrame ==
  ASSUME NEW i, cout'[i] = cout[i], InHand(i)' = InHand(i), msg'[i].out = msg[i].out
  PROVE  Held(i)' = Held(i)
BY DEF Held

(* An asset keeps its identifier for itself. *)
LEMMA StaysAlone ==
  ASSUME Inv, NEW u, Steps(u), NEW i \in Ids, IsStatic(i)
  PROVE  paths'[i] = paths[i] /\ Alone(i, paths[i]) /\ \A j \in Ids : paths'[j] = paths[i] => j = i
<1>1. paths[i] \in StaticUrls /\ paths[i] # NoUrl
  BY Numbers DEF IsStatic
<1>2. paths'[i] = paths[i]
  BY <1>1, Grows
<1>3. Alone(i, paths[i])
  BY DEF Inv, AllFetch, Fetching, Fetched
<1>4. ASSUME NEW j \in Ids, paths'[j] = paths[i] PROVE j = i
  <2>1. CASE paths[j] # NoUrl
    <3>1. paths[j] = paths[i]
      BY <1>4, <2>1, Grows
    <3> QED
      BY <1>3, <3>1 DEF Alone
  <2>2. CASE paths[j] = NoUrl
    <3>1. paths'[j] # NoUrl
      BY <1>1, <1>4
    <3>2. paths'[j] = u /\ (u \in StaticUrls => \A k \in Ids : paths[k] # u)
      BY <2>2, <3>1, FreshSubmit
    <3> QED
      BY <1>1, <1>4, <3>2
  <2> QED
    BY <2>1, <2>2
<1> QED
  BY <1>2, <1>3, <1>4

(* A new fetch starts with its placeholder. *)
LEMMA FetchFresh ==
  ASSUME Inv, NEW u, Steps(u), NEW i \in Ids, paths[i] = NoUrl, IsStatic(i)'
  PROVE  Fetching(i)'
<1>0. paths'[i] \in StaticUrls /\ paths'[i] # NoUrl /\ i \in Nat
  BY Numbers DEF IsStatic
<1>1. /\ u \in Urls /\ paths'[i] = u
      /\ msg'[i] = [NoMsg EXCEPT !.out = IF u \in StaticUrls THEN Placeholder(i) ELSE RequestOf(i)]
      /\ cin'[i] = <<>> /\ cout'[i] = <<>> /\ execs'[i] = 0 /\ InHand(i)' = <<>>
      /\ http' = http /\ spaths' = spaths
      /\ u \in StaticUrls => \A j \in Ids : paths[j] # u
      /\ \A j \in Ids : j # i => paths'[j] = paths[j]
  BY <1>0, FreshSubmit
<1>2. u \in StaticUrls /\ \A j \in Ids : paths[j] # u
  BY <1>0, <1>1
<1>3. http[u] = NoStream
  BY <1>1, <1>2 DEF Inv, Flags
<1>4. ~http'[u].open /\ ~http'[u].started
  BY <1>1, <1>3 DEF NoStream
<1>5. \A x \in StaticIds : spaths'[x] # u
  <2>1. u # NoUrl
    BY <1>0, <1>1
  <2> QED
    BY <1>1, <1>2, <2>1 DEF Inv, Known
<1>6. msg'[i].out = Placeholder(i) /\ msg'[i].got = <<>> /\ ~msg'[i].complete
  BY <1>1, <1>2 DEF NoMsg
<1>7. Held(i)' = Placeholder(i)
  <2>1. Placeholder(i) \in Seq(Chunks)
    BY <1>0, WrittenTypes
  <2>2. <<>> \o Placeholder(i) = Placeholder(i)
    BY <2>1, ConcatEmptySeq
  <2>3. Held(i)' = <<>> \o (<<>> \o Placeholder(i))
    BY <1>1, <1>6 DEF Held
  <2> QED
    BY <2>2, <2>3
<1>8. Fetched(i, u)'
  BY <1>1, <1>2, <1>4, <1>5, <1>6, <1>7 DEF Fetched, Unsent, Alone
<1> QED
  BY <1>1, <1>8, FetchedIs

(* The answer to an asset comes under an identifier of the server. *)
LEMMA SendingFacts ==
  ASSUME Inv, NEW i \in Ids, IsStatic(i), NEW v, v = paths[i], NEW x \in StaticIds, Sending(i, v, x)
  PROVE  /\ v \in Urls /\ v \in StaticUrls /\ x \in AllIds /\ x \in Nat /\ x < snext /\ x \notin Ids
         /\ sout[x] \in Seq(Chunks) /\ AnswerOf(x) \in Seq(Chunks) /\ AnswerOf(x) \in Seq(Kind("resp"))
         /\ http[v].down \in Seq(Lane(x)) /\ http[v].down \in Seq(Chunks)
         /\ OfStream(http[v].down, x) = http[v].down
<1>1. /\ v \in Urls /\ v \in StaticUrls /\ x \in AllIds /\ x \in Nat /\ x \notin Ids /\ v # NoUrl
  BY Numbers DEF IsStatic
<1>2. spaths[x] = v /\ \A y \in StaticIds : spaths[y] = v => y = x
  BY DEF Sending
<1>3. x < snext /\ \A j \in Ids : spaths[j] # v
  BY <1>1, <1>2 DEF Inv, Known
<1>4. sout[x] \in Seq(Chunks)
  BY <1>1 DEF Inv, Types, ServerTypes
<1>5. AnswerOf(x) \in Seq(Chunks) /\ AnswerOf(x) \in Seq(Kind("resp"))
  BY <1>1, MessageTypes, LaneSeq
<1>6. http[v].down \in Seq(Lane(x))
  <2>1. DownLane(v) \subseteq Lane(x)
    BY <1>2, <1>3, Numbers DEF DownLane, Lane
  <2>2. http[v].down \in Seq(DownLane(v))
    BY <1>1 DEF Inv, Lanes
  <2> QED
    BY <2>1, <2>2
<1>7. http[v].down \in Seq(Chunks) /\ OfStream(http[v].down, x) = http[v].down
  BY <1>6, LaneSeq, OfStreamFacts
<1> QED
  BY <1>1, <1>3, <1>4, <1>5, <1>6, <1>7

(* Steps of the client that do not touch the fetch of i. *)
LEMMA FetchClientAside ==
  ASSUME Inv, NEW u, Steps(u), NEW i \in Ids, IsStatic(i), NEW v, v = paths[i],
         \/ hasOutstandingRequest \/ RequestGone \/ lock_outgoing_chunks
         \/ u \in Urls /\ (Submit(u) \/ SearchForever(u) \/ ClientPlan(u) \/ ClientEnd(u))
  PROVE  Fetched(i, v)'
<1>1. /\ Fetched(i, v) /\ v \in StaticUrls /\ v \in Urls /\ v # NoUrl
  BY Numbers DEF Inv, AllFetch, Fetching, IsStatic
<1>2. Alone(i, v)'
  BY StaysAlone DEF Alone
<1>3. http \in [Urls -> Streams] /\ msg \in [Ids -> ClientMessages] /\ cout \in [Ids -> Seq(Chunks)]
  BY DEF Inv, Types, ClientTypes
<1>4. /\ UNCHANGED <<delivered, cin, server>>
      /\ cw' = cw \/ (cw = Idle /\ cw' = [pc |-> "searching"])
      /\ http'[v] = http[v] /\ msg'[i] = msg[i] /\ cout'[i] = cout[i]
  <2>1. CASE hasOutstandingRequest \/ RequestGone \/ (u \in Urls /\ ClientPlan(u))
    <3>1. UNCHANGED <<msg, delivered, cin, cout, cw, http, server>>
      <4>1. ClientPlan(u) => UNCHANGED <<msg, delivered, cin, cout, cw, http, server>>
        BY Zenon DEF ClientPlan
      <4> QED
        BY <2>1, <4>1 DEF hasOutstandingRequest, RequestGone
    <3> QED
      BY <3>1
  <2>2. CASE u \in Urls /\ SearchForever(u)
    BY <2>2 DEF SearchForever
  <2>3. CASE u \in Urls /\ ClientEnd(u)
    <3>1. u # v
      BY <1>1, <2>3 DEF ClientEnd, Inv, Flags
    <3>2. http' = [http EXCEPT ![u].upFin = TRUE] /\ UNCHANGED <<client, server>>
      BY <2>3 DEF ClientEnd
    <3> QED
      BY <1>1, <1>3, <2>3, <3>1, <3>2, StreamField DEF client
  <2>4. CASE u \in Urls /\ Submit(u)
    <3> DEFINE k == getNewRequestStreamIdentifier(u)
               t == [msg[k] EXCEPT !.out = IF u \in StaticUrls THEN Placeholder(k) ELSE RequestOf(k)]
    <3>1. /\ k \in Ids
          /\ UNCHANGED <<delivered, cin, cout, cw, cio, http, server>>
          /\ \/ paths[k] = NoUrl /\ msg' = [msg EXCEPT ![k] = t]
             \/ msg' = msg
      BY <2>4, SubmitFacts
    <3> HIDE DEF k, t
    <3> QED
      BY <1>1, <1>3, <3>1
  <2>5. CASE lock_outgoing_chunks
    <3> DEFINE w == cio.url
    <3>1. /\ UNCHANGED <<calls, nextId, paths, msg, delivered, cq, cin, cw, server>> /\ w \in Urls /\ w \notin StaticUrls
          /\ \/ cout' = cout /\ http' = [http EXCEPT ![w].upFin = TRUE]
             \/ \E taken : /\ http' = [http EXCEPT ![w].up = @ \o taken]
                           /\ \A j \in Ids : paths[j] # w => cout'[j] = cout[j]
      BY <2>5, LockFacts
    <3> HIDE DEF w
    <3>2. w # v /\ paths[i] # w
      BY <1>1, <3>1
    <3>3. CASE cout' = cout /\ http' = [http EXCEPT ![w].upFin = TRUE]
      BY <1>1, <1>3, <3>1, <3>2, <3>3, StreamField
    <3>4. ASSUME NEW taken, http' = [http EXCEPT ![w].up = @ \o taken], \A j \in Ids : paths[j] # w => cout'[j] = cout[j]
          PROVE  http'[v] = http[v] /\ cout'[i] = cout[i]
      BY <1>1, <1>3, <3>1, <3>2, <3>4
    <3> QED
      BY <3>1, <3>3, <3>4
  <2> QED
    BY <2>1, <2>2, <2>3, <2>4, <2>5
<1>5. InHand(i)' = InHand(i)
  BY <1>4 DEF InHand, Calling, Idle
<1>6. Held(i)' = Held(i)
  BY <1>4, <1>5, HeldFrame
<1> QED
  BY <1>1, <1>2, <1>4, <1>6, FetchFrame DEF server

(* Steps of the server that do not touch the fetch of i: its handlers of assets do nothing. *)
LEMMA FetchServerAside ==
  ASSUME Inv, NEW u, Steps(u), NEW i \in Ids, IsStatic(i), NEW v, v = paths[i],
         \/ pushIncomingChunk \/ ServerCall \/ ServerReturn
         \/ u \in Urls /\ ServerReceive(u)
  PROVE  Fetched(i, v)'
<1>1. /\ Fetched(i, v) /\ v \in StaticUrls /\ v \in Urls /\ v # NoUrl /\ ~Routed(i)
  BY Numbers DEF Inv, AllFetch, Fetching, IsStatic, Routed
<1>2. Alone(i, v)'
  BY StaysAlone DEF Alone
<1>3. /\ http \in [Urls -> Streams] /\ spaths \in [AllIds -> Urls \cup {NoUrl}] /\ sout \in [AllIds -> Seq(Chunks)]
      /\ execs \in [AllIds -> Nat] /\ i \in AllIds /\ \A x \in StaticIds : x \in AllIds /\ x \notin Ids
  BY Numbers DEF Inv, Types, ServerTypes
<1>4. /\ UNCHANGED client /\ http'[v] = http[v] /\ execs'[i] = execs[i]
      /\ \A x \in StaticIds : sout'[x] = sout[x] /\ spaths'[x] = spaths[x]
  <2>1. CASE pushIncomingChunk
    <3> DEFINE k == sio.chunk.id
    <3>1. /\ k \in Ids /\ UNCHANGED <<client, http, sout, execs>>
          /\ spaths' = spaths \/ spaths' = [spaths EXCEPT ![k] = paths[k]]
      BY <2>1, PushFacts
    <3> HIDE DEF k
    <3> QED
      BY <1>3, <3>1
  <2>2. CASE ServerCall
    <3> DEFINE k == Head(sq)
               got == ongoing[k].got \o OfKind(sin[k], "req")
    <3>1. k \in AllIds /\ (k \in Ids => Routed(k)) /\ UNCHANGED <<client, http, spaths>>
      BY <2>2, ServerCallFacts
    <3>2. Silent(k) \/ Ended(k) \/ Gather(k, got)
      BY <2>2, ServerCallFacts
    <3>3. \/ execs' = execs /\ sout' = sout
          \/ k \in Ids /\ execs' = [execs EXCEPT ![k] = @ + 1] /\ sout' = [sout EXCEPT ![k] = @ \o AnswerOf(k)]
      BY <3>2 DEF Silent, Ended, Gather
    <3> HIDE DEF k, got
    <3> QED
      BY <1>1, <1>3, <3>1, <3>3
  <2>3. CASE ServerReturn
    <3>1. /\ UNCHANGED <<client, http, spaths, execs>>
          /\ sout' = sout \/ (sw.id \in Ids /\ sout' = [sout EXCEPT ![sw.id] = <<>>])
      BY <2>3 DEF ServerReturn, Inv, Completes
    <3> QED
      BY <1>3, <3>1
  <2>4. CASE u \in Urls /\ ServerReceive(u)
    <3> DEFINE t == Tail(http[u].up)
    <3>1. http' = [http EXCEPT ![u].up = t] /\ u \notin StaticUrls /\ UNCHANGED <<client, spaths, sout, execs>>
      BY <2>4, ServerReceiveFacts
    <3> HIDE DEF t
    <3> QED
      BY <1>1, <1>3, <2>4, <3>1, StreamField
  <2> QED
    BY <2>1, <2>2, <2>3, <2>4
<1>5. Held(i)' = Held(i)
  BY <1>4, HeldFrame DEF InHand, Calling, client
<1> QED
  BY <1>1, <1>2, <1>4, <1>5, FetchFrame DEF client

(* What happens to another stream. *)
LEMMA FetchOther ==
  ASSUME Inv, NEW u \in Urls, Steps(u), NEW i \in Ids, IsStatic(i), NEW v, v = paths[i], u # v,
         \/ getOutstandingRequest(u) \/ ClientReceive(u) \/ ClientClose(u)
         \/ start_response(u) \/ ServerSend(u)
  PROVE  Fetched(i, v)'
<1>1. /\ Fetched(i, v) /\ v \in StaticUrls /\ v \in Urls /\ v # NoUrl
  BY Numbers DEF Inv, AllFetch, Fetching, IsStatic
<1>2. Alone(i, v)'
  BY StaysAlone DEF Alone
<1>3. /\ http \in [Urls -> Streams] /\ spaths \in [AllIds -> Urls \cup {NoUrl}] /\ sout \in [AllIds -> Seq(Chunks)]
      /\ execs \in [AllIds -> Nat] /\ i \in AllIds /\ \A x \in StaticIds : x \in AllIds /\ x \notin Ids
      /\ cout \in [Ids -> Seq(Chunks)] /\ cin \in [Ids -> Seq(Chunks)]
  BY Numbers DEF Inv, Types, ServerTypes, ClientTypes
<1>4. /\ UNCHANGED <<cw, msg, delivered>> /\ http'[v] = http[v] /\ execs'[i] = execs[i]
      /\ cin'[i] = cin[i] /\ cout'[i] = cout[i]
      /\ \A x \in StaticIds : (spaths[x] = v => sout'[x] = sout[x]) /\ (spaths'[x] = v <=> spaths[x] = v)
  <2>1. CASE getOutstandingRequest(u)
    <3> DEFINE o == [NoStream EXCEPT !.open = TRUE, !.upFin = u \in StaticUrls]
               k == StaticIdOf(u)
    <3>1. /\ http' = [http EXCEPT ![u] = o] /\ UNCHANGED <<cw, msg, delivered, cin, server>>
          /\ cout' = cout \/ (paths[k] = u /\ cout' = [cout EXCEPT ![k] = Kept(@, {c \in Chunks : c.kind # "hold"})])
      BY <2>1, OpenFacts
    <3> HIDE DEF o, k
    <3> QED
      BY <1>1, <1>3, <3>1 DEF server
  <2>2. CASE ClientReceive(u)
    <3> DEFINE t == Tail(http[u].down)
               k == ReceiverOf(u)
    <3>1. /\ http' = [http EXCEPT ![u].down = t] /\ UNCHANGED <<cw, msg, delivered, cout, server>>
          /\ paths[k] = u /\ \A j \in Ids : j # k => cin'[j] = cin[j]
      BY <2>2, ReceiveFacts
    <3> HIDE DEF t, k
    <3> QED
      BY <1>1, <1>3, <3>1 DEF server
  <2>3. CASE ClientClose(u)
    <3> DEFINE k == StaticIdOf(u)
    <3>1. /\ http' = [http EXCEPT ![u] = NoStream] /\ UNCHANGED <<cw, msg, delivered, cout, server>>
          /\ cin' = cin \/ (paths[k] = u /\ cin' = [cin EXCEPT ![k] = @ \o Close(0)])
      BY <2>3, CloseFacts
    <3> HIDE DEF k
    <3> QED
      BY <1>1, <1>3, <3>1 DEF server
  <2>4. CASE start_response(u)
    <3> DEFINE k == StaticIdOf(u)
    <3>1. http' = [http EXCEPT ![u].started = TRUE] /\ UNCHANGED client
      BY <2>4, StartFacts
    <3>2. \/ UNCHANGED <<sout, spaths, execs>>
          \/ /\ u \in StaticUrls /\ paths[k] = u /\ snext \in StaticIds
             /\ sout' = [sout EXCEPT ![snext] = AnswerOf(snext)] /\ spaths' = [spaths EXCEPT ![snext] = u]
             /\ execs' = [execs EXCEPT ![k] = 1]
      BY <2>4, StartFacts
    <3>3. \A x \in StaticIds : spaths[x] # NoUrl => x < snext
      BY DEF Inv, Known
    <3>4. snext \in Nat
      BY DEF Inv, Types, ServerTypes
    <3>5. spaths[snext] # v \/ snext \notin StaticIds
      BY <1>1, <3>3, <3>4
    <3> HIDE DEF k
    <3> QED
      BY <1>1, <1>3, <3>1, <3>2, <3>5 DEF client
  <2>5. CASE ServerSend(u)
    <3>1. /\ UNCHANGED <<client, spaths, execs>>
          /\ \/ sout' = sout /\ http' = [http EXCEPT ![u].downFin = TRUE]
             \/ \E taken : /\ http' = [http EXCEPT ![u].down = @ \o taken]
                           /\ \A j \in AllIds : spaths[j] # u => sout'[j] = sout[j]
      BY <2>5, SendFacts
    <3>2. CASE sout' = sout /\ http' = [http EXCEPT ![u].downFin = TRUE]
      BY <1>1, <1>3, <3>1, <3>2, StreamField DEF client
    <3>3. ASSUME NEW taken, http' = [http EXCEPT ![u].down = @ \o taken], \A j \in AllIds : spaths[j] # u => sout'[j] = sout[j]
          PROVE  http'[v] = http[v] /\ \A x \in StaticIds : spaths[x] = v => sout'[x] = sout[x]
      BY <1>1, <1>3, <3>3
    <3> QED
      BY <3>1, <3>2, <3>3 DEF client
  <2> QED
    BY <2>1, <2>2, <2>3, <2>4, <2>5
<1>5. Held(i)' = Held(i)
  BY <1>4, HeldFrame DEF InHand, Calling
<1> QED
  BY <1>1, <1>2, <1>4, <1>5, FetchFrame

(* A placeholder is in one place. *)
LEMMA HoldSplit ==
  ASSUME NEW i \in Nat, NEW a \in Seq(Chunks), NEW b \in Seq(Chunks), a \o b = Placeholder(i), a # <<>>
  PROVE  a = Placeholder(i) /\ b = <<>>
<1>1. Placeholder(i) \in Seq(Chunks) /\ Len(Placeholder(i)) = 1
  BY WrittenTypes DEF Placeholder
<1>2. Len(a) + Len(b) = 1 /\ Len(a) \in Nat /\ Len(b) \in Nat /\ Len(a) # 0
  BY <1>1, ConcatProperties, LenProperties, EmptySeq
<1>3. Len(b) = 0
  BY <1>2
<1>4. b = <<>>
  BY <1>3, EmptySeq
<1>5. a \o <<>> = a
  BY ConcatEmptySeq
<1> QED
  BY <1>4, <1>5

(* The stream of an asset is opened for its placeholder, which nothing is left of. *)
LEMMA FetchOpen ==
  ASSUME Inv, NEW v \in Urls, Steps(v), getOutstandingRequest(v), NEW i \in Ids, IsStatic(i), v = paths[i]
  PROVE  Fetched(i, v)'
<1> DEFINE o == [NoStream EXCEPT !.open = TRUE, !.upFin = v \in StaticUrls]
           held == IF InHand(i) = Close(i) THEN <<>> ELSE InHand(i)
           rest == held \o msg[i].out
<1>1. /\ Fetched(i, v) /\ v \in StaticUrls /\ i \in Nat
  BY Numbers DEF Inv, AllFetch, Fetching, IsStatic
<1>2. Alone(i, v) /\ Alone(i, v)'
  BY StaysAlone DEF Alone
<1>3. /\ http' = [http EXCEPT ![v] = o]
      /\ UNCHANGED <<calls, nextId, paths, msg, delivered, cq, cin, cw, server>>
      /\ \E j \in Ids : paths[j] = v /\ cout[j] # <<>>
      /\ StaticIdOf(v) \in Ids /\ paths[StaticIdOf(v)] = v
      /\ cout' = [cout EXCEPT ![StaticIdOf(v)] = Kept(@, {c \in Chunks : c.kind # "hold"})]
  BY <1>1, OpenFacts
<1>4. StaticIdOf(v) = i /\ cout[i] # <<>>
  BY <1>2, <1>3 DEF Alone
<1>5. /\ cout[i] \in Seq(Chunks) /\ InHand(i) \in Seq(Chunks) /\ msg[i].out \in Seq(Chunks)
      /\ held \in Seq(Chunks) /\ rest \in Seq(Chunks) /\ cout \in [Ids -> Seq(Chunks)] /\ http \in [Urls -> Streams]
  <2>1. TypedSeqs
    BY SeqTypes DEF Inv
  <2>2. cout[i] \in Seq(Chunks) /\ InHand(i) \in Seq(Chunks) /\ msg[i].out \in Seq(Chunks)
    BY <2>1 DEF TypedSeqs
  <2>3. held \in Seq(Chunks)
    BY <2>2, EmptySeq
  <2> HIDE DEF held
  <2>4. rest \in Seq(Chunks)
    BY <2>2, <2>3, ConcatProperties
  <2> QED
    BY <2>2, <2>3, <2>4 DEF Inv, Types, ClientTypes
<1>6. Held(i) = cout[i] \o rest
  BY DEF Held
<1>7. Held(i)' = cout'[i] \o rest
  BY <1>3 DEF Held, InHand, Calling
<1>8. o.open /\ ~o.started
  BY DEF NoStream
<1> HIDE DEF o, rest, held
<1>9. Held(i) # <<>>
  BY ONLY <1>4, <1>5, <1>6, BothEmpty
<1>10. Held(i) = Placeholder(i) /\ execs[i] = 0 /\ Unsent(i, v)
  BY <1>1, <1>9 DEF Fetched
<1>11. cout[i] = Placeholder(i) /\ rest = <<>>
  BY <1>1, <1>4, <1>5, <1>6, <1>10, HoldSplit
<1>12. cout'[i] = <<>>
  <2>1. Kept(Placeholder(i), {c \in Chunks : c.kind # "hold"}) = <<>>
    <3>1. Chunk(i, "hold", 0) \notin {c \in Chunks : c.kind # "hold"}
      BY DEF Chunk
    <3> QED
      BY <3>1, KeptOne DEF Placeholder
  <2> QED
    BY <1>3, <1>4, <1>5, <1>11, <2>1
<1>13. Held(i)' = <<>>
  <2>1. <<>> \o <<>> = <<>>
    BY EmptySeq, ConcatEmptySeq
  <2> QED
    BY <1>7, <1>11, <1>12, <2>1
<1>14. http'[v] = o
  BY <1>3, <1>5
<1>15. execs'[i] = 0 /\ Unsent(i, v)'
  BY <1>3, <1>8, <1>10, <1>14 DEF Unsent, server
<1> QED
  BY <1>2, <1>13, <1>15 DEF Fetched

(* A chunk of the asset moves from the stream to the reader. *)
LEMMA FetchReceive ==
  ASSUME Inv, NEW v \in Urls, Steps(v), ClientReceive(v), NEW i \in Ids, IsStatic(i), v = paths[i]
  PROVE  Fetched(i, v)'
<1> DEFINE c == Head(http[v].down)
           t == Tail(http[v].down)
<1>1. /\ Fetched(i, v) /\ v \in StaticUrls /\ i \in Nat /\ http \in [Urls -> Streams]
  BY Numbers DEF Inv, Types, AllFetch, Fetching, IsStatic
<1>2. Alone(i, v) /\ Alone(i, v)'
  BY StaysAlone DEF Alone
<1>3. /\ http[v].open /\ http[v].down # <<>> /\ http[v].down = <<c>> \o t /\ t \in Seq(Chunks) /\ c \in Chunks
      /\ ReceiverOf(v) \in Ids /\ paths[ReceiverOf(v)] = v
      /\ cin'[ReceiverOf(v)] = Append(cin[ReceiverOf(v)], c)
      /\ http' = [http EXCEPT ![v].down = t]
      /\ UNCHANGED <<calls, nextId, paths, msg, delivered, cq, cout, cw, cio, server>>
  BY ReceiveFacts
<1>4. ReceiverOf(v) = i
  BY <1>2, <1>3 DEF Alone
<1>5. execs[i] = 1
  <2>1. http[v].started
    BY <1>3 DEF Inv, Flags
  <2> QED
    BY <1>1, <2>1 DEF Fetched, Unsent
<1>6. PICK x \in StaticIds : Sending(i, v, x)
  BY <1>1, <1>5 DEF Fetched
<1>7. /\ sout[x] \in Seq(Chunks) /\ http[v].down \in Seq(Lane(x)) /\ OfStream(http[v].down, x) = http[v].down
  BY <1>6, SendingFacts
<1>8. t \in Seq(Lane(x)) /\ OfStream(t, x) = t
  <2>1. t \in Seq(Lane(x))
    BY <1>3, <1>7, HeadThenTail
  <2> QED
    BY <2>1, OfStreamFacts
<1> HIDE DEF c, t
<1>9. http'[v].down = t /\ SameBut(http[v], http'[v], "down")
  BY <1>1, <1>3, StreamField
<1>10. msg[i].got \in Seq(Chunks) /\ cin[i] \in Seq(Chunks)
  BY SeqTypes DEF Inv, TypedSeqs
<1>11. msg[i].got \o (Append(cin[i], c) \o (t \o sout[x])) = msg[i].got \o (cin[i] \o (http[v].down \o sout[x]))
  <2> DEFINE q == cin[i]
             h == <<c>>
             s == sout[x]
             d == http[v].down
  <2>1. Append(q, c) = q \o h /\ h \in Seq(Chunks)
    BY <1>3, <1>10, AppendIsConcat
  <2>2. q \in List(Chunks) /\ h \in List(Chunks) /\ t \in List(Chunks) /\ s \in List(Chunks) /\ d = h \o t
    BY <1>3, <1>7, <1>10, <2>1 DEF List
  <2> HIDE DEF q, h, s, d
  <2>3. Cat(Cat(q, h), Cat(t, s)) = Cat(q, Cat(h, Cat(t, s))) /\ Cat(Cat(h, t), s) = Cat(h, Cat(t, s))
    BY ONLY <2>2, CatFacts, SMT
  <2>4. (q \o h) \o (t \o s) = q \o (d \o s)
    BY ONLY <2>2, <2>3 DEF Cat
  <2> QED
    BY <2>1, <2>4 DEF q, s, d
<1>12. Sending(i, v, x)'
  <2>1. http'[v].open /\ http'[v].started = http[v].started /\ http'[v].downFin = http[v].downFin
    BY <1>3, <1>9 DEF SameBut
  <2>2. ~msg[i].complete /\ http[v].started
        /\ msg[i].got \o (cin[i] \o (OfStream(http[v].down, x) \o sout[x])) = AnswerOf(x)
        /\ (http[v].downFin => sout[x] = <<>>)
        /\ spaths[x] = v /\ (\A y \in StaticIds : spaths[y] = v => y = x)
    BY <1>3, <1>6 DEF Sending
  <2>3. msg'[i].got \o (cin'[i] \o (OfStream(http'[v].down, x) \o sout'[x])) = AnswerOf(x)
    BY <1>3, <1>4, <1>7, <1>8, <1>9, <1>11, <2>2 DEF server
  <2> QED
    BY <1>3, <2>1, <2>2, <2>3 DEF Sending, server
<1>13. Held(i)' = Held(i)
  BY <1>3, HeldFrame DEF InHand, Calling
<1>14. Held(i) = <<>>
  BY <1>1, <1>5 DEF Fetched
<1> QED
  BY <1>2, <1>3, <1>5, <1>12, <1>13, <1>14 DEF Fetched, server

(* The end of the stream tells the reader that the asset is whole. *)
LEMMA FetchClose ==
  ASSUME Inv, NEW v \in Urls, Steps(v), ClientClose(v), NEW i \in Ids, IsStatic(i), v = paths[i]
  PROVE  Fetched(i, v)'
<1>1. /\ Fetched(i, v) /\ v \in StaticUrls /\ i \in Nat /\ http \in [Urls -> Streams] /\ cin \in [Ids -> Seq(Chunks)]
  BY Numbers DEF Inv, Types, ClientTypes, AllFetch, Fetching, IsStatic
<1>2. Alone(i, v) /\ Alone(i, v)'
  BY StaysAlone DEF Alone
<1>3. /\ http[v].open /\ http[v].downFin /\ http[v].down = <<>> /\ http[v].started
      /\ http' = [http EXCEPT ![v] = NoStream]
      /\ StaticIdOf(v) \in Ids /\ paths[StaticIdOf(v)] = v
      /\ cin' = [cin EXCEPT ![StaticIdOf(v)] = @ \o Close(0)]
      /\ UNCHANGED <<calls, nextId, paths, msg, delivered, cq, cout, cw, cio, server>>
  BY <1>1, CloseFacts
<1>4. StaticIdOf(v) = i
  BY <1>2, <1>3 DEF Alone
<1>5. execs[i] = 1
  BY <1>1, <1>3 DEF Fetched, Unsent
<1>6. PICK x \in StaticIds : Sending(i, v, x)
  BY <1>1, <1>5 DEF Fetched
<1>7. /\ spaths[x] = v /\ (\A y \in StaticIds : spaths[y] = v => y = x) /\ ~msg[i].complete
      /\ msg[i].got \o (cin[i] \o (OfStream(http[v].down, x) \o sout[x])) = AnswerOf(x) /\ sout[x] = <<>>
  BY <1>3, <1>6 DEF Sending
<1>8. OfStream(http[v].down, x) = <<>>
  BY <1>3, OfStreamFacts
<1>9. msg[i].got \o cin[i] = AnswerOf(x) /\ cin[i] \in Seq(Chunks)
  <2>1. <<>> \o <<>> = <<>> /\ cin[i] \o <<>> = cin[i]
    BY <1>1, EmptySeq, ConcatEmptySeq
  <2> QED
    BY <1>1, <1>7, <1>8, <2>1
<1>10. cin'[i] = cin[i] \o Close(0)
  BY <1>1, <1>3, <1>4
<1>11. http'[v] = NoStream /\ ~NoStream.open
  BY <1>1, <1>3 DEF NoStream
<1>12. Sending(i, v, x)'
  <2>1. \E rest \in Seq(Chunks) : cin'[i] = rest \o Close(0) /\ msg'[i].got \o rest = AnswerOf(x)
    BY <1>3, <1>9, <1>10
  <2> QED
    BY <1>3, <1>7, <1>11, <2>1 DEF Sending, server
<1>13. Held(i)' = Held(i)
  BY <1>3, HeldFrame DEF InHand, Calling
<1>14. Held(i) = <<>>
  BY <1>1, <1>5 DEF Fetched
<1> QED
  BY <1>2, <1>3, <1>5, <1>12, <1>13, <1>14 DEF Fetched, server

(* The server starts to answer: the whole asset waits under a new identifier. *)
LEMMA FetchStart ==
  ASSUME Inv, NEW v \in Urls, Steps(v), start_response(v), NEW i \in Ids, IsStatic(i), v = paths[i]
  PROVE  Fetched(i, v)'
<1>1. /\ Fetched(i, v) /\ v \in StaticUrls /\ http \in [Urls -> Streams]
      /\ spaths \in [AllIds -> Urls \cup {NoUrl}] /\ sout \in [AllIds -> Seq(Chunks)] /\ execs \in [AllIds -> Nat]
      /\ i \in AllIds /\ \A x \in StaticIds : x \in AllIds
  BY Numbers DEF Inv, Types, ServerTypes, AllFetch, Fetching, IsStatic
<1>2. Alone(i, v) /\ Alone(i, v)'
  BY StaysAlone DEF Alone
<1>3. /\ http[v].open /\ ~http[v].started
      /\ http' = [http EXCEPT ![v].started = TRUE] /\ UNCHANGED client
      /\ StaticIdOf(v) \in Ids /\ paths[StaticIdOf(v)] = v /\ execs[StaticIdOf(v)] = 0
      /\ snext \in StaticIds /\ snext \in Nat
      /\ sout' = [sout EXCEPT ![snext] = AnswerOf(snext)]
      /\ spaths' = [spaths EXCEPT ![snext] = v]
      /\ execs' = [execs EXCEPT ![StaticIdOf(v)] = 1]
  BY <1>1, StartFacts
<1>4. StaticIdOf(v) = i
  BY <1>2, <1>3 DEF Alone
<1>5. Unsent(i, v) /\ execs'[i] = 1
  BY <1>1, <1>3, <1>4 DEF Fetched
<1>6. http[v].down = <<>> /\ ~http[v].downFin
  BY <1>1, <1>3 DEF Inv, Flags, Types, Streams
<1>7. http'[v].started /\ http'[v].open /\ http'[v].down = <<>> /\ ~http'[v].downFin
  BY <1>1, <1>3, <1>6, StreamField DEF SameBut
<1>8. ASSUME NEW x \in StaticIds, x = snext PROVE Sending(i, v, x)'
  <2>1. spaths'[x] = v /\ \A y \in StaticIds : spaths'[y] = v => y = x
    BY <1>1, <1>3, <1>5, <1>8 DEF Unsent
  <2>2. sout'[x] = AnswerOf(x) /\ AnswerOf(x) \in Seq(Chunks)
    BY <1>1, <1>3, <1>8, WrittenTypes
  <2>3. msg'[i].got = <<>> /\ cin'[i] = <<>> /\ ~msg'[i].complete
    BY <1>3, <1>5 DEF Unsent, client
  <2>4. <<>> \o AnswerOf(x) = AnswerOf(x)
    BY <2>2, ConcatEmptySeq
  <2>5. OfStream(<<>>, x) = <<>>
    BY OfStreamFacts
  <2>6. msg'[i].got \o (cin'[i] \o (OfStream(http'[v].down, x) \o sout'[x])) = AnswerOf(x)
    BY <1>7, <2>2, <2>3, <2>4, <2>5
  <2> QED
    BY <1>7, <2>1, <2>3, <2>6 DEF Sending
<1>9. \E x \in StaticIds : Sending(i, v, x)'
  <2>1. \E x \in StaticIds : x = snext
    BY <1>3
  <2> QED
    BY <1>8, <2>1
<1>10. Held(i)' = Held(i)
  BY <1>3, HeldFrame DEF InHand, Calling, client
<1>11. Held(i) = <<>>
  BY <1>1, <1>3 DEF Fetched
<1> QED
  BY <1>2, <1>5, <1>9, <1>10, <1>11 DEF Fetched

(* The server sends what waits for the URL, or ends the stream. *)
LEMMA FetchSend ==
  ASSUME Inv, NEW v \in Urls, Steps(v), ServerSend(v), NEW i \in Ids, IsStatic(i), v = paths[i]
  PROVE  Fetched(i, v)'
<1>1. /\ Fetched(i, v) /\ v \in StaticUrls /\ http \in [Urls -> Streams] /\ sout \in [AllIds -> Seq(Chunks)]
  BY DEF Inv, Types, ServerTypes, AllFetch, Fetching, IsStatic
<1>2. Alone(i, v)'
  BY StaysAlone DEF Alone
<1>3. /\ http[v].open /\ http[v].started /\ ~http[v].downFin
      /\ UNCHANGED <<client, snext, spaths, sq, sin, ongoing, execs, sw, sio>>
      /\ \/ /\ Waiting(sout, spaths, v) = {}
            /\ sout' = sout /\ http' = [http EXCEPT ![v].downFin = TRUE]
         \/ \E taken \in Seq(DownLane(v)) :
              /\ taken \in Seq(Chunks)
              /\ http' = [http EXCEPT ![v].down = @ \o taken]
              /\ \A j \in AllIds : /\ sout'[j] \in Seq(Lane(j)) /\ OfStream(taken, j) \in Seq(Chunks)
                                   /\ OfStream(taken, j) \o sout'[j] = sout[j]
  <2>1. /\ http[v].open /\ http[v].started /\ ~http[v].downFin
        /\ UNCHANGED <<client, snext, spaths, sq, sin, ongoing, execs, sw, sio>>
        /\ \/ /\ Waiting(sout, spaths, v) = {}
              /\ sout' = sout /\ http' = [http EXCEPT ![v].downFin = TRUE]
           \/ \E taken \in Seq(DownLane(v)) :
                 /\ taken \in Seq(Chunks)
                 /\ http' = [http EXCEPT ![v].down = @ \o taken]
                 /\ sout' \in [AllIds -> Seq(Chunks)]
                 /\ \A j \in AllIds : /\ sout'[j] \in Seq(Lane(j)) /\ OfStream(taken, j) \in Seq(Chunks)
                                      /\ OfStream(taken, j) \o sout'[j] = sout[j]
                                      /\ spaths[j] # v => sout'[j] = sout[j]
    BY SendFacts
  <2> QED
    BY <2>1, Zenon
<1>4. execs[i] = 1
  BY <1>1, <1>3 DEF Fetched, Unsent
<1>5. PICK x \in StaticIds : Sending(i, v, x)
  BY <1>1, <1>4 DEF Fetched
<1>6. /\ x \in AllIds /\ sout[x] \in Seq(Chunks) /\ http[v].down \in Seq(Chunks)
  BY <1>5, SendingFacts
<1>7. /\ ~msg[i].complete /\ spaths[x] = v /\ (\A y \in StaticIds : spaths[y] = v => y = x)
      /\ msg[i].got \o (cin[i] \o (OfStream(http[v].down, x) \o sout[x])) = AnswerOf(x)
  BY <1>3, <1>5 DEF Sending
<1>8. Sending(i, v, x)'
  <2>1. CASE /\ Waiting(sout, spaths, v) = {}
             /\ sout' = sout /\ http' = [http EXCEPT ![v].downFin = TRUE]
    <3>1. sout[x] = <<>>
      BY <1>1, <1>6, <1>7, <2>1 DEF Waiting
    <3>2. http'[v].open /\ http'[v].started /\ http'[v].down = http[v].down
      BY <1>1, <1>3, <2>1, StreamField DEF SameBut
    <3> QED
      BY <1>3, <1>7, <2>1, <3>1, <3>2 DEF Sending, client
  <2>2. ASSUME NEW taken \in Seq(Chunks), http' = [http EXCEPT ![v].down = @ \o taken],
               \A j \in AllIds : /\ sout'[j] \in Seq(Lane(j)) /\ OfStream(taken, j) \in Seq(Chunks)
                                 /\ OfStream(taken, j) \o sout'[j] = sout[j]
        PROVE  Sending(i, v, x)'
    <3> DEFINE t == http[v].down \o taken
               a == OfStream(http[v].down, x)
               b == OfStream(taken, x)
               r == sout'[x]
    <3>1. http' = [http EXCEPT ![v].down = t]
      BY <2>2
    <3>2. OfStream(t, x) = a \o b /\ a \in Seq(Chunks) /\ b \in Seq(Chunks)
      BY <1>6, OfStreamFacts
    <3>3. r \in Seq(Chunks) /\ b \o r = sout[x]
      BY <1>6, <2>2, LaneSeq
    <3> HIDE DEF t, a, b, r
    <3>4. http'[v].open /\ http'[v].started /\ http'[v].down = t /\ http'[v].downFin = http[v].downFin
      <4>1. http'[v].down = t /\ SameBut(http[v], http'[v], "down")
        BY <1>1, <3>1, StreamField
      <4>2. http'[v].open = http[v].open /\ http'[v].started = http[v].started /\ http'[v].downFin = http[v].downFin
        BY <4>1 DEF SameBut
      <4> QED
        BY <1>3, <4>1, <4>2
    <3>5. (a \o b) \o r = a \o sout[x]
      <4>1. a \in List(Chunks) /\ b \in List(Chunks) /\ r \in List(Chunks)
        BY <3>2, <3>3 DEF List
      <4>2. Cat(Cat(a, b), r) = Cat(a, Cat(b, r))
        BY ONLY <4>1, CatFacts, SMT
      <4> QED
        BY ONLY <3>3, <4>2 DEF Cat
    <3>6. msg'[i].got \o (cin'[i] \o (OfStream(http'[v].down, x) \o sout'[x])) = AnswerOf(x)
      BY <1>3, <1>7, <3>2, <3>4, <3>5 DEF a, r, client
    <3> QED
      BY <1>3, <1>7, <3>4, <3>6 DEF Sending, client
  <2> QED
    BY <1>3, <2>1, <2>2
<1>9. Held(i)' = Held(i)
  BY <1>3, HeldFrame DEF InHand, Calling, client
<1>10. Held(i) = <<>>
  BY <1>1, <1>4 DEF Fetched
<1> QED
  BY <1>2, <1>3, <1>4, <1>8, <1>9, <1>10 DEF Fetched

(* The chunks that wait for the reader of an asset make up the rest of it; the close signal comes
   last. *)
LEMMA FetchReceived ==
  ASSUME Inv, NEW i \in Ids, IsStatic(i), NEW v, v = paths[i], NEW x \in StaticIds, Sending(i, v, x),
         NEW got, got = msg[i].got \o OfKind(cin[i], "resp")
  PROVE  /\ msg[i].complete => got = <<>>
         /\ ~msg[i].complete /\ http[v].open =>
              /\ OfKind(cin[i], "close") = <<>>
              /\ got \o (<<>> \o (OfStream(http[v].down, x) \o sout[x])) = AnswerOf(x)
         /\ ~msg[i].complete /\ ~http[v].open => OfKind(cin[i], "close") # <<>> /\ got = AnswerOf(x)
<1> DEFINE p == msg[i].got
           q == cin[i]
           r == OfStream(http[v].down, x) \o sout[x]
<1>1. /\ msg[i] \in ClientMessages /\ p \in Seq(Chunks) /\ q \in Seq(Chunks)
  BY SeqTypes DEF Inv, TypedSeqs
<1>2. got = p \o OfKind(q, "resp")
  OBVIOUS
<1>4. /\ sout[x] \in Seq(Chunks) /\ AnswerOf(x) \in Seq(Kind("resp")) /\ http[v].down \in Seq(Chunks)
      /\ OfStream(http[v].down, x) = http[v].down
  BY SendingFacts
<1>5. r \in Seq(Chunks)
  BY <1>4, ConcatProperties
<1>6. CASE msg[i].complete
  <2>1. p = <<>> /\ q = <<>>
    BY <1>6 DEF Sending
  <2>2. OfKind(q, "resp") = <<>> /\ <<>> \o <<>> = <<>>
    BY <2>1, OfKindFacts, EmptySeq, ConcatEmptySeq
  <2>3. got = <<>>
    BY <1>2, <2>1, <2>2
  <2> QED
    BY <1>6, <2>3
<1>7. CASE ~msg[i].complete /\ http[v].open
  <2>1. p \o (q \o r) = AnswerOf(x)
    BY <1>7 DEF Sending
  <2> HIDE DEF p, q, r
  <2>2. q \in Seq(Kind("resp"))
    <3>1. p \o (q \o r) \in Seq(Kind("resp"))
      BY <1>4, <2>1
    <3> QED
      BY <1>1, <1>5, <3>1, PartKind
  <2>3. OfKind(q, "resp") = q /\ OfKind(q, "close") = <<>>
    BY <2>2, OfKindFacts
  <2>5. (p \o q) \o r = p \o (q \o r)
    <3>1. p \in List(Chunks) /\ q \in List(Chunks) /\ r \in List(Chunks)
      BY <1>1, <1>5 DEF List
    <3>2. Cat(Cat(p, q), r) = Cat(p, Cat(q, r))
      BY ONLY <3>1, CatFacts, SMT
    <3> QED
      BY ONLY <3>2 DEF Cat
  <2>6. <<>> \o r = r
    BY <1>5, ConcatEmptySeq
  <2>7. got \o (<<>> \o r) = AnswerOf(x)
    BY <1>2, <2>1, <2>3, <2>5, <2>6
  <2> QED
    BY <1>7, <2>3, <2>7 DEF q, r
<1>8. CASE ~msg[i].complete /\ ~http[v].open
  <2>1. PICK rest \in Seq(Chunks) : q = rest \o Close(0) /\ p \o rest = AnswerOf(x)
    BY <1>8 DEF Sending
  <2> HIDE DEF p, q, r
  <2>2. rest \o <<>> = rest /\ <<>> \in Seq(Chunks)
    BY ConcatEmptySeq, EmptySeq
  <2>3. p \o (rest \o <<>>) \in Seq(Kind("resp"))
    BY <1>4, <2>1, <2>2
  <2>4. rest \in Seq(Kind("resp"))
    BY <1>1, <2>2, <2>3, PartKind
  <2>5. Close(0) \in Seq(Kind("close")) /\ Close(0) \in Seq(Chunks) /\ Close(0) # <<>>
    BY SignalTypes, LaneSeq
  <2>6. /\ OfKind(rest, "resp") = rest /\ OfKind(rest, "close") = <<>>
        /\ OfKind(Close(0), "resp") = <<>> /\ OfKind(Close(0), "close") = Close(0)
    BY <2>4, <2>5, OfKindFacts
  <2>7. OfKind(q, "resp") = rest \o <<>> /\ OfKind(q, "close") = <<>> \o Close(0)
    <3>1. /\ OfKind(rest \o Close(0), "resp") = OfKind(rest, "resp") \o OfKind(Close(0), "resp")
          /\ OfKind(rest \o Close(0), "close") = OfKind(rest, "close") \o OfKind(Close(0), "close")
      BY <2>5, OfKindFacts
    <3> QED
      BY <2>1, <2>6, <3>1
  <2>8. <<>> \o Close(0) = Close(0)
    BY <2>5, ConcatEmptySeq
  <2>9. OfKind(q, "close") # <<>>
    BY <2>5, <2>7, <2>8
  <2>10. got = AnswerOf(x)
    BY <1>2, <2>1, <2>2, <2>7
  <2> QED
    BY <1>8, <2>9, <2>10 DEF q
<1> QED
  BY <1>6, <1>7, <1>8

(* What waits to be sent passes into the hands of the updater. *)
LEMMA HeldCall ==
  ASSUME Inv, ClientCall, NEW i, i = Head(cq), IsStatic(i)
  PROVE  Held(i)' = Held(i)
<1> DEFINE m == Received(msg[i], cin[i], IsStatic(i))
           done == [m EXCEPT !.got = <<>>, !.finished = TRUE]
           end == IF m.complete THEN Close(i) ELSE <<>>
<1>1. /\ cw = Idle /\ i \in Ids /\ i \in Used /\ i \in Nat
      /\ m \in ClientMessages /\ m.out = <<>>
      /\ cw'.id = i /\ cw'.pc = "called" /\ cout' = cout
  BY ClientCallFacts, Numbers
<1>2. msg' = [msg EXCEPT ![i] = IF m.complete THEN done ELSE m]
  BY DEF ClientCall, messageHandler
<1>3. cw'.out = msg[i].out \o end
  <2>1. ~NeedsBeat(i, cin[i], m)
    BY DEF NeedsBeat
  <2>2. cw' = [pc |-> "called", id |-> i,
               out |-> IF NeedsBeat(i, cin[i], m) THEN Beat(i) ELSE msg[i].out \o end]
    BY ClientCallFacts
  <2> HIDE DEF m, end
  <2> QED
    BY <2>1, <2>2
<1>4. done.out = <<>>
  BY <1>1 DEF ClientMessages
<1>5. m.complete => msg[i].out = <<>>
  BY CompleteCall
<1>6. InHand(i) = <<>> /\ msg[i].out # Close(i)
  BY <1>1, MessageOut
<1>7. msg[i].out \in Seq(Chunks) /\ msg \in [Ids -> ClientMessages] /\ Close(i) \in Seq(Chunks)
  <2>1. TypedSeqs
    BY SeqTypes DEF Inv
  <2> QED
    BY <1>1, <2>1, WrittenTypes DEF TypedSeqs, Inv, Types, ClientTypes
<1> HIDE DEF m, done
<1>8. msg'[i].out = <<>>
  BY <1>1, <1>2, <1>4, <1>7
<1>9. InHand(i)' = msg[i].out \o end
  BY <1>1, <1>3 DEF InHand, Calling
<1>10. <<>> \o msg[i].out = msg[i].out /\ msg[i].out \o <<>> = msg[i].out /\ <<>> \o Close(i) = Close(i) /\ <<>> \o <<>> = <<>>
  BY <1>7, EmptySeq, ConcatEmptySeq
<1>11. Held(i) = cout[i] \o msg[i].out
  <2>1. Held(i) = cout[i] \o (<<>> \o msg[i].out)
    BY <1>6 DEF Held
  <2> QED
    BY <1>10, <2>1
<1>12. CASE m.complete
  <2>1. InHand(i)' = Close(i) /\ msg[i].out = <<>>
    BY <1>5, <1>9, <1>10, <1>12
  <2>2. Held(i)' = cout[i] \o (<<>> \o <<>>)
    BY <1>1, <1>8, <2>1 DEF Held
  <2> QED
    BY <1>10, <1>11, <2>1, <2>2
<1>13. CASE ~m.complete
  <2>1. InHand(i)' = msg[i].out
    BY <1>9, <1>10, <1>13
  <2>2. Held(i)' = cout[i] \o (msg[i].out \o <<>>)
    BY <1>1, <1>6, <1>8, <2>1 DEF Held
  <2> QED
    BY <1>10, <1>11, <2>2
<1> QED
  BY <1>12, <1>13

(* The updater takes what came in. *)
LEMMA FetchCall ==
  ASSUME Inv, NEW u, Steps(u), ClientCall, NEW i \in Ids, IsStatic(i), NEW v, v = paths[i]
  PROVE  Fetched(i, v)'
<1> DEFINE j == Head(cq)
           m == Received(msg[j], cin[j], IsStatic(j))
           done == [m EXCEPT !.got = <<>>, !.finished = TRUE]
<1>1. /\ cw = Idle /\ j \in Ids /\ j \in Used /\ m \in ClientMessages
      /\ m.got = msg[j].got \o OfKind(cin[j], "resp")
      /\ m.complete = (msg[j].complete \/ Whole(m.got, cin[j], IsStatic(j)))
      /\ cin' = [cin EXCEPT ![j] = <<>>]
      /\ cw'.id = j /\ cw'.pc = "called"
      /\ UNCHANGED <<calls, nextId, paths, cout, cio, http, server>>
  BY ClientCallFacts
<1>2. /\ msg' = [msg EXCEPT ![j] = IF m.complete THEN done ELSE m]
      /\ delivered' = IF m.complete THEN [delivered EXCEPT ![j] = Append(@, m.got)] ELSE delivered
  BY ClientCallFacts, Zenon
<1>3. /\ Fetched(i, v)
      /\ msg \in [Ids -> ClientMessages] /\ cin \in [Ids -> Seq(Chunks)] /\ delivered \in [Ids -> Seq(Seq(Chunks))]
  BY DEF Inv, Types, ClientTypes, AllFetch, Fetching
<1>4. Alone(i, v)'
  BY StaysAlone DEF Alone
<1>5. CASE j # i
  <2> HIDE DEF j, m, done
  <2>1. msg'[i] = msg[i] /\ cin'[i] = cin[i] /\ delivered'[i] = delivered[i]
    BY <1>1, <1>2, <1>3, <1>5
  <2>2. InHand(i) = <<>> /\ InHand(i)' = <<>>
    BY <1>1, <1>5 DEF InHand, Calling, Idle
  <2>3. Held(i)' = Held(i)
    BY <1>1, <2>1, <2>2, HeldFrame
  <2> QED
    BY <1>1, <1>3, <1>4, <2>1, <2>3, FetchFrame DEF server
<1>6. CASE j = i
  <2>1. Held(i)' = Held(i)
    BY <1>6, HeldCall
  <2>2. /\ m.complete => execs[i] = 1
        /\ execs[i] = 0 => cin[i] = <<>> /\ ~msg[i].complete
    BY <1>1, <1>6, CompleteCall, MessageOut
  <2>3. done.got = <<>> /\ done.complete = m.complete
    BY <1>1 DEF ClientMessages
  <2>4. m.complete <=> (msg[i].complete \/ OfKind(cin[i], "close") # <<>>)
    <3>1. Whole(m.got, cin[i], IsStatic(i)) <=> OfKind(cin[i], "close") # <<>>
      BY DEF Whole
    <3> HIDE DEF m
    <3>2. m.complete = (msg[i].complete \/ Whole(m.got, cin[i], IsStatic(i)))
      BY <1>1, <1>6, Zenon
    <3> QED
      BY <3>1, <3>2
  <2> HIDE DEF done, j, m
  <2>5. /\ cin'[i] = <<>> /\ msg'[i].got = IF m.complete THEN <<>> ELSE m.got
        /\ msg'[i].complete = m.complete
        /\ delivered'[i] = IF m.complete THEN Append(delivered[i], m.got) ELSE delivered[i]
        /\ m.got = msg[i].got \o OfKind(cin[i], "resp")
    BY <1>1, <1>2, <1>3, <1>6, <2>3
  <2>6. CASE execs[i] = 0
    <3>1. Unsent(i, v) /\ ~m.complete
      BY <1>3, <2>2, <2>6 DEF Fetched
    <3>2. OfKind(<<>>, "resp") = <<>> /\ <<>> \o <<>> = <<>>
      BY OfKindFacts, EmptySeq, ConcatEmptySeq
    <3>3. m.got = <<>>
      BY <2>5, <3>1, <3>2 DEF Unsent
    <3>4. Unsent(i, v)'
      BY <1>1, <2>5, <3>1, <3>3 DEF Unsent, server
    <3> QED
      BY <1>1, <1>3, <1>4, <2>1, <2>6, <3>4 DEF Fetched, server
  <2>7. CASE execs[i] = 1
    <3>1. PICK x \in StaticIds : Sending(i, v, x)
      BY <1>3, <2>7 DEF Fetched
    <3>2. /\ msg[i].complete => m.complete /\ m.got = <<>>
          /\ ~msg[i].complete /\ http[v].open =>
               ~m.complete /\ m.got \o (<<>> \o (OfStream(http[v].down, x) \o sout[x])) = AnswerOf(x)
          /\ ~msg[i].complete /\ ~http[v].open => m.complete /\ m.got = AnswerOf(x)
      <4>1. /\ msg[i].complete => m.got = <<>>
            /\ ~msg[i].complete /\ http[v].open =>
                 /\ OfKind(cin[i], "close") = <<>>
                 /\ m.got \o (<<>> \o (OfStream(http[v].down, x) \o sout[x])) = AnswerOf(x)
            /\ ~msg[i].complete /\ ~http[v].open => OfKind(cin[i], "close") # <<>> /\ m.got = AnswerOf(x)
        <5>1. m.got = msg[i].got \o OfKind(cin[i], "resp")
          BY <2>5
        <5>2. x \in StaticIds /\ Sending(i, v, x)
          BY <3>1
        <5>3. /\ msg[i].complete => m.got = <<>>
              /\ ~msg[i].complete /\ http[v].open =>
                 /\ OfKind(cin[i], "close") = <<>>
                 /\ m.got \o (<<>> \o (OfStream(http[v].down, x) \o sout[x])) = AnswerOf(x)
          BY <5>1, <5>2, FetchReceived
        <5>4. ~msg[i].complete /\ ~http[v].open => OfKind(cin[i], "close") # <<>> /\ m.got = AnswerOf(x)
          BY <5>1, <5>2, FetchReceived, ZenonT(60)
        <5> QED
          BY <5>3, <5>4
      <4> QED
        BY <2>4, <4>1
    <3>3. msg[i].complete \in BOOLEAN /\ (msg[i].complete <=> delivered[i] # <<>>) /\ delivered[i] \in Seq(Seq(Chunks))
      BY <1>3 DEF Inv, Completes, ClientMessages
    <3>4. spaths'[x] = v /\ (\A y \in StaticIds : spaths'[y] = v => y = x) /\ sout'[x] = sout[x] /\ http'[v] = http[v]
      BY <1>1, <3>1 DEF Sending, server
    <3>5. Sending(i, v, x)'
      <4>1. CASE msg[i].complete
        <5>1. ~http[v].open /\ delivered[i][1] = AnswerOf(x)
          BY <3>1, <4>1 DEF Sending
        <5>2. delivered'[i] = Append(delivered[i], m.got) /\ delivered[i] # <<>>
          BY <2>5, <3>2, <3>3, <4>1
        <5>3. delivered'[i][1] = delivered[i][1]
          <6>1. m.got \in Seq(Chunks)
            BY <1>1 DEF ClientMessages
          <6>2. Len(delivered[i]) \in Nat /\ Len(delivered[i]) # 0
            BY <3>3, <5>2, EmptySeq, LenProperties
          <6> QED
            BY <3>3, <5>2, <6>1, <6>2
        <5>4. msg'[i].complete /\ msg'[i].got = <<>>
          BY <2>5, <3>2, <4>1
        <5> QED
          BY <2>5, <3>4, <5>1, <5>3, <5>4 DEF Sending
      <4>2. CASE ~msg[i].complete /\ http[v].open
        <5>1. ~msg'[i].complete /\ msg'[i].got = m.got
          BY <2>5, <3>2, <4>2
        <5>2. msg'[i].got \o (cin'[i] \o (OfStream(http'[v].down, x) \o sout'[x])) = AnswerOf(x)
          BY <2>5, <3>2, <3>4, <4>2, <5>1
        <5>3. http[v].started /\ (http[v].downFin => sout[x] = <<>>)
          BY <3>1, <4>2 DEF Sending
        <5> QED
          BY <3>4, <4>2, <5>1, <5>2, <5>3 DEF Sending
      <4>3. CASE ~msg[i].complete /\ ~http[v].open
        <5>1. msg'[i].complete /\ msg'[i].got = <<>> /\ delivered'[i] = Append(delivered[i], AnswerOf(x))
          BY <2>5, <3>2, <4>3
        <5>2. delivered'[i][1] = AnswerOf(x)
          <6>1. delivered[i] = <<>>
            BY <3>3, <4>3
          <6>2. Append(<<>>, AnswerOf(x)) = <<AnswerOf(x)>>
            OBVIOUS
          <6> QED
            BY <5>1, <6>1, <6>2
        <5> QED
          BY <2>5, <3>4, <4>3, <5>1, <5>2 DEF Sending
      <4> QED
        BY <3>3, <4>1, <4>2, <4>3
    <3> QED
      BY <1>1, <1>3, <1>4, <2>1, <2>7, <3>5 DEF Fetched, server
  <2> QED
    BY <1>3, <2>6, <2>7 DEF Fetched
<1> QED
  BY <1>5, <1>6

(* The updater hands over what the handler wants to send, or closes the stream. *)
LEMMA FetchReturn ==
  ASSUME Inv, NEW u, Steps(u), ClientReturn, NEW i \in Ids, IsStatic(i), NEW v, v = paths[i]
  PROVE  Fetched(i, v)'
<1>1. /\ Fetched(i, v) /\ i \in Nat
      /\ cin \in [Ids -> Seq(Chunks)] /\ cout \in [Ids -> Seq(Chunks)]
  BY Numbers DEF Inv, Types, ClientTypes, AllFetch, Fetching
<1>2. Alone(i, v)'
  BY StaysAlone DEF Alone
<1>3. /\ cw.pc = "called" /\ cw.id \in Ids /\ cw.out \in Seq(Chunks) /\ cw' = Idle
      /\ \/ /\ cw.out = Close(cw.id)
            /\ cin' = [cin EXCEPT ![cw.id] = <<>>] /\ cout' = [cout EXCEPT ![cw.id] = <<>>]
         \/ /\ cw.out # Close(cw.id)
            /\ cin' = cin /\ cout' = [cout EXCEPT ![cw.id] = @ \o cw.out]
      /\ UNCHANGED <<calls, nextId, paths, msg, delivered, cio, http, server>>
  BY ClientReturnFacts
<1>4. InHand(i)' = <<>>
  BY <1>3 DEF InHand, Calling, Idle
<1>5. msg[i].out \in Seq(Chunks) /\ cout[i] \in Seq(Chunks)
  BY SeqTypes DEF Inv, TypedSeqs
<1>6. Held(i)' = cout'[i] \o msg[i].out
  <2>1. Held(i)' = cout'[i] \o (<<>> \o msg[i].out)
    BY <1>3, <1>4 DEF Held
  <2>2. <<>> \o msg[i].out = msg[i].out
    BY <1>5, ConcatEmptySeq
  <2> QED
    BY <2>1, <2>2
<1>7. CASE cw.id # i
  <2>1. cin'[i] = cin[i] /\ cout'[i] = cout[i] /\ InHand(i) = <<>>
    BY <1>1, <1>3, <1>7 DEF InHand, Calling
  <2>2. Held(i)' = Held(i)
    BY <1>3, <1>4, <2>1, HeldFrame
  <2> QED
    BY <1>1, <1>2, <1>3, <2>1, <2>2, FetchFrame DEF server
<1>8. CASE cw.id = i /\ cw.out = Close(i)
  <2>1. msg[i].complete
    BY <1>3, <1>8 DEF Inv, Completes
  <2>2. execs[i] = 1 /\ Held(i) = <<>>
    BY <1>1, <2>1 DEF Fetched, Unsent
  <2>3. cin[i] = <<>>
    BY <1>1, <2>1, <2>2 DEF Fetched, Sending
  <2>4. cin'[i] = cin[i] /\ cout'[i] = <<>>
    BY <1>1, <1>3, <1>8, <2>3
  <2>5. cout[i] = <<>>  /\ msg[i].out = <<>>
    <3>1. Held(i) = cout[i] \o (<<>> \o msg[i].out)
      BY <1>3, <1>8 DEF Held, InHand, Calling
    <3>2. <<>> \o msg[i].out = msg[i].out
      BY <1>5, ConcatEmptySeq
    <3>3. cout[i] \o msg[i].out = <<>>
      BY <2>2, <3>1, <3>2
    <3> QED
      BY <1>5, <3>3, BothEmpty
  <2>6. Held(i)' = Held(i)
    <3>1. <<>> \o <<>> = <<>>
      BY EmptySeq, ConcatEmptySeq
    <3> QED
      BY <1>6, <2>2, <2>4, <2>5, <3>1
  <2> QED
    BY <1>1, <1>2, <1>3, <2>4, <2>6, FetchFrame DEF server
<1>9. CASE cw.id = i /\ cw.out # Close(i)
  <2>1. cin'[i] = cin[i] /\ cout'[i] = cout[i] \o cw.out
    BY <1>1, <1>3, <1>9
  <2>2. Held(i) = cout[i] \o (cw.out \o msg[i].out)
    BY <1>3, <1>9 DEF Held, InHand, Calling
  <2>3. Held(i)' = Held(i)
    <3> DEFINE p == cout[i]
               q == cw.out
               r == msg[i].out
    <3>1. p \in List(Chunks) /\ q \in List(Chunks) /\ r \in List(Chunks)
      BY <1>3, <1>5 DEF List
    <3> HIDE DEF p, q, r
    <3>2. Cat(Cat(p, q), r) = Cat(p, Cat(q, r))
      BY ONLY <3>1, CatFacts, SMT
    <3>3. (p \o q) \o r = p \o (q \o r)
      BY ONLY <3>2 DEF Cat
    <3> QED
      BY <1>6, <2>1, <2>2, <3>3 DEF p, q, r
  <2> QED
    BY <1>1, <1>2, <1>3, <2>1, <2>3, FetchFrame DEF server
<1> QED
  BY <1>7, <1>8, <1>9

(* No step loses, doubles or reorders the chunks of an asset. *)
LEMMA FetchStep == ASSUME Inv, NEW u, Steps(u) PROVE AllFetch'
<1> SUFFICES ASSUME NEW i \in Ids, IsStatic(i)' PROVE Fetching(i)'
  BY DEF AllFetch
<1>1. CASE paths[i] = NoUrl
  BY <1>1, FetchFresh
<1>2. CASE paths[i] # NoUrl
  <2>1. paths'[i] = paths[i]
    BY <1>2, Grows
  <2>2. IsStatic(i)
    BY <2>1 DEF IsStatic
  <2>3. PICK v \in Urls : v = paths[i]
    BY <2>2, Numbers DEF IsStatic
  <2>4. Fetched(i, v)'
    <3>1. CASE u \in Urls /\ u = v /\ (\/ getOutstandingRequest(u) \/ ClientReceive(u) \/ ClientClose(u)
                                      \/ start_response(u) \/ ServerSend(u))
      BY <2>2, <2>3, <3>1, FetchOpen, FetchReceive, FetchClose, FetchStart, FetchSend
    <3>2. CASE u \in Urls /\ u # v /\ (\/ getOutstandingRequest(u) \/ ClientReceive(u) \/ ClientClose(u)
                                      \/ start_response(u) \/ ServerSend(u))
      BY <2>2, <2>3, <3>2, FetchOther
    <3>3. CASE \/ hasOutstandingRequest \/ RequestGone \/ lock_outgoing_chunks
               \/ u \in Urls /\ (Submit(u) \/ SearchForever(u) \/ ClientPlan(u) \/ ClientEnd(u))
      BY <2>2, <2>3, <3>3, FetchClientAside
    <3>4. CASE \/ pushIncomingChunk \/ ServerCall \/ ServerReturn
               \/ u \in Urls /\ ServerReceive(u)
      BY <2>2, <2>3, <3>4, FetchServerAside
    <3>5. CASE ClientCall \/ ClientReturn
      BY <2>2, <2>3, <3>5, FetchCall, FetchReturn
    <3> QED
      BY <3>1, <3>2, <3>3, <3>4, <3>5 DEF Steps, PlainSteps, UrlSteps
  <2> QED
    BY <2>1, <2>3, <2>4, FetchedIs
<1> QED
  BY <1>1, <1>2

-------------------------------------------------------------------------------
(* The invariant of the specification. *)

(* A step that changes nothing preserves the invariant, *)
LEMMA InvStutter == Inv /\ UNCHANGED vars => Inv'
<1> SUFFICES ASSUME Inv, UNCHANGED vars PROVE Inv'
  OBVIOUS
<1> USE DEF vars, client, server
<1>1. Types'
  BY DEF Inv, Types, ClientTypes, ServerTypes
<1>2. Known'
  BY DEF Inv, Known, Used, Opened, Unused
<1>3. Lanes'
  BY DEF Inv, Lanes, UpLane, DownLane
<1>4. Flags'
  BY DEF Inv, Flags
<1>5. Counts'
  BY DEF Inv, Counts, Served, Used
<1>6. Completes'
  BY DEF Inv, Completes
<1>7. \A i \in Ids : Up(i)' = Up(i) /\ Down(i)' = Down(i) /\ Held(i)' = Held(i) /\ Calling(i)' = Calling(i)
  BY DEF Up, Down, Held, InHand, Calling, Pushed, WireUp, WireDown
<1>8. AllAsk'
  BY <1>7 DEF Inv, AllAsk, Asking, Routed
<1>9. AllAnswer'
  BY <1>7 DEF Inv, AllAnswer, Answering, Routed
<1>10. AllSingle'
  BY <1>7 DEF Inv, AllSingle, Single, Routed
<1>11. AllFetch'
  <2> SUFFICES ASSUME NEW i \in Ids, IsStatic(i)' PROVE Fetching(i)'
    BY DEF AllFetch
  <2>1. PICK v \in Urls : v = paths[i]
    BY Numbers DEF IsStatic
  <2>2. Fetched(i, v)
    BY <2>1 DEF Inv, AllFetch, Fetching, IsStatic
  <2>3. Alone(i, v)'
    BY <2>2 DEF Fetched, Alone
  <2>4. Fetched(i, v)'
    BY <1>7, <2>2, <2>3, FetchFrame
  <2> QED
    BY <2>1, <2>4, FetchedIs
<1>12. Handling'
  BY DEF Inv, Handling, Handlers
<1> QED
  BY <1>1, <1>2, <1>3, <1>4, <1>5, <1>6, <1>8, <1>9, <1>10, <1>11, <1>12 DEF Inv

(* and so does every other step. *)
LEMMA InvStep == Inv /\ [Next]_vars => Inv'
<1>1. ASSUME Inv, Next PROVE Inv'
  <2>1. PICK u : Steps(u)
    BY <1>1, NextCases
  <2> QED
    BY <1>1, <2>1, TypesStep, KnownStep, LanesStep, FlagsStep, CountsStep, CompletesStep,
       AskStep, AnswerStep, SingleStep, FetchStep, HandlingStep DEF Inv
<1> QED
  BY <1>1, InvStutter

(* Every behaviour of the queues keeps the inductive invariant. *)
THEOREM InvHolds == Spec => []Inv
BY InvInit, InvStep, PTL DEF Spec

-------------------------------------------------------------------------------
(* The properties. *)

(* WaitingRequestsHaveHandler: a chunk of a request never waits where no handler of the server
   will look, and no stream has three handlers (pushIncomingChunk and processResponseStream of
   the listener). *)
THEOREM WaitingIsHandled == Spec => []WaitingRequestsHaveHandler
<1>1. Inv => WaitingRequestsHaveHandler
  BY DEF Inv, Handling, Handlers, Count, WaitingRequestsHaveHandler
<1> QED
  BY <1>1, InvHolds, PTL

(* NothingAfterAnswer: when a request is answered nothing of the answer is left on the way to the
   client, and no handler is queued that would make room for it again (processRequestStream of
   the connector). *)
THEOREM AnswerIsLast == Spec => []NothingAfterAnswer
<1>1. ASSUME Inv, NEW i \in Ids, Routed(i), Answered(i)
      PROVE  /\ cin[i] = <<>> /\ OfKind(WireDown(i), "resp") = <<>>
             /\ ~Contains(cq, i) /\ Len(delivered[i]) = 1
  <2>1. execs[i] \in {0, 1} /\ Answering(i) /\ Single(i) /\ delivered[i] # <<>> /\ paths[i] \in Urls
    BY <1>1 DEF Inv, AllAsk, Asking, AllAnswer, AllSingle, Answered, Routed
  <2>2. Down(i) = <<>>
    BY <2>1 DEF Answering
  <2>3. TypedSeqs
    BY <1>1, SeqTypes DEF Inv
  <2>4. cin[i] = <<>> /\ WireDown(i) = <<>>
    BY <2>1, <2>2, <2>3, DownLinks
  <2>5. OfKind(WireDown(i), "resp") = <<>>
    BY <2>4, OfKindFacts
  <2>6. Len(delivered[i]) = 1 /\ Count(cq, i) = 0
    BY <2>1 DEF Single
  <2>7. ~Contains(cq, i)
    <3>1. cq \in Seq(Ids)
      BY <1>1 DEF Inv, Types, ClientTypes
    <3>2. Contains(cq, i) <=> Count(cq, i) > 0
      BY <3>1, CountFacts
    <3> QED
      BY <2>6, <3>2
  <2> QED
    BY <2>4, <2>5, <2>6, <2>7
<1>2. Inv => NothingAfterAnswer
  BY <1>1 DEF NothingAfterAnswer
<1> QED
  BY <1>2, InvHolds, PTL

(* Until the route executes it, the chunks of a request lie on its way in their order. *)
LEMMA RequestWhole ==
  ASSUME Inv, NEW i \in Ids, Routed(i), execs[i] = 0
  PROVE  OfKind(ongoing[i].got \o sin[i] \o Pushed(i) \o WireUp(i) \o cout[i] \o InHand(i) \o msg[i].out, "req")
           = RequestOf(i)
<1> DEFINE a == ongoing[i].got
           b == sin[i]
           c == Pushed(i)
           d == WireUp(i)
           e == cout[i]
           f == InHand(i)
           g == msg[i].out
<1>1. ongoing[i].got \o Up(i) = RequestOf(i) /\ paths[i] \in Urls /\ i \in Nat
  BY Numbers DEF Inv, AllAsk, Asking, Routed
<1>t. TypedSeqs
  BY SeqTypes DEF Inv
<1>2. /\ a \in Seq(Chunks) /\ b \in Seq(Chunks) /\ c \in Seq(Chunks) /\ d \in Seq(Chunks)
      /\ e \in Seq(Chunks) /\ f \in Seq(Chunks) /\ g \in Seq(Chunks) /\ Up(i) \in Seq(Chunks)
  BY <1>1, <1>t, UpLinks DEF TypedSeqs
<1>3. Req(a) = a
  <2>1. RequestOf(i) \in Seq(Kind("req"))
    BY <1>1, MessageTypes, LaneSeq
  <2>2. <<>> \o (a \o Up(i)) \in Seq(Kind("req"))
    <3>1. a \o Up(i) \in Seq(Chunks)
      BY <1>2, ConcatProperties
    <3>2. <<>> \o (a \o Up(i)) = a \o Up(i)
      BY <3>1, ConcatEmptySeq
    <3> QED
      BY <1>1, <2>1, <3>2
  <2>3. <<>> \in Seq(Chunks)
    BY EmptySeq
  <2> HIDE DEF a
  <2>4. a \in Seq(Kind("req"))
    BY <1>2, <2>2, <2>3, PartKind
  <2> QED
    BY <2>4, OfKindFacts DEF Req
<1>4. Req(a) \o Up(i) = RequestOf(i)
  BY <1>1, <1>3
<1>5. Up(i) = Chain(Req(b), Req(c), Req(d), Req(e), Req(f), Req(g))
  BY DEF Up, Chain
<1> HIDE DEF a, b, c, d, e, f, g
<1>6. Req(a \o b \o c \o d \o e \o f \o g) = Req(a) \o Chain(Req(b), Req(c), Req(d), Req(e), Req(f), Req(g))
  <2> DEFINE fg == f \o g
             efg == e \o fg
             dg == d \o efg
             cg == c \o dg
             bg == b \o cg
  <2>1. fg \in Seq(Chunks)
    BY <1>2, ConcatProperties
  <2>2. Req(fg) = Req(f) \o Req(g)
    BY <1>2, OfKindFacts DEF Req
  <2> HIDE DEF fg
  <2>3. efg \in Seq(Chunks)
    BY <1>2, <2>1, ConcatProperties
  <2>4. Req(efg) = Req(e) \o Req(fg)
    BY <1>2, <2>1, OfKindFacts DEF Req
  <2> HIDE DEF efg
  <2>5. dg \in Seq(Chunks)
    BY <1>2, <2>3, ConcatProperties
  <2>6. Req(dg) = Req(d) \o Req(efg)
    BY <1>2, <2>3, OfKindFacts DEF Req
  <2> HIDE DEF dg
  <2>7. cg \in Seq(Chunks)
    BY <1>2, <2>5, ConcatProperties
  <2>8. Req(cg) = Req(c) \o Req(dg)
    BY <1>2, <2>5, OfKindFacts DEF Req
  <2> HIDE DEF cg
  <2>9. bg \in Seq(Chunks)
    BY <1>2, <2>7, ConcatProperties
  <2>10. Req(bg) = Req(b) \o Req(cg)
    BY <1>2, <2>7, OfKindFacts DEF Req
  <2> HIDE DEF bg
  <2>11. Req(a \o bg) = Req(a) \o Req(bg)
    BY <1>2, <2>9, OfKindFacts DEF Req
  <2>12. a \o b \o c \o d \o e \o f \o g = a \o bg
    <3>1. /\ a \in List(Chunks) /\ b \in List(Chunks) /\ c \in List(Chunks) /\ d \in List(Chunks)
          /\ e \in List(Chunks) /\ f \in List(Chunks) /\ g \in List(Chunks)
      BY <1>2 DEF List
    <3>2. /\ fg = Cat(f, g) /\ efg = Cat(e, fg) /\ dg = Cat(d, efg) /\ cg = Cat(c, dg) /\ bg = Cat(b, cg)
          /\ fg \in List(Chunks) /\ efg \in List(Chunks) /\ dg \in List(Chunks) /\ cg \in List(Chunks)
      BY <2>1, <2>3, <2>5, <2>7 DEF List, Cat, fg, efg, dg, cg, bg
    <3>3. Cat(Cat(Cat(Cat(Cat(Cat(a, b), c), d), e), f), g) = Cat(a, bg)
      <4>1. Cat(Cat(a, b), cg) = Cat(a, bg) /\ Cat(a, b) \in List(Chunks)
        BY ONLY <3>1, <3>2, CatFacts, SMTT(40)
      <4> DEFINE ab == Cat(a, b)
                 ac == Cat(ab, c)
                 ad == Cat(ac, d)
                 ae == Cat(ad, e)
      <4> HIDE DEF ab
      <4>2. Cat(ac, dg) = Cat(ab, cg) /\ ac \in List(Chunks)
        BY ONLY <3>1, <3>2, <4>1, CatFacts, SMT DEF ab
      <4> HIDE DEF ac
      <4>3. Cat(ad, efg) = Cat(ac, dg) /\ ad \in List(Chunks)
        BY ONLY <3>1, <3>2, <4>2, CatFacts, SMTT(40)
      <4> HIDE DEF ad
      <4>4. Cat(ae, fg) = Cat(ad, efg) /\ ae \in List(Chunks)
        BY ONLY <3>1, <3>2, <4>3, CatFacts, SMTT(40)
      <4> HIDE DEF ae
      <4>5. Cat(Cat(ae, f), g) = Cat(ae, fg)
        BY ONLY <3>1, <3>2, <4>4, CatFacts, SMT
      <4> QED
        BY <4>1, <4>2, <4>3, <4>4, <4>5 DEF ab, ac, ad, ae
    <3> QED
      BY <3>3 DEF Cat
  <2> QED
    BY <2>2, <2>4, <2>6, <2>8, <2>10, <2>11, <2>12 DEF Chain
<1>7. Req(a \o b \o c \o d \o e \o f \o g) = RequestOf(i)
  BY <1>4, <1>5, <1>6 DEF a, b, c, d, e, f, g
<1> QED
  BY <1>7 DEF Req, a, b, c, d, e, f, g

(* From the execution to the delivery the chunks of the answer lie on its   *)
(* way.                                                                     *)
LEMMA AnswerWhole ==
  ASSUME Inv, NEW i \in Ids, Routed(i), execs[i] > 0, ~Answered(i)
  PROVE  msg[i].got \o cin[i] \o WireDown(i) \o sout[i] = AnswerOf(i)
<1> DEFINE a == msg[i].got
           b == cin[i]
           c == WireDown(i)
           d == sout[i]
<1>1. execs[i] = 1 /\ Down(i) = AnswerOf(i) /\ paths[i] \in Urls
  BY DEF Inv, AllAsk, Asking, AllAnswer, Answering, Answered, Routed
<1>t. TypedSeqs
  BY SeqTypes DEF Inv
<1>2. a \in List(Chunks) /\ b \in List(Chunks) /\ c \in List(Chunks) /\ d \in List(Chunks)
  BY <1>1, <1>t DEF TypedSeqs, List
<1>3. a \o (b \o (c \o d)) = AnswerOf(i)
  BY <1>1 DEF Down
<1> HIDE DEF a, b, c, d
<1>4. Cat(Cat(Cat(a, b), c), d) = Cat(a, Cat(b, Cat(c, d)))
  <2>1. Cat(a, b) \in List(Chunks) /\ Cat(c, d) \in List(Chunks)
    BY ONLY <1>2, CatFacts, SMT
  <2>2. Cat(Cat(Cat(a, b), c), d) = Cat(Cat(a, b), Cat(c, d))
    BY ONLY <1>2, <2>1, CatFacts, SMT
  <2>3. Cat(Cat(a, b), Cat(c, d)) = Cat(a, Cat(b, Cat(c, d)))
    BY ONLY <1>2, <2>1, CatFacts, SMT
  <2> QED
    BY ONLY <2>2, <2>3
<1>5. a \o b \o c \o d = AnswerOf(i)
  BY ONLY <1>3, <1>4 DEF Cat
<1> QED
  BY <1>5 DEF a, b, c, d

(* The first answer that the backend is handed on a stream. *)
LEMMA FirstWhole ==
  ASSUME Inv, NEW i \in Ids, delivered[i] # <<>>
  PROVE  \E x \in AllIds : delivered[i][1] = AnswerOf(x)
<1>1. paths[i] # NoUrl /\ i \in AllIds
  BY Numbers DEF Inv, Known, Unused
<1>2. Routed(i) \/ IsStatic(i)
  BY <1>1, UsedKinds DEF Inv, Used
<1>3. CASE Routed(i)
  <2>1. delivered[i] = <<AnswerOf(i)>>
    BY <1>3 DEF Inv, AllAsk, Asking, AllAnswer, Answering
  <2> QED
    BY <1>1, <2>1
<1>4. CASE IsStatic(i)
  <2>1. Fetched(i, paths[i]) /\ msg[i].complete
    BY <1>4 DEF Inv, AllFetch, Fetching, Completes
  <2>2. PICK x \in StaticIds : Sending(i, paths[i], x)
    BY <2>1 DEF Fetched, Unsent
  <2>3. delivered[i][1] = AnswerOf(x)
    BY <2>1, <2>2 DEF Sending
  <2> QED
    BY <2>3, Numbers
<1> QED
  BY <1>2, <1>3, <1>4

(* Its chunks are those of the answer, in their order. *)
LEMMA NumbersOf ==
  ASSUME NEW x \in AllIds
  PROVE  [n \in DOMAIN AnswerOf(x) |-> AnswerOf(x)[n].n] = [n \in DOMAIN ResponsePieces |-> n]
BY DEF AnswerOf, Chunk

(* MessagesArriveWhole: no message loses, doubles or reorders a chunk between the two backends,
   for any length of the messages and any interleaving of the four threads.  Only the statement
   about what the backend is handed needs every asset to be fetched once: a second fetch takes
   the message that the first one has emptied (the emplace of maintainRequestHandlers). *)
THEOREM ArriveWhole == ASSUME MaxFetches = 1 PROVE Spec => []MessagesArriveWhole
<1>1. Inv => RequestsArriveWhole
  BY RequestWhole DEF RequestsArriveWhole, InHand, Calling, Pushed
<1>2. Inv => AnswersArriveWhole
  BY AnswerWhole DEF AnswersArriveWhole
<1>3. Inv => DeliveredWhole
  <2> SUFFICES ASSUME Inv, NEW i \in Ids, NEW k \in DOMAIN delivered[i]
               PROVE  [n \in DOMAIN delivered[i][k] |-> delivered[i][k][n].n] = [n \in DOMAIN ResponsePieces |-> n]
    BY DEF DeliveredWhole
  <2>1. delivered[i] \in Seq(Seq(Chunks)) /\ k \in 1 .. Len(delivered[i])
    BY LenProperties DEF Inv, Types, ClientTypes
  <2>2. delivered[i] # <<>>
    BY <2>1, EmptySeq
  <2>3. Len(delivered[i]) = 1
    BY <2>2 DEF Inv, AllSingle, Single
  <2>4. k = 1
    BY <2>1, <2>3
  <2>5. PICK x \in AllIds : delivered[i][1] = AnswerOf(x)
    BY <2>2, FirstWhole
  <2> QED
    BY <2>4, <2>5, NumbersOf
<1>4. Inv => MessagesArriveWhole
  BY <1>1, <1>2, <1>3 DEF MessagesArriveWhole
<1> QED
  BY <1>4, InvHolds, PTL

-------------------------------------------------------------------------------
(* The exchange that the queues implement. *)

(* A stream that no step touches keeps its stage. *)
LEMMA StageKept ==
  ASSUME NEW i, paths'[i] = paths[i], delivered'[i] = delivered[i], execs'[i] = execs[i]
  PROVE  Stage(i)' = Stage(i)
BY DEF Stage, Answered

(* One stream that moves on is a step of the exchange. *)
LEMMA StageMoves ==
  ASSUME NEW k \in Ids, \A i \in Ids : i # k => Stage(i)' = Stage(i),
         \/ Stage(k) = "unused" /\ Stage(k)' = "asked"
         \/ Stage(k) = "asked" /\ Stage(k)' = "done"
         \/ Stage(k) = "done" /\ Stage(k)' = "answered"
  PROVE  Exch!Next
<1> DEFINE st == [i \in Ids |-> Stage(i)]
<1>1. ASSUME NEW b, Stage(k)' = b PROVE st' = [st EXCEPT ![k] = b]
  BY <1>1
<1>2. st[k] = Stage(k)
  OBVIOUS
<1>3. Exch!Ask(k) \/ Exch!Execute(k) \/ Exch!Answer(k)
  BY <1>1, <1>2 DEF Exch!Ask, Exch!Execute, Exch!Answer
<1> QED
  BY <1>3 DEF Exch!Next

(* If no stream moves on the exchange does nothing. *)
LEMMA StagesKept ==
  ASSUME \A i \in Ids : Stage(i)' = Stage(i)
  PROVE  UNCHANGED [i \in Ids |-> Stage(i)]
OBVIOUS

(* The steps that move a request on: it is submitted, executed or answered. *)
LEMMA StageSubmit ==
  ASSUME Inv, NEW u \in Urls, Steps(u), Submit(u)
  PROVE  Exch!Next \/ UNCHANGED [i \in Ids |-> Stage(i)]
<1>1. UNCHANGED <<delivered, server>> /\ \A i \in Ids : paths[i] # NoUrl => paths'[i] = paths[i]
  BY Grows DEF Submit
<1>2. CASE \A i \in Ids : paths'[i] = paths[i]
  BY <1>1, <1>2, StageKept, StagesKept DEF server
<1>3. ASSUME NEW k \in Ids, paths'[k] # paths[k] PROVE Exch!Next
  <2>1. paths[k] = NoUrl /\ paths'[k] # NoUrl
    BY <1>1, <1>3
  <2>2. delivered'[k] = <<>> /\ execs'[k] = 0 /\ \A j \in Ids : j # k => paths'[j] = paths[j]
    BY <2>1, FreshSubmit
  <2>3. Stage(k) = "unused" /\ Stage(k)' = "asked"
    BY <2>1, <2>2 DEF Stage, Answered
  <2>4. \A j \in Ids : j # k => Stage(j)' = Stage(j)
    BY <1>1, <2>2, StageKept DEF server
  <2> QED
    BY <2>3, <2>4, StageMoves
<1> QED
  BY <1>2, <1>3

(* An execution, *)
LEMMA StageExecute ==
  ASSUME Inv, NEW k \in Ids, UNCHANGED <<paths, delivered>>, execs[k] = 0, execs'[k] = 1,
         paths[k] # NoUrl, delivered[k] = <<>>, \A j \in Ids : j # k => execs'[j] = execs[j]
  PROVE  Exch!Next
<1>1. Stage(k) = "asked" /\ Stage(k)' = "done"
  BY DEF Stage, Answered
<1>2. \A j \in Ids : j # k => Stage(j)' = Stage(j)
  BY StageKept
<1> QED
  BY <1>1, <1>2, StageMoves

(* which is either the route's or the handing out of an asset. *)
LEMMA StageServe ==
  ASSUME Inv, NEW u, Steps(u), ServerCall \/ (u \in Urls /\ start_response(u))
  PROVE  Exch!Next \/ UNCHANGED [i \in Ids |-> Stage(i)]
<1>1. execs \in [AllIds -> Nat] /\ \A i \in Ids : i \in AllIds
  BY Numbers DEF Inv, Types, ServerTypes
<1>2. UNCHANGED <<paths, delivered>>
  BY DEF ServerCall, start_response, client
<1>3. CASE execs' = execs
  BY <1>2, <1>3, StageKept, StagesKept
<1>4. CASE execs' # execs /\ ServerCall
  <2>0. PICK k \in AllIds : k = Head(sq)
    BY <1>4, ServerCallFacts
  <2> DEFINE got == ongoing[k].got \o OfKind(sin[k], "req")
  <2>1. (k \in Ids => Routed(k)) /\ (Silent(k) \/ Ended(k) \/ Gather(k, got))
    BY <1>4, <2>0, ServerCallFacts
  <2>2. k \in Ids /\ Routed(k) /\ execs' = [execs EXCEPT ![k] = @ + 1]
    BY <1>4, <2>1 DEF Silent, Ended, Gather
  <2> HIDE DEF got
  <2>3. execs[k] \in {0, 1} /\ execs'[k] \in {0, 1} /\ execs'[k] = execs[k] + 1
    <3>1. Asking(k)'
      BY <1>4, <2>2, AskCall
    <3> QED
      BY <1>1, <2>2, <3>1 DEF Inv, AllAsk, Asking
  <2>4. execs[k] = 0 /\ execs'[k] = 1
    BY <2>3
  <2>5. paths[k] # NoUrl /\ delivered[k] = <<>>
    BY <2>2, <2>4, Numbers DEF Inv, AllAnswer, Answering, Routed
  <2>6. \A j \in Ids : j # k => execs'[j] = execs[j]
    BY <1>1, <2>2
  <2> QED
    BY <1>2, <2>2, <2>4, <2>5, <2>6, StageExecute
<1>5. CASE execs' # execs /\ u \in Urls /\ start_response(u)
  <2>0. PICK k \in Ids : k = StaticIdOf(u)
    BY <1>5, StartFacts
  <2>1. /\ u \in StaticUrls /\ paths[k] = u /\ execs[k] = 0
        /\ execs' = [execs EXCEPT ![k] = 1]
    BY <1>5, <2>0, StartFacts
  <2>2. ~msg[k].complete /\ paths[k] # NoUrl
    BY <2>1, Numbers DEF Inv, AllFetch, Fetching, Fetched, Unsent, IsStatic
  <2>3. delivered[k] = <<>>
    BY <2>1, <2>2 DEF Inv, Completes
  <2>4. execs'[k] = 1 /\ \A j \in Ids : j # k => execs'[j] = execs[j]
    BY <1>1, <2>1
  <2> QED
    BY <1>2, <2>1, <2>2, <2>3, <2>4, StageExecute
<1> QED
  BY <1>3, <1>4, <1>5

(* The first answer that is delivered ends the exchange. *)
LEMMA StageAnswer ==
  ASSUME Inv, ClientCall
  PROVE  Exch!Next \/ UNCHANGED [i \in Ids |-> Stage(i)]
<1>0. PICK k \in Ids : k = Head(cq)
  BY ClientCallFacts
<1> DEFINE m == Received(msg[k], cin[k], IsStatic(k))
<1>1. k \in Used /\ UNCHANGED <<paths, server>> /\ m \in ClientMessages
  BY <1>0, ClientCallFacts
<1>2. delivered' = IF m.complete THEN [delivered EXCEPT ![k] = Append(@, m.got)] ELSE delivered
  BY <1>0 DEF ClientCall, messageHandler
<1>3. m.complete => execs[k] = 1
  BY <1>0, CompleteCall
<1>4. delivered \in [Ids -> Seq(Seq(Chunks))] /\ m.got \in Seq(Chunks) /\ paths[k] # NoUrl
  BY <1>1 DEF Inv, Types, ClientTypes, ClientMessages, Used
<1> HIDE DEF m
<1>5. CASE ~m.complete
  BY <1>1, <1>2, <1>5, StageKept, StagesKept DEF server
<1>6. CASE m.complete
  <2>1. execs'[k] = 1 /\ execs[k] = 1 /\ paths'[k] = paths[k]
    BY <1>1, <1>3, <1>6 DEF server
  <2>2. delivered'[k] = Append(delivered[k], m.got) /\ \A j \in Ids : j # k => delivered'[j] = delivered[j]
    BY <1>1, <1>2, <1>4, <1>6
  <2>3. delivered'[k] # <<>>
    <3>1. delivered[k] \in Seq(Seq(Chunks))
      BY <1>4
    <3>2. Len(Append(delivered[k], m.got)) = Len(delivered[k]) + 1 /\ Len(delivered[k]) \in Nat
      BY <1>4, <3>1
    <3>3. Len(<<>>) = 0
      OBVIOUS
    <3>4. ASSUME delivered'[k] = <<>> PROVE FALSE
      <4>1. Append(delivered[k], m.got) = <<>>
        BY <2>2, <3>4
      <4>2. Len(delivered[k]) + 1 = 0
        BY ONLY <3>2, <3>3, <4>1
      <4> QED
        BY <3>2, <4>2
    <3> QED
      BY <3>4
  <2>4. \A j \in Ids : j # k => Stage(j)' = Stage(j)
    BY <1>1, <2>2, StageKept DEF server
  <2>5. Stage(k)' = "answered"
    BY <1>4, <2>1, <2>3 DEF Stage, Answered
  <2>6. CASE delivered[k] = <<>>
    <3>1. Stage(k) = "done"
      BY <1>4, <2>1, <2>6 DEF Stage, Answered
    <3> QED
      BY <1>1, <2>4, <2>5, <3>1, StageMoves
  <2>7. CASE delivered[k] # <<>>
    <3>1. Stage(k) = "answered"
      BY <1>4, <2>7 DEF Stage, Answered
    <3> QED
      BY <2>4, <2>5, <3>1, StagesKept
  <2> QED
    BY <2>6, <2>7
<1> QED
  BY <1>5, <1>6

(* Every step is one of the exchange or none. *)
LEMMA StageStep ==
  ASSUME Inv, Next
  PROVE  Exch!Next \/ UNCHANGED [i \in Ids |-> Stage(i)]
<1>1. PICK u : Steps(u)
  BY NextCases
<1>2. CASE u \in Urls /\ Submit(u)
  BY <1>1, <1>2, StageSubmit
<1>3. CASE ServerCall \/ (u \in Urls /\ start_response(u))
  BY <1>1, <1>3, StageServe
<1>4. CASE ClientCall
  BY <1>4, StageAnswer
<1>5. CASE \/ ClientReturn \/ hasOutstandingRequest \/ RequestGone \/ lock_outgoing_chunks
           \/ pushIncomingChunk \/ ServerReturn
           \/ u \in Urls /\ (\/ SearchForever(u) \/ getOutstandingRequest(u) \/ ClientEnd(u) \/ ClientPlan(u)
                           \/ ClientReceive(u) \/ ClientClose(u) \/ ServerReceive(u) \/ ServerSend(u))
  <2>1. UNCHANGED <<paths, delivered, execs>>
    <3>1. CASE ClientReturn \/ hasOutstandingRequest \/ RequestGone \/ lock_outgoing_chunks
      BY <3>1 DEF ClientReturn, hasOutstandingRequest, RequestGone, lock_outgoing_chunks, server
    <3>2. CASE pushIncomingChunk \/ ServerReturn
      BY <3>2 DEF pushIncomingChunk, ServerReturn, client
    <3>3. CASE SearchForever(u) \/ getOutstandingRequest(u) \/ ClientReceive(u) \/ ClientClose(u)
      BY <3>3 DEF SearchForever, getOutstandingRequest, ClientReceive, ClientClose, server
    <3>4. CASE ClientEnd(u) \/ ServerReceive(u) \/ ServerSend(u)
      BY <3>4 DEF ClientEnd, ServerReceive, ServerSend, client, server
    <3>5. CASE ClientPlan(u)
      <4>1. UNCHANGED <<paths, delivered, server>>
        BY <3>5, Zenon DEF ClientPlan
      <4> QED
        BY <4>1 DEF server
    <3> QED
      BY <1>5, <3>1, <3>2, <3>3, <3>4, <3>5
  <2> QED
    BY <2>1, StageKept, StagesKept
<1> QED
  BY <1>1, <1>2, <1>3, <1>4, <1>5 DEF Steps, PlainSteps, UrlSteps

(* ImplementsExchange: a request is executed once, and answered only after that, whatever the
   four threads do (ongoingRequests_, returnPaths and processResponseStream of the two ends). *)
THEOREM QueuesImplementExchange == Spec => ImplementsExchange
<1>1. Init => Exch!Init
  <2>1. ASSUME Init, NEW i \in Ids PROVE Stage(i) = "unused"
    BY <2>1 DEF Init, Stage
  <2> QED
    BY <2>1 DEF Exch!Init
<1>2. Inv /\ [Next]_vars => [Exch!Next]_([i \in Ids |-> Stage(i)])
  <2>1. ASSUME Inv, UNCHANGED vars PROVE UNCHANGED [i \in Ids |-> Stage(i)]
    <3>1. UNCHANGED <<paths, delivered, execs>>
      BY <2>1 DEF vars, client, server
    <3> QED
      BY <3>1, StageKept, StagesKept
  <2> QED
    BY <2>1, StageStep
<1>3. Spec => Exch!Spec
  BY <1>1, <1>2, InvHolds, PTL DEF Spec, Exch!Spec
<1> QED
  BY <1>3 DEF ImplementsExchange
===============================================================================
