----------------------------- MODULE StreamQueues -----------------------------
(***************************************************************************)
(* The queues between the users of a QUIC connection and its I/O threads.   *)
(* Requests travel as chunks on logical streams; every chunk carries the    *)
(* identifier of its logical stream.  All logical streams of one URL share  *)
(* the HTTP/3 stream the client has open for that URL, and the server can   *)
(* answer only on a stream the client has opened: a client without an       *)
(* answer queues heartbeats, which make its I/O thread open another one.    *)
(*                                                                          *)
(* Four threads run: the client's updater (maintainRequestHandlers and      *)
(* processRequestStream), the client's and the server's I/O thread (the     *)
(* ngtcp2 and nghttp3 callbacks) and the server's worker                    *)
(* (processResponseStream).  Each step ends where the code releases the     *)
(* mutex of the queue it works on.                                          *)
(***************************************************************************)
EXTENDS Framing, FiniteSets

CONSTANTS Urls,        \* URLs the client asks
          StaticUrls,  \* those that name a static asset, not a WWATP route
          MaxIds,      \* logical identifiers the 16-bit counter can take
          MaxCalls,    \* bound: requests submitted
          MaxFetches,  \* bound: submissions for one static asset
          MaxBeats,    \* bound: heartbeats under way at a time
          Request,     \* the message a client sends
          Response,    \* the message that answers it
          VecCnt       \* chunks nghttp3 asks for at a time

ASSUME StreamAssumption ==
    /\ StaticUrls \subseteq Urls /\ "none" \notin Urls
    /\ {MaxIds, MaxCalls, MaxFetches, MaxBeats, VecCnt} \subseteq Nat \ {0}
    /\ Fits(Request) /\ Fits(Response)

(* What CompleteOnLastChunk says of the messages of this instance. *)
ASSUME EndAssumption ==
    \A m \in {Request, Response} :
        LET e == Encoded(m)
        IN  /\ Len(e) \in Nat \ {0} /\ DOMAIN e = 1 .. Len(e)
            /\ \A n \in 0 .. Len(e) :
                  (can_decode(m.type, [k \in 1 .. n |-> e[k]]) > 0) <=> (n = Len(e))

Ids == 1 .. MaxIds                                  \* even numbers in the code
StaticIds == (MaxIds + 1) .. (MaxIds + MaxCalls)    \* the server's odd numbers
NoUrl == "none"
NoStream == [open |-> FALSE, up |-> <<>>, upFin |-> FALSE, started |-> FALSE,
             down |-> <<>>, downFin |-> FALSE]

VARIABLES
    calls,      \* submissions so far
    nextId,     \* stream_id_counter
    paths,      \* returnPaths of the connector; entries are never removed
    msg,        \* ongoingRequests_: the client's message of each stream
    delivered,  \* what processHTTP3Response was given, answer by answer
    cq,         \* requestorQueue
    cin, cout,  \* incomingChunks and outgoingChunks of the connector
    cw,         \* the updater thread inside processRequestStream
    cio,        \* the client's I/O thread
    http,       \* the HTTP/3 stream open for each URL
    snext,      \* static_stream_id_counter
    spaths,     \* returnPaths of the listener
    sq,         \* responderQueue
    sin, sout,  \* incomingChunks and outgoingChunks of the listener
    ongoing,    \* ongoingResponses_ of the route
    execs,      \* how often buildResponseChunks ran for the stream
    sw,         \* the worker thread inside processResponseStream
    sio         \* the server's I/O thread inside pushIncomingChunk

client == <<calls, nextId, paths, msg, delivered, cq, cin, cout, cw, cio>>
server == <<snext, spaths, sq, sin, sout, ongoing, execs, sw, sio>>
vars == <<client, http, server>>

-------------------------------------------------------------------------------
(* Chunks *)

Chunks == [id : Nat, kind : {"req", "resp", "beat", "hold", "close"}, n : Nat]
Chunk(i, k, n) == [id |-> i, kind |-> k, n |-> n]
RequestPieces == Encoded(Request)
ResponsePieces == Encoded(Response)     \* an asset has as many chunks

RequestOf(i) == [n \in DOMAIN RequestPieces |-> Chunk(i, "req", n)]
AnswerOf(i) == [n \in DOMAIN ResponsePieces |-> Chunk(i, "resp", n)]
Beat(i) == <<Chunk(i, "beat", 0)>>
Placeholder(i) == <<Chunk(i, "hold", 0)>>
Close(i) == <<Chunk(i, "close", 0)>>

(* The elements of s that lie in T, in their order (SelectSeq with a set for
   its test). *)
Kept(s, T) ==
    LET kept[n \in 0 .. Len(s)] ==
            IF n = 0 THEN <<>>
            ELSE IF s[n] \in T THEN Append(kept[n - 1], s[n]) ELSE kept[n - 1]
    IN  kept[Len(s)]

OfKind(s, k) == Kept(s, {c \in Chunks : c.kind = k})
OfStream(s, i) == Kept(s, {c \in Chunks : c.id = i})

IsStatic(i) == paths[i] \in StaticUrls
StaticIdOf(u) == CHOOSE i \in Ids : paths[i] = u    \* staticRequests

Idle == [pc |-> "idle"]
NoMsg == [out |-> <<>>, got |-> <<>>, complete |-> FALSE, finished |-> FALSE]

-------------------------------------------------------------------------------
(* Outgoing queues; an entry is there exactly while it holds chunks *)

Waiting(out, ps, u) == {i \in DOMAIN out : out[i] # <<>> /\ ps[i] = u}

Queued(out, p) == FlattenSeq([k \in DOMAIN p |-> out[p[k]]])

(* planForNOutgoingChunks visits the streams of the URL in random order until
   those visited hold n chunks. *)
planForNOutgoingChunks(out, ps, u, n) ==
    LET Enough(p) == {k \in 0 .. Len(p) : k = Len(p) \/ Len(Queued(out, SubSeq(p, 1, k))) >= n}
    IN  {SubSeq(p, 1, Min(Enough(p))) : p \in SetToSeqs(Waiting(out, ps, u))}

noMoreChunks(out, p) == \A k \in DOMAIN p : out[p[k]] = <<>>

popNOutgoingChunks(out, p, n) ==
    SubSeq(Queued(out, p), 1, Min({n, Len(Queued(out, p))}))

(* What popping the chunks of taken leaves in the queues. *)
Popped(out, taken) ==
    [i \in DOMAIN out |->
        SubSeq(out[i], Len(OfStream(taken, i)) + 1, Len(out[i]))]

-------------------------------------------------------------------------------
(* The client's updater thread *)

(* getNewRequestStreamIdentifier: a static asset keeps its identifier; other
   requests take the next one that no earlier request ever had. *)
FreeIds == {i \in Ids : paths[i] = NoUrl}
After(i) == 1 + (i % MaxIds)
getNewRequestStreamIdentifier(u) ==
    IF u \in StaticUrls /\ \E i \in Ids : paths[i] = u THEN StaticIdOf(u)
    ELSE CHOOSE i \in FreeIds :
            \A j \in FreeIds : (i - nextId + MaxIds) % MaxIds <= (j - nextId + MaxIds) % MaxIds

HasId(u) == FreeIds # {} \/ (u \in StaticUrls /\ \E i \in Ids : paths[i] = u)

Fetches(u) == Len(Kept(cq, {i \in Ids : paths[i] = u}))
              + (IF \E i \in Ids : paths[i] = u THEN Len(delivered[StaticIdOf(u)]) ELSE 0)

(* One request of maintainRequestHandlers.  The emplace into ongoingRequests_
   keeps the message that an earlier fetch of the same asset left there. *)
Submit(u) ==
    /\ cw = Idle /\ calls < MaxCalls
    /\ u \in StaticUrls => Fetches(u) < MaxFetches
    /\ HasId(u)
    /\ LET i == getNewRequestStreamIdentifier(u)
           first == IF u \in StaticUrls THEN Placeholder(i) ELSE RequestOf(i)
       IN  /\ paths' = [paths EXCEPT ![i] = u]
           /\ nextId' = IF paths[i] = NoUrl THEN After(i) ELSE nextId
           /\ msg' = IF paths[i] = NoUrl THEN [msg EXCEPT ![i].out = first] ELSE msg
           /\ cq' = Append(cq, i)
    /\ calls' = calls + 1
    /\ UNCHANGED <<delivered, cin, cout, cw, cio, http, server>>

(* Every identifier was given out: the search for another one does not end. *)
SearchForever(u) ==
    /\ cw = Idle /\ ~HasId(u)
    /\ cw' = [pc |-> "searching"]
    /\ UNCHANGED <<calls, nextId, paths, msg, delivered, cq, cin, cout, cio, http, server>>

(* pushResponseChunk for each chunk of an answer: a decoder recognises the last
   chunk of an answer, the contents of an asset end with a close signal. *)
Whole(got, response, static) ==
    \/ OfKind(response, "close") # <<>>
    \/ /\ ~static /\ OfKind(response, "resp") # <<>>
       /\ can_decode(Response.type, [k \in DOMAIN got |-> ResponsePieces[got[k].n]]) > 0

Received(m, response, static) ==
    LET got == m.got \o OfKind(response, "resp")
    IN  [m EXCEPT !.out = <<>>, !.got = got,
                  !.complete = @ \/ Whole(got, response, static)]

(* Mutant: a call with nothing to say is silent. *)
NeverBeat(i, response, m) == FALSE

(* A call that has nothing to send and got nothing sends a heartbeat. *)
NeedsBeat(i, response, m) ==
    response = <<>> /\ msg[i].out = <<>> /\ ~m.complete /\ ~IsStatic(i)

BeatsUnderWay ==
    LET Beats(s) == Len(OfKind(s, "beat"))
        Handled == {i \in Ids : Contains(sq, i) \/ (sw # Idle /\ sw.id = i)}
    IN  MapThenSumSet(LAMBDA i : Beats(cout[i]), Ids)
        + MapThenSumSet(LAMBDA i : Beats(sin[i]), Handled)
        + MapThenSumSet(LAMBDA u : Beats(http[u].up), Urls)
        + (IF sio = Idle THEN 0 ELSE Beats(<<sio.chunk>>))

(* processRequestStream, first half: the handler leaves the queue, takes the
   chunks that came in and runs. *)
messageHandler(i, response) ==
    \E m \in {Received(msg[i], response, IsStatic(i))} :
    LET beat == NeedsBeat(i, response, m)
    IN  /\ beat => BeatsUnderWay < MaxBeats
        /\ msg' = [msg EXCEPT ![i] = IF m.complete THEN [m EXCEPT !.got = <<>>, !.finished = TRUE] ELSE m]
        /\ delivered' = IF m.complete THEN [delivered EXCEPT ![i] = Append(@, m.got)] ELSE delivered
        /\ cw' = [pc |-> "called", id |-> i,
                  out |-> IF beat THEN Beat(i)
                          ELSE msg[i].out \o (IF m.complete THEN Close(i) ELSE <<>>)]

ClientCall ==
    /\ cw = Idle /\ cq # <<>>
    /\ messageHandler(Head(cq), cin[Head(cq)])
    /\ cin' = [cin EXCEPT ![Head(cq)] = <<>>]
    /\ cq' = Tail(cq)
    /\ UNCHANGED <<calls, nextId, paths, cout, cio, http, server>>

(* Mutant: the handler of a closed stream is queued again. *)
QueueAgain(i, out) == Append(cq, i)

(* processRequestStream, second half: a lone close signal ends the stream and
   empties its queues, anything else is sent and the handler queued again. *)
QueueUnlessClosed(i, out) == IF out = Close(i) THEN cq ELSE Append(cq, i)

SendAlso(i, out) == [cout EXCEPT ![i] = @ \o out]

ClientReturn ==
    /\ cw.pc = "called"
    /\ cq' = QueueUnlessClosed(cw.id, cw.out)
    /\ IF cw.out = Close(cw.id)
       THEN /\ cin' = [cin EXCEPT ![cw.id] = <<>>]
            /\ cout' = [cout EXCEPT ![cw.id] = <<>>]
       ELSE /\ cout' = SendAlso(cw.id, cw.out)
            /\ UNCHANGED cin
    /\ cw' = Idle
    /\ UNCHANGED <<calls, nextId, paths, msg, delivered, cio, http, server>>

-------------------------------------------------------------------------------
(* The client's I/O thread *)

(* getCurrentRequests without those that have a stream (active_request). *)
Outstanding == {u \in Urls : Waiting(cout, paths, u) # {} /\ ~http[u].open}

(* on_extend_max_streams looks once with hasOutstandingRequest ... *)
hasOutstandingRequest ==
    /\ cio = Idle /\ Outstanding # {}
    /\ cio' = [pc |-> "open"]
    /\ UNCHANGED <<calls, nextId, paths, msg, delivered, cq, cin, cout, cw, http, server>>

clearStaticRequest(u) ==
    [cout EXCEPT ![StaticIdOf(u)] = Kept(@, {c \in Chunks : c.kind # "hold"})]

(* ... and again with getOutstandingRequest, which throws when the updater has
   closed the stream in between; nothing catches it. *)
getOutstandingRequest(u) ==
    /\ cio.pc = "open" /\ u \in Outstanding
    /\ http' = [http EXCEPT ![u] = [NoStream EXCEPT !.open = TRUE, !.upFin = u \in StaticUrls]]
    /\ cout' = IF u \in StaticUrls THEN clearStaticRequest(u) ELSE cout
    /\ cio' = Idle
    /\ UNCHANGED <<calls, nextId, paths, msg, delivered, cq, cin, cw, server>>

RequestGone ==
    /\ cio.pc = "open" /\ Outstanding = {}
    /\ cio' = [pc |-> "dead"]
    /\ UNCHANGED <<calls, nextId, paths, msg, delivered, cq, cin, cout, cw, http, server>>

(* read_data of the connector finds nothing for the URL: the request ends. *)
ClientEnd(u) ==
    /\ cio = Idle
    /\ http[u].open /\ ~http[u].upFin /\ Waiting(cout, paths, u) = {}
    /\ http' = [http EXCEPT ![u].upFin = TRUE]
    /\ UNCHANGED <<client, server>>

(* It finds chunks and plans; then it looks again and pops. *)
ClientPlan(u) ==
    /\ cio = Idle
    /\ http[u].open /\ ~http[u].upFin
    /\ \E p \in planForNOutgoingChunks(cout, paths, u, VecCnt) :
          p # <<>> /\ cio' = [pc |-> "send", url |-> u, plan |-> p]
    /\ UNCHANGED <<calls, nextId, paths, msg, delivered, cq, cin, cout, cw, http, server>>

lock_outgoing_chunks ==
    /\ cio.pc = "send"
    /\ LET taken == popNOutgoingChunks(cout, cio.plan, VecCnt)
       IN  IF noMoreChunks(cout, cio.plan)
           THEN http' = [http EXCEPT ![cio.url].upFin = TRUE] /\ UNCHANGED cout
           ELSE /\ http' = [http EXCEPT ![cio.url].up = @ \o taken]
                /\ cout' = Popped(cout, taken)
    /\ cio' = Idle
    /\ UNCHANGED <<calls, nextId, paths, msg, delivered, cq, cin, cw, server>>

(* http_recv_data and pushIncomingChunk of the connector. *)
ClientReceive(u) ==
    /\ cio = Idle
    /\ http[u].open /\ http[u].down # <<>>
    /\ LET c == Head(http[u].down)
           i == IF u \in StaticUrls THEN StaticIdOf(u) ELSE c.id
       IN  cin' = [cin EXCEPT ![i] = Append(@, c)]
    /\ http' = [http EXCEPT ![u].down = Tail(@)]
    /\ UNCHANGED <<calls, nextId, paths, msg, delivered, cq, cout, cw, cio, server>>

(* http_stream_close: only a static asset tells its logical stream. *)
ClientClose(u) ==
    /\ cio = Idle
    /\ http[u].open /\ http[u].downFin /\ http[u].down = <<>>
    /\ cin' = IF u \in StaticUrls THEN [cin EXCEPT ![StaticIdOf(u)] = @ \o Close(0)] ELSE cin
    /\ http' = [http EXCEPT ![u] = NoStream]
    /\ UNCHANGED <<calls, nextId, paths, msg, delivered, cq, cout, cw, cio, server>>

-------------------------------------------------------------------------------
(* The server's I/O thread *)

(* Mutant: every chunk makes a new handler. *)
NeverReady(i) == FALSE

HandlerReady(i) == Contains(sq, i)

(* pushIncomingChunk of the listener looks for a handler of the stream ... *)
ServerReceive(u) ==
    /\ sio = Idle
    /\ http[u].open /\ http[u].up # <<>>
    /\ LET c == Head(http[u].up)
       IN  sio' = [pc |-> "push", url |-> u, chunk |-> c, ready |-> HandlerReady(c.id)]
    /\ http' = [http EXCEPT ![u].up = Tail(@)]
    /\ UNCHANGED <<client, snext, spaths, sq, sin, sout, ongoing, execs, sw>>

prepareHandler(i, u) ==
    sq' = Append(sq, i) /\ spaths' = [spaths EXCEPT ![i] = u]

(* ... makes one if it saw none, and queues the chunk. *)
pushIncomingChunk ==
    /\ sio.pc = "push"
    /\ IF sio.ready THEN UNCHANGED <<sq, spaths>> ELSE prepareHandler(sio.chunk.id, sio.url)
    /\ sin' = [sin EXCEPT ![sio.chunk.id] = Append(@, sio.chunk)]
    /\ sio' = Idle
    /\ UNCHANGED <<client, http, snext, sout, ongoing, execs, sw>>

(* An asset is queued whole under an identifier of its own, with a handler that
   does nothing and is never removed. *)
prepareStaticHandler(u) ==
    /\ snext' = snext + 1
    /\ sout' = [sout EXCEPT ![snext] = AnswerOf(snext)]
    /\ prepareHandler(snext, u)
    /\ execs' = [execs EXCEPT ![StaticIdOf(u)] = @ + 1]

(* http_end_stream: the server answers when the whole request is there. *)
start_response(u) ==
    /\ sio = Idle
    /\ http[u].open /\ http[u].upFin /\ http[u].up = <<>> /\ ~http[u].started
    /\ http' = [http EXCEPT ![u].started = TRUE]
    /\ IF u \in StaticUrls THEN prepareStaticHandler(u)
       ELSE UNCHANGED <<snext, sout, sq, spaths, execs>>
    /\ UNCHANGED <<client, sin, ongoing, sw, sio>>

(* read_data of the listener: whatever waits for the URL, or the end. *)
ServerSend(u) ==
    /\ sio = Idle
    /\ http[u].open /\ http[u].started /\ ~http[u].downFin
    /\ IF Waiting(sout, spaths, u) = {}
       THEN http' = [http EXCEPT ![u].downFin = TRUE] /\ UNCHANGED sout
       ELSE \E p \in planForNOutgoingChunks(sout, spaths, u, VecCnt) :
              LET taken == popNOutgoingChunks(sout, p, VecCnt)
              IN  /\ http' = [http EXCEPT ![u].down = @ \o taken]
                  /\ sout' = Popped(sout, taken)
    /\ UNCHANGED <<client, snext, spaths, sq, sin, ongoing, execs, sw, sio>>

-------------------------------------------------------------------------------
(* The server's worker thread: processResponseStream *)

(* Http3ServerRoute::processResponseStream: chunks of the request are gathered,
   heartbeats skipped; the whole request is executed and its answer handed
   out at once; a finished stream answers every call with a close signal. *)
NoResponse == [got |-> <<>>, open |-> FALSE, finished |-> FALSE]

(* Mutant: a finished response is forgotten. *)
FinishedIgnored(r) == FALSE

ProcessingFinished(r) == r.finished

(* pushRequestChunk for each chunk of the request. *)
RequestComplete(got) ==
    can_decode(Request.type, [k \in DOMAIN got |-> RequestPieces[got[k].n]]) > 0

RouteResponse(i, request) ==
    LET r == ongoing[i]
        got == r.got \o OfKind(request, "req")
        whole == RequestComplete(got)
    IN  CASE ~r.open /\ request = <<>> -> [state |-> r, out |-> <<>>, ran |-> FALSE]
          [] r.open /\ ProcessingFinished(r) ->
                [state |-> IF request = Close(i) THEN NoResponse ELSE r,
                 out |-> Close(i), ran |-> FALSE]
          [] OTHER -> [state |-> [got |-> got, open |-> TRUE, finished |-> whole],
                       out |-> IF whole THEN AnswerOf(i) ELSE <<>>, ran |-> whole]

(* Mutant: the close signal goes past the queue. *)
CloseAtOnce(i, out) == out = Close(i)

SignalClosed(i, out) == out = Close(i) /\ sout[i] = <<>>

(* The handler leaves the queue, takes the chunks that came in and runs.  The
   close signal counts only when nothing is left to send; the route then hears
   it too and forgets the stream. *)
ServerCall ==
    /\ sw = Idle /\ sq # <<>>
    /\ LET i == Head(sq)
           r == IF i \in StaticIds THEN [state |-> NoResponse, out |-> <<>>, ran |-> FALSE]
                ELSE RouteResponse(i, sin[i])
           closed == SignalClosed(i, r.out)
       IN  /\ sin' = [sin EXCEPT ![i] = <<>>]
           /\ ongoing' = [ongoing EXCEPT ![i] = IF closed THEN NoResponse ELSE r.state]
           /\ execs' = IF r.ran THEN [execs EXCEPT ![i] = @ + 1] ELSE execs
           /\ sout' = IF r.out = Close(i) THEN sout ELSE [sout EXCEPT ![i] = @ \o r.out]
           /\ sw' = [pc |-> IF closed THEN "closed" ELSE "served", id |-> i]
    /\ sq' = Tail(sq)
    /\ UNCHANGED <<client, http, snext, spaths, sio>>

ServerReturn ==
    /\ sw.pc \in {"served", "closed"}
    /\ IF sw.pc = "served"
       THEN sq' = Append(sq, sw.id) /\ UNCHANGED <<sin, sout>>
       ELSE /\ sin' = [sin EXCEPT ![sw.id] = <<>>]
            /\ sout' = [sout EXCEPT ![sw.id] = <<>>]
            /\ UNCHANGED sq
    /\ sw' = Idle
    /\ UNCHANGED <<client, http, snext, spaths, ongoing, execs, sio>>

-------------------------------------------------------------------------------
AllIds == Ids \cup StaticIds

Init ==
    /\ calls = 0 /\ nextId = 1
    /\ paths = [i \in Ids |-> NoUrl]
    /\ msg = [i \in Ids |-> NoMsg]
    /\ delivered = [i \in Ids |-> <<>>]
    /\ cq = <<>> /\ cw = Idle /\ cio = Idle
    /\ cin = [i \in Ids |-> <<>>] /\ cout = [i \in Ids |-> <<>>]
    /\ http = [u \in Urls |-> NoStream]
    /\ snext = MaxIds + 1
    /\ spaths = [i \in AllIds |-> NoUrl]
    /\ sq = <<>> /\ sw = Idle /\ sio = Idle
    /\ sin = [i \in AllIds |-> <<>>] /\ sout = [i \in AllIds |-> <<>>]
    /\ ongoing = [i \in AllIds |-> NoResponse]
    /\ execs = [i \in AllIds |-> 0]

Updater == ClientCall \/ ClientReturn
ClientIO ==
    \/ hasOutstandingRequest \/ RequestGone \/ lock_outgoing_chunks
    \/ \E u \in Urls : \/ getOutstandingRequest(u) \/ ClientEnd(u) \/ ClientPlan(u)
                       \/ ClientReceive(u) \/ ClientClose(u)
ServerIO ==
    \/ pushIncomingChunk
    \/ \E u \in Urls : ServerReceive(u) \/ start_response(u) \/ ServerSend(u)
Worker == ServerCall \/ ServerReturn

Next ==
    \/ \E u \in Urls : Submit(u) \/ SearchForever(u)
    \/ Updater \/ ClientIO \/ ServerIO \/ Worker

(* Every thread is a loop that keeps running.  The updater sleeps between its
   calls, so the client's I/O thread does find the queue of a URL empty between
   two heartbeats (ClientEnd). *)
Fairness ==
    /\ WF_vars(Updater) /\ WF_vars(Worker) /\ WF_vars(ClientIO) /\ WF_vars(ServerIO)
    /\ \A u \in Urls \ StaticUrls : SF_vars(ClientEnd(u))

Spec == Init /\ [][Next]_vars
FairSpec == Spec /\ Fairness

-------------------------------------------------------------------------------
Routed(i) == paths[i] \in Urls \ StaticUrls
Answered(i) == delivered[i] # <<>>
WireUp(i) == OfStream(http[paths[i]].up, i)
WireDown(i) == OfStream(http[paths[i]].down, i)

(* Between the message a client encodes and the one the route decodes no chunk
   of a request is lost, doubled or overtaken, although the chunks pass through
   two queues and a stream that other requests share, the I/O thread plans and
   pops in two steps and the handler takes the queue over in a third. *)
RequestsArriveWhole ==
    \A i \in Ids : Routed(i) /\ execs[i] = 0 =>
        LET inHand == IF cw.pc = "called" /\ cw.id = i THEN cw.out ELSE <<>>
            pushed == IF sio = Idle THEN <<>> ELSE OfStream(<<sio.chunk>>, i)
        IN  OfKind(ongoing[i].got \o sin[i] \o pushed \o WireUp(i) \o cout[i]
                   \o inHand \o msg[i].out, "req") = RequestOf(i)

(* The chunks of an answer keep their order and number on the way back: what a
   client has gathered, what waits for it and what the server has still to send
   is the answer, also when the server has already closed the stream. *)
AnswersArriveWhole ==
    \A i \in Ids : Routed(i) /\ execs[i] > 0 /\ ~Answered(i) =>
        msg[i].got \o cin[i] \o WireDown(i) \o sout[i] = AnswerOf(i)

(* A chunk of a request never waits where nobody will look: its stream has a
   handler in the queue or in the worker's hands.  There may be a second one (a
   chunk that arrives while the worker has the first), never a third. *)
WaitingRequestsHaveHandler ==
    \A i \in Ids :
        LET handlers == Len(Kept(sq, {i}))
                        + (IF sw.pc = "served" /\ sw.id = i THEN 1 ELSE 0)
        IN  /\ OfKind(sin[i], "req") # <<>> => handlers > 0
            /\ handlers <= 2

(* A chunk that comes after its stream was closed would open the queue again
   and stay in it: on the client nothing comes after the answer. *)
NothingAfterAnswer ==
    \A i \in Ids : Routed(i) /\ Answered(i) =>
        /\ cin[i] = <<>> /\ OfKind(WireDown(i), "resp") = <<>>
        /\ ~Contains(cq, i) /\ Len(delivered[i]) = 1

(* Every answer handed to the backend is the whole answer of the server, the
   contents of a static asset included. *)
DeliveredWhole ==
    \A i \in Ids : \A k \in DOMAIN delivered[i] :
        [n \in DOMAIN delivered[i][k] |-> delivered[i][k][n].n] = [n \in DOMAIN ResponsePieces |-> n]

(* The decoders of Framing tell the end of every message, with the first chunks
   of a text counted apart and counts inside counts; a statement about messages
   alone, so it is evaluated in the first state. *)
MessagesEndWithLastChunk == calls = 0 => CompleteOnLastChunk

(* No message loses, doubles or reorders a chunk between the two backends, on
   the way out, on the way back and in what the client's backend is handed. *)
MessagesArriveWhole == RequestsArriveWhole /\ AnswersArriveWhole /\ DeliveredWhole

(* The queues implement the exchange of one request for one answer. *)
Stage(i) ==
    IF paths[i] = NoUrl THEN "unused"
    ELSE IF Answered(i) THEN "answered"
    ELSE CASE execs[i] = 0 -> "asked"
           [] execs[i] = 1 -> "done"
           [] OTHER -> "repeated"

Exch == INSTANCE Exchange WITH status <- [i \in Ids |-> Stage(i)]

(* Every behaviour of the queues is one of the exchange: no request is executed
   twice, none is answered before it was executed. *)
ImplementsExchange == Exch!Spec

(* Every request is answered, though the answer has to wait for a stream that
   only the client can open, unless the search for an identifier or the
   exception of getOutstandingRequest has ended a thread of the client. *)
RequestsAnswered ==
    \A i \in Ids : (paths[i] # NoUrl) ~> (Answered(i) \/ cio.pc = "dead" \/ cw.pc = "searching")
===============================================================================
