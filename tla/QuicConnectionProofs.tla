------------------------- MODULE QuicConnectionProofs -------------------------
(***************************************************************************)
(* Proofs about QuicConnection, for any number of connections, any limits   *)
(* and any configurations: the invariants of QuicConnection hold whatever   *)
(* the network loses, doubles or reorders.                                  *)
(*                                                                          *)
(* The invariants are not inductive by themselves.  Whether handlers_ can   *)
(* hold a pointer to a deleted handler depends on which identifiers may     *)
(* stand for it, and that on the identifiers in the packets on their way;   *)
(* whether an assert of on_send_blocked can fail depends on the number of   *)
(* packets left from an earlier refusal, which disconnect does not reset.   *)
(***************************************************************************)
EXTENDS QuicConnection, TLAPS

(* The identifiers a first packet can carry. *)
FreshCids == {<<"client", 0>>, <<"retry", 0>>}

PacketOK(p) ==
    /\ p.cid \in Cids
    /\ p.kind \in {"initial", "retry"} => p.cid \in FreshCids

Client ==
    [st : {"none", "handshake", "up", "confirmed", "closed"}, http : BOOLEAN, early : BOOLEAN,
     timers : SUBSET {"expiry", "check", "delay", "key", "addr"}, wev : BOOLEAN, tx : Txs,
     offered : BOOLEAN, stream : {"none", "open", "broken"}, sock : BOOLEAN,
     dcid : Cids \cup {NoCid}, token : {"none", "regular", "retry"}, n : 0 .. MaxData]

(* Packets wait, or the bookkeeping starts from nothing. *)
Bookkept(t) ==
    /\ t \in Txs /\ t.ok
    /\ t.blocked => t.sent < t.num
    /\ ~t.blocked => t.num = 0 /\ t.sent = 0

ClientOK(c) ==
    /\ c \in Client
    /\ c.tx.ok /\ (c.tx.blocked => c.wev)
    /\ c.st # "closed" => Bookkept(c.tx)
    /\ c.st = "closed" => ~c.tx.blocked
    /\ c.stream # "broken" /\ (c.stream = "open" => c.http)
    /\ c.st \in {"up", "confirmed"} => c.http
    /\ c.timers \subseteq {"expiry"} \/ c.st = "confirmed"
    /\ c.st = "handshake" => c.dcid \in FreshCids
    /\ c.st \in {"up", "confirmed"} => c.dcid \in Cids

Handler ==
    [life : {"new", "live", "freed"}, conn : {"open", "closing", "draining"}, done : BOOLEAN,
     timer : {"off", "expiry", "closewait"}, wev : BOOLEAN, tx : Txs, pto : 0 .. MaxPto,
     seen : SUBSET Nat, dcid : Cids \cup {NoCid}, late : BOOLEAN]

HandlerOK(r) ==
    /\ r \in Handler
    /\ r.tx.ok
    /\ Open(r) => Bookkept(r.tx) /\ (r.tx.blocked => r.wev)
    /\ r.timer = "closewait" => ~Open(r)
    /\ r.life = "live" => r.dcid \in FreshCids

NamesOf(h) == {hd[h].dcid, <<"first", h>>, <<"second", h>>}

NetInv == \A p \in net : PacketOK(p) /\ p.n \in Nat

ClientInv ==
    /\ ClientOK(cl)
    /\ cthread \in {"off", "run", "exited", "ended"}
    /\ cthread = "run" => cl.st # "none"

HandlersInv ==
    /\ hd \in [Ids -> Handler]
    /\ \A h \in Ids : Live(h) => HandlerOK(hd[h])
    /\ handlers \in [Cids -> 0 .. MaxHandlers]
    /\ \A c \in Cids : handlers[c] # 0 => Live(handlers[c]) /\ c \in NamesOf(handlers[c])
    /\ \A h \in Ids : Live(h) => handlers[hd[h].dcid] = h

BucketInv ==
    /\ bucket \in 0 .. Burst /\ regen \in BOOLEAN
    /\ ResetBucketRefilled
    /\ worker \in 0 .. MaxHandlers

Inv == config \in Configs /\ NetInv /\ ClientInv /\ HandlersInv /\ BucketInv

-------------------------------------------------------------------------------
(* Packets a full socket refused *)

LEMMA BlockedMeaning ==
  ASSUME NEW t \in Txs
  PROVE  LET u == on_send_blocked(t)
         IN  /\ u \in Txs
             /\ u.blocked = TRUE /\ u.sent = t.sent
             /\ u.num = IF t.num < 2 THEN t.num + 1 ELSE t.num
             /\ u.ok <=> (t.ok /\ (t.num > 0 \/ ~t.blocked) /\ t.num < 2)
<1> DEFINE u == on_send_blocked(t)
           e == t.ok /\ (t.num > 0 \/ ~t.blocked) /\ t.num < 2
           m == IF t.num < 2 THEN t.num + 1 ELSE t.num
<1>1. u = [t EXCEPT !.ok = e, !.blocked = TRUE, !.num = m]
  BY DEF Txs, on_send_blocked
<1>2. e \in BOOLEAN /\ m \in 0 .. 2
  BY DEF Txs
<1>3. u.ok <=> e
  BY DEF Txs, on_send_blocked
<1>4. u \in Txs /\ u.blocked = TRUE /\ u.sent = t.sent /\ u.num = m
  <2> HIDE DEF e, m, u
  <2> QED BY <1>1, <1>2 DEF Txs
<1> QED BY <1>3, <1>4

LEMMA BlockedOnce ==
  ASSUME NEW t, Bookkept(t), ~t.blocked
  PROVE  /\ Bookkept(on_send_blocked(t)) /\ on_send_blocked(t).blocked
         /\ Bookkept(on_send_blocked(on_send_blocked(t)))
         /\ on_send_blocked(on_send_blocked(t)).blocked
<1> DEFINE u == on_send_blocked(t)
           v == on_send_blocked(u)
<1>1. t \in Txs /\ t.num = 0 /\ t.sent = 0 /\ t.ok
  BY DEF Bookkept
<1>2. /\ u \in Txs /\ u.blocked = TRUE /\ u.sent = t.sent
      /\ u.num = IF t.num < 2 THEN t.num + 1 ELSE t.num
      /\ u.ok <=> (t.ok /\ (t.num > 0 \/ ~t.blocked) /\ t.num < 2)
  BY <1>1, BlockedMeaning, Zenon
<1> HIDE DEF u
<1>3. u.sent = 0 /\ u.num = 1 /\ u.ok
  BY <1>1, <1>2
<1>4. /\ v \in Txs /\ v.blocked = TRUE /\ v.sent = u.sent
      /\ v.num = IF u.num < 2 THEN u.num + 1 ELSE u.num
      /\ v.ok <=> (u.ok /\ (u.num > 0 \/ ~u.blocked) /\ u.num < 2)
  BY <1>2, BlockedMeaning, Zenon
<1> HIDE DEF v
<1>5. v.sent = 0 /\ v.num = 2 /\ v.ok
  BY <1>3, <1>4
<1> QED BY <1>2, <1>3, <1>4, <1>5 DEF Bookkept, u, v

LEMMA SendBlockedMeaning ==
  ASSUME NEW t, Bookkept(t), t.blocked, NEW k \in 0 .. t.num - t.sent
  PROVE  Bookkept(send_blocked_packet(t, k))
<1>1. t \in Txs /\ t.num \in 0 .. 2 /\ t.sent \in 0 .. 2 /\ t.ok
  BY DEF Bookkept, Txs
<1>2. CASE t.sent + k < t.num
  <2>1. send_blocked_packet(t, k) = [t EXCEPT !.sent = t.sent + k]
    BY <1>2 DEF send_blocked_packet
  <2>2. t.sent + k \in 0 .. 2
    BY <1>1, <1>2
  <2> QED BY <1>1, <1>2, <2>1, <2>2 DEF Bookkept, Txs
<1>3. CASE ~(t.sent + k < t.num)
  <2>1. send_blocked_packet(t, k) = [blocked |-> FALSE, num |-> 0, sent |-> 0, ok |-> t.ok]
    BY <1>3 DEF send_blocked_packet, NoneBlocked
  <2>2. t.ok \in BOOLEAN
    BY <1>1 DEF Txs
  <2> QED BY <1>1, <2>1, <2>2 DEF Bookkept, Txs
<1> QED BY <1>2, <1>3

\* on_write leaves the bookkeeping in order, and a watcher where packets wait.
LEMMA OnWriteResult ==
  ASSUME NEW t, Bookkept(t), NEW side, NEW w \in on_write(t, side)
  PROVE  /\ Bookkept(w.tx) /\ w.wev \in BOOLEAN /\ (w.tx.blocked => w.wev)
         /\ w.rv \in {"sent", "error", "waiting"}
<1> DEFINE waiting == IF t.blocked THEN {send_blocked_packet(t, k) : k \in 0 .. t.num - t.sent} ELSE {t}
<1>1. \A u \in waiting : Bookkept(u)
  BY SendBlockedMeaning
<1>2. ASSUME NEW u, Bookkept(u), ~u.blocked, NEW v \in write_streams(u, side)
      PROVE  /\ Bookkept(v.tx) /\ v.wev \in BOOLEAN /\ (v.tx.blocked => v.wev)
             /\ v.rv \in {"sent", "error", "waiting"}
  <2>1. \/ v = Result(u, FALSE, "sent") \/ v = Result(u, FALSE, "error")
        \/ v = Result(on_send_blocked(u), TRUE, "sent")
        \/ v = Result(on_send_blocked(on_send_blocked(u)), TRUE, "sent")
    BY Zenon DEF write_streams
  <2>2. /\ Bookkept(on_send_blocked(u)) /\ on_send_blocked(u).blocked
        /\ Bookkept(on_send_blocked(on_send_blocked(u)))
    BY <1>2, BlockedOnce, Zenon
  <2>3. /\ v.rv \in {"sent", "error"}
        /\ \/ v.tx = u /\ v.wev = FALSE
           \/ v.tx \in {on_send_blocked(u), on_send_blocked(on_send_blocked(u))} /\ v.wev = TRUE
    <3>1. CASE v = Result(u, FALSE, "sent") \/ v = Result(u, FALSE, "error")
      BY <3>1 DEF Result
    <3>2. CASE v = Result(on_send_blocked(u), TRUE, "sent")
      BY <3>2 DEF Result
    <3>3. CASE v = Result(on_send_blocked(on_send_blocked(u)), TRUE, "sent")
      BY <3>3 DEF Result
    <3> QED BY <2>1, <3>1, <3>2, <3>3
  <2>4. CASE v.tx = u /\ v.wev = FALSE
    BY <1>2, <2>3, <2>4
  <2>5. CASE v.tx \in {on_send_blocked(u), on_send_blocked(on_send_blocked(u))} /\ v.wev = TRUE
    BY <2>2, <2>3, <2>5
  <2> QED BY <2>3, <2>4, <2>5
<1> HIDE DEF waiting
<1>3. \/ \E u \in waiting : u.blocked /\ w = Result(u, TRUE, "waiting")
      \/ \E u \in waiting : ~u.blocked /\ w \in write_streams(u, side)
  BY Zenon DEF on_write, waiting
<1>4. ASSUME NEW u \in waiting, u.blocked, w = Result(u, TRUE, "waiting")
      PROVE  w.tx = u /\ w.wev = TRUE /\ w.rv = "waiting"
  BY <1>4 DEF Result
<1> QED BY <1>1, <1>2, <1>3, <1>4

-------------------------------------------------------------------------------
(* The client *)

Named(ps) == \A p \in ps : PacketOK(p) /\ p.n \in Nat

LEMMA ClientFacts ==
  ASSUME NEW c, ClientOK(c)
  PROVE  /\ c.st \in {"none", "handshake", "up", "confirmed", "closed"}
         /\ c.http \in BOOLEAN /\ c.wev \in BOOLEAN /\ c.tx \in Txs /\ c.n \in 0 .. MaxData
         /\ c.timers \in SUBSET {"expiry", "check", "delay", "key", "addr"}
         /\ c.stream \in {"none", "open", "broken"}
BY DEF ClientOK, Client

LEMMA DisconnectedOK ==
  ASSUME NEW c, ClientOK(c)
  PROVE  ClientOK(disconnected(c)) /\ disconnected(c).st = "closed" /\ Named(Farewell(c))
<1> DEFINE d == disconnected(c)
           t == [c.tx EXCEPT !.blocked = FALSE]
<1>1. t \in Txs /\ ~t.blocked /\ t.ok
  BY DEF ClientOK, Client, Txs
<1>2. d = [c EXCEPT !.st = "closed", !.tx = t, !.timers = {}, !.wev = FALSE, !.sock = FALSE]
  BY DEF disconnected, ClientOK, Client
<1> HIDE DEF t, d
<1>3. d \in Client
  BY <1>1, <1>2 DEF ClientOK, Client
<1>4. /\ d.st = "closed" /\ d.tx = t /\ d.timers = {}
      /\ d.stream = c.stream /\ d.http = c.http
  BY <1>2 DEF ClientOK, Client
<1>5. ClientOK(d)
  BY <1>1, <1>3, <1>4 DEF ClientOK
<1>6. Named(Farewell(c))
  <2>1. c.st \in {"handshake", "up", "confirmed"} => c.dcid \in Cids
    BY DEF ClientOK, FreshCids, Cids
  <2> QED BY <2>1 DEF Named, Farewell, PacketOK, ToServer
<1> QED BY <1>4, <1>5, <1>6 DEF d

\* A stream is opened only where there is an nghttp3 connection.
LEMMA ExtendedOK ==
  ASSUME NEW c, ClientOK(c), c.http, NEW d \in Extended(c)
  PROVE  ClientOK(d) /\ d.st = c.st
<1>1. CASE d = c
  BY <1>1
<1>2. CASE d = [c EXCEPT !.stream = "open", !.wev = TRUE]
  BY <1>2 DEF ClientOK, Client
<1> QED BY <1>1, <1>2 DEF Extended

LEMMA SentOK ==
  ASSUME NEW c, ClientOK(c), c.st \notin {"none", "closed"}
  PROVE  /\ Sent(c).c = [c EXCEPT !.n = Sent(c).c.n] /\ Sent(c).c.n \in 0 .. MaxData
         /\ Named(Sent(c).out)
<1>1. c.n \in 0 .. MaxData /\ c.dcid \in Cids /\ MaxData \in Nat
  BY QuicAssumption DEF ClientOK, Client, FreshCids, Cids
<1>2. CASE c.st = "handshake"
  <2>1. Sent(c) = [c |-> c, out |-> {ToServer("initial", c.dcid, c.token, 0)}]
    BY <1>2 DEF Sent
  <2> QED BY <1>1, <1>2, <2>1 DEF Named, PacketOK, ToServer, ClientOK, Client
<1>3. CASE c.st # "handshake" /\ c.n < MaxData
  <2>1. Sent(c) = [c |-> [c EXCEPT !.n = @ + 1], out |-> {ToServer("data", c.dcid, "none", c.n + 1)}]
    BY <1>3, Zenon DEF Sent
  <2> QED BY <1>1, <1>3, <2>1 DEF Named, PacketOK, ToServer, ClientOK, Client
<1>4. CASE c.st # "handshake" /\ ~(c.n < MaxData)
  <2>1. Sent(c) = [c |-> c, out |-> {}]
    BY <1>4 DEF Sent
  <2> QED BY <1>1, <1>4, <2>1 DEF Named, ClientOK, Client
<1> QED BY <1>2, <1>3, <1>4

\* Client::on_write keeps the client in order, or ends the connection.
LEMMA ClientWriteOK ==
  ASSUME NEW c, ClientOK(c), c.st # "none", NEW e \in ClientWrite(c)
  PROVE  ClientOK(e.c) /\ e.c.st # "none" /\ Named(e.out)
<1>1. CASE c.st = "closed"
  BY <1>1, DisconnectedOK DEF ClientWrite, Named
<1>2. CASE c.st # "closed"
  <2>1. PICK w \in on_write(c.tx, "client") :
          e = CASE w.rv = "error" -> [c |-> disconnected(c), out |-> Farewell(c)]
                [] w.rv = "waiting" -> [c |-> [c EXCEPT !.tx = w.tx, !.wev = TRUE], out |-> {}]
                [] OTHER -> LET s == Sent(c)
                            IN  [c |-> [s.c EXCEPT !.tx = w.tx, !.wev = w.wev,
                                                   !.timers = @ \cup {"expiry"}],
                                 out |-> s.out]
    BY <1>2 DEF ClientWrite
  <2>2. /\ Bookkept(w.tx) /\ w.wev \in BOOLEAN /\ (w.tx.blocked => w.wev)
        /\ w.rv \in {"sent", "error", "waiting"}
    BY <1>2, OnWriteResult DEF ClientOK
  <2>3. CASE w.rv = "error"
    BY <2>1, <2>3, DisconnectedOK
  <2>4. CASE w.rv = "waiting"
    <3>1. e.c = [c EXCEPT !.tx = w.tx, !.wev = TRUE] /\ e.out = {}
      BY <2>1, <2>4
    <3> QED BY <1>2, <2>2, <3>1 DEF ClientOK, Client, Bookkept, Named
  <2>5. CASE w.rv = "sent"
    <3> DEFINE s == Sent(c)
               d == [s.c EXCEPT !.tx = w.tx, !.wev = w.wev, !.timers = @ \cup {"expiry"}]
    <3>1. e.out = s.out /\ e.c = d
      BY <2>1, <2>5
    <3>2. s.c = [c EXCEPT !.n = s.c.n] /\ s.c.n \in 0 .. MaxData /\ Named(s.out)
      BY <1>2, SentOK
    <3> HIDE DEF s
    <3>3. d = [c EXCEPT !.n = s.c.n, !.tx = w.tx, !.wev = w.wev, !.timers = @ \cup {"expiry"}]
      BY <3>2 DEF ClientOK, Client
    <3> HIDE DEF d
    <3>4. d \in Client
      BY <2>2, <3>2, <3>3 DEF ClientOK, Client, Bookkept
    <3>5. /\ d.tx = w.tx /\ d.wev = w.wev /\ d.timers = c.timers \cup {"expiry"} /\ d.st = c.st
          /\ d.stream = c.stream /\ d.http = c.http /\ d.dcid = c.dcid
      BY <3>3 DEF ClientOK, Client
    <3>6. ClientOK(d)
      BY <1>2, <2>2, <3>4, <3>5 DEF ClientOK, Bookkept
    <3> QED BY <3>1, <3>2, <3>5, <3>6
  <2> QED BY <2>2, <2>3, <2>4, <2>5
<1> QED BY <1>1, <1>2

Fine(c) == ClientOK(c) /\ c.st # "none"

\* handshake_completed leaves an nghttp3 connection, early data rejected or not.
LEMMA CompletedOK ==
  ASSUME NEW c, ClientOK(c), c.st = "handshake", NEW r \in BOOLEAN, NEW i \in Cids
  PROVE  LET x == [handshake_completed(c, r) EXCEPT !.dcid = i]
         IN  ClientOK(x) /\ x.http /\ x.st = "up"
<1> DEFINE x == [handshake_completed(c, r) EXCEPT !.dcid = i]
<1>1. \/ x = [c EXCEPT !.http = TRUE, !.st = "up", !.dcid = i]
      \/ x = [c EXCEPT !.http = TRUE, !.stream = "none", !.st = "up", !.dcid = i]
  BY DEF handshake_completed, early_data_rejected, WithHttp, ClientOK, Client
<1> HIDE DEF x
<1>2. x \in Client
  <2>1. CASE x = [c EXCEPT !.http = TRUE, !.st = "up", !.dcid = i]
    BY <2>1 DEF ClientOK, Client
  <2>2. CASE x = [c EXCEPT !.http = TRUE, !.stream = "none", !.st = "up", !.dcid = i]
    BY <2>2 DEF ClientOK, Client
  <2> QED BY <1>1, <2>1, <2>2
<1>3. /\ x.http = TRUE /\ x.st = "up" /\ x.stream \in {c.stream, "none"} /\ x.dcid = i
      /\ x.tx = c.tx /\ x.wev = c.wev /\ x.timers = c.timers
  BY <1>1 DEF ClientOK, Client
<1>4. ClientOK(x)
  BY <1>2, <1>3 DEF ClientOK
<1> QED BY <1>3, <1>4 DEF x

LEMMA ConfirmedOK ==
  ASSUME config \in Configs, NEW c, ClientOK(c), c.st = "up"
  PROVE  Fine(handshake_confirmed(c))
<1> DEFINE x == handshake_confirmed(c)
<1>1. config.options \subseteq {"delay", "key", "addr"}
  BY QuicAssumption
<1>2. x = [c EXCEPT !.st = "confirmed", !.timers = c.timers \cup {"check"} \cup config.options]
  BY DEF handshake_confirmed
<1> HIDE DEF x
<1>3. x \in Client
  BY <1>1, <1>2 DEF ClientOK, Client
<1>4. /\ x.http = c.http /\ x.st = "confirmed" /\ x.stream = c.stream /\ x.dcid = c.dcid
      /\ x.tx = c.tx /\ x.wev = c.wev
  BY <1>2 DEF ClientOK, Client
<1>5. ClientOK(x)
  BY <1>3, <1>4 DEF ClientOK
<1> QED BY <1>4, <1>5 DEF Fine, x

LEMMA FedOK ==
  ASSUME config \in Configs, NEW c, Fine(c), NEW p, PacketOK(p), NEW d \in Fed(c, p)
  PROVE  Fine(d)
<1>1. CASE p.kind = "retry" /\ c.st = "handshake" /\ c.token # "retry"
  <2>1. d = [c EXCEPT !.dcid = p.cid, !.token = "retry"]
    BY <1>1 DEF Fed
  <2>2. p.cid \in FreshCids /\ p.cid \in Cids
    BY <1>1 DEF PacketOK
  <2>3. d \in Client
    BY <2>1, <2>2 DEF Fine, ClientOK, Client
  <2>4. /\ d.http = c.http /\ d.st = "handshake" /\ d.stream = c.stream /\ d.dcid = p.cid
        /\ d.tx = c.tx /\ d.wev = c.wev /\ d.timers = c.timers
    BY <1>1, <2>1 DEF Fine, ClientOK, Client
  <2> QED BY <1>1, <2>2, <2>3, <2>4 DEF Fine, ClientOK
<1>2. CASE p.kind = "hello" /\ c.st = "handshake"
  <2>1. PICK r \in BOOLEAN : d \in Extended([handshake_completed(c, r) EXCEPT !.dcid = p.cid])
    BY <1>2, Zenon DEF Fed
  <2> DEFINE x == [handshake_completed(c, r) EXCEPT !.dcid = p.cid]
  <2>2. ClientOK(x) /\ x.http /\ x.st = "up"
    BY <1>2, CompletedOK, Zenon DEF Fine, PacketOK
  <2> HIDE DEF x
  <2> QED BY <2>1, <2>2, ExtendedOK DEF Fine, x
<1>3. CASE p.kind = "confirm" /\ c.st = "up"
  BY <1>3, ConfirmedOK DEF Fed, Fine
<1> QED BY <1>1, <1>2, <1>3 DEF Fed

\* Starting or stopping timers, and noting an offer, keeps the client in order.
LEMMA TimersOK ==
  ASSUME NEW c, Fine(c), NEW T \in SUBSET {"expiry", "check", "delay", "key", "addr"},
         T \subseteq c.timers \cup {"expiry"}
  PROVE  Fine([c EXCEPT !.timers = T]) /\ [c EXCEPT !.timers = T].st = c.st
                                       /\ [c EXCEPT !.timers = T].http = c.http
<1> DEFINE d == [c EXCEPT !.timers = T]
<1>1. d \in Client
  BY DEF Fine, ClientOK, Client
<1>2. /\ d.http = c.http /\ d.st = c.st /\ d.stream = c.stream /\ d.dcid = c.dcid
      /\ d.tx = c.tx /\ d.wev = c.wev /\ d.timers = T
  BY DEF Fine, ClientOK, Client
<1> HIDE DEF d
<1>3. ClientOK(d)
  BY <1>1, <1>2 DEF Fine, ClientOK
<1> QED BY <1>2, <1>3 DEF Fine, d

LEMMA NotedOK ==
  ASSUME NEW c, Fine(c), NEW p
  PROVE  Fine(Noted(c, p))
<1> DEFINE d == Noted(c, p)
           o == c.offered \/ p.kind = "versions"
<1>1. d = [c EXCEPT !.offered = o] /\ o \in BOOLEAN
  BY DEF Noted
<1> HIDE DEF d, o
<1>2. d \in Client
  BY <1>1 DEF Fine, ClientOK, Client
<1>3. /\ d.http = c.http /\ d.st = c.st /\ d.stream = c.stream /\ d.dcid = c.dcid
      /\ d.tx = c.tx /\ d.wev = c.wev /\ d.timers = c.timers
  BY <1>1 DEF Fine, ClientOK, Client
<1> QED BY <1>2, <1>3 DEF Fine, ClientOK, d

LEMMA NoClientOK == ClientOK(NoClient)
<1>1. NoneBlocked \in Txs
  BY DEF NoneBlocked, Txs
<1>2. 0 \in 0 .. MaxData
  BY QuicAssumption
<1>3. NoClient \in Client
  BY <1>1, <1>2 DEF NoClient, Client
<1> QED BY <1>1, <1>3 DEF ClientOK, Bookkept, NoClient, NoneBlocked

-------------------------------------------------------------------------------
(* Steps of the client *)

Good(e) == Fine(e.c) /\ Named(e.out)

LEMMA FailedOK ==
  ASSUME NEW c, Fine(c)
  PROVE  \A e \in Failed(c) : Good(e)
<1>1. ClientOK(disconnected(c)) /\ disconnected(c).st = "closed" /\ Named(Farewell(c))
  BY DisconnectedOK DEF Fine
<1> QED BY <1>1 DEF Failed, Good, Fine

LEMMA CallbackOK ==
  ASSUME NetInv, ClientInv, NEW cs, \A e \in cs : Good(e), Callback(cs)
  PROVE  NetInv' /\ ClientInv'
<1>1. PICK e \in cs : cl' = e.c /\ net' = net \cup e.out
  BY DEF Callback
<1>2. Fine(e.c) /\ Named(e.out)
  BY DEF Good
<1>3. cthread' = cthread
  BY DEF Callback
<1> QED BY <1>1, <1>2, <1>3 DEF Fine, NetInv, ClientInv, Named

LEMMA ClientStep ==
  ASSUME Inv, ClientNext
  PROVE  NetInv' /\ ClientInv'
<1> USE DEF Inv
<1>1. ClientOK(cl) /\ (Running => Fine(cl))
  BY DEF ClientInv, Running, Fine
<1>2. \A c : Fine(c) => \A e \in ClientWrite(c) : Good(e)
  BY ClientWriteOK DEF Fine, Good
<1>3. CASE Connect
  <2> DEFINE c == [NoClient EXCEPT !.st = "handshake", !.sock = TRUE, !.early = config.resume,
                                   !.http = config.resume, !.dcid = <<"client", 0>>,
                                   !.token = IF config.resume THEN "regular" ELSE "none"]
  <2>1. PICK x \in (IF config.resume THEN Extended(c) ELSE {c}) : \E e \in ClientWrite(x) :
              /\ cl' = e.c /\ net' = net \cup e.out
              /\ cthread' = IF e.c.st = "closed" THEN "exited" ELSE "run"
    BY <1>3 DEF Connect
  <2>2. config.resume \in BOOLEAN
    BY QuicAssumption
  <2>3. /\ c.http = config.resume /\ c.st = "handshake" /\ c.stream = "none"
        /\ c.dcid = <<"client", 0>> /\ c.timers = {} /\ c.tx = NoneBlocked /\ c.wev = FALSE
    BY DEF NoClient
  <2>4. c \in Client
    <3> DEFINE b == config.resume
               k == IF b THEN "regular" ELSE "none"
    <3>1. b \in BOOLEAN /\ k \in {"none", "regular", "retry"} /\ <<"client", 0>> \in Cids
      BY <2>2 DEF Cids
    <3>2. NoClient \in Client
      BY NoClientOK DEF ClientOK
    <3> HIDE DEF b, k
    <3> QED BY <3>1, <3>2 DEF Client, b, k
  <2>5. ClientOK(c)
    <3> HIDE DEF c
    <3> QED BY <2>3, <2>4 DEF ClientOK, Bookkept, NoneBlocked, Txs, FreshCids
  <2>6. Fine(x)
    <3> HIDE DEF c
    <3> QED BY <2>1, <2>2, <2>3, <2>5, ExtendedOK DEF Fine
  <2>7. PICK e \in ClientWrite(x) :
              /\ cl' = e.c /\ net' = net \cup e.out
              /\ cthread' = IF e.c.st = "closed" THEN "exited" ELSE "run"
    BY <2>1
  <2>8. Fine(e.c) /\ Named(e.out)
    BY <1>2, <2>6, <2>7 DEF Good
  <2> QED BY <2>7, <2>8 DEF Fine, NetInv, ClientInv, Named
<1>4. CASE RunFails
  BY <1>4 DEF RunFails, NetInv, ClientInv
<1>5. CASE Loop
  <2>1. ClientOK(disconnected(cl)) /\ disconnected(cl).st = "closed" /\ Named(Farewell(cl))
    BY <1>1, DisconnectedOK
  <2> QED BY <1>5, <2>1 DEF Loop, NetInv, ClientInv, Named
<1>6. ASSUME NEW p \in net, readcb(p) PROVE NetInv' /\ ClientInv'
  <2> DEFINE cs == Failed(Noted(cl, p))
                   \cup (IF Ends(cl, p) THEN {}
                         ELSE UNION {ClientWrite([d EXCEPT !.timers = @ \cup {"expiry"}]) : d \in Fed(cl, p)})
  <2>1. Callback(cs) /\ Fine(cl)
    BY <1>1, <1>6, Zenon DEF readcb
  <2>2. \A e \in Failed(Noted(cl, p)) : Good(e)
    BY <2>1, NotedOK, FailedOK
  <2>3. ASSUME NEW d \in Fed(cl, p), NEW e \in ClientWrite([d EXCEPT !.timers = @ \cup {"expiry"}])
        PROVE  Good(e)
    <3>1. Fine(d)
      BY <2>1, FedOK DEF NetInv
    <3>2. d.timers \cup {"expiry"} \in SUBSET {"expiry", "check", "delay", "key", "addr"}
      BY <3>1 DEF Fine, ClientOK, Client
    <3>3. Fine([d EXCEPT !.timers = d.timers \cup {"expiry"}])
      BY <3>1, <3>2, TimersOK
    <3> QED BY <1>2, <2>3, <3>3
  <2>4. \A e \in cs : Good(e)
    BY <2>2, <2>3, Zenon
  <2> HIDE DEF cs
  <2> QED BY <2>1, <2>4, CallbackOK
<1>7. CASE ClientWritecb
  BY <1>1, <1>2, <1>7, CallbackOK DEF ClientWritecb
<1>8. \A t : Fine(cl) => LET c == [cl EXCEPT !.timers = cl.timers \ {t}]
                         IN  Fine(c) /\ c.st = cl.st /\ c.http = cl.http
  <2> SUFFICES ASSUME NEW t, Fine(cl)
               PROVE  LET c == [cl EXCEPT !.timers = cl.timers \ {t}]
                      IN  Fine(c) /\ c.st = cl.st /\ c.http = cl.http
    OBVIOUS
  <2>1. cl.timers \ {t} \in SUBSET {"expiry", "check", "delay", "key", "addr"}
    BY DEF Fine, ClientOK, Client
  <2> QED BY <2>1, TimersOK
<1>9. CASE ClientTimeoutcb
  <2> DEFINE c == [cl EXCEPT !.timers = cl.timers \ {"expiry"}]
  <2>1. Callback(Failed(cl) \cup ClientWrite(c)) /\ Fine(cl)
    BY <1>1, <1>9 DEF ClientTimeoutcb
  <2>2. Fine(c)
    BY <1>8, <2>1
  <2> HIDE DEF c
  <2> QED BY <1>2, <2>1, <2>2, FailedOK, CallbackOK
<1>10. "delay" \in cl.timers \/ "check" \in cl.timers => cl.http = TRUE
  BY <1>1 DEF ClientOK, Client
<1>11. CASE delay_streamcb
  <2> DEFINE c == [cl EXCEPT !.timers = cl.timers \ {"delay"}]
  <2>1. Callback(UNION {ClientWrite(d) : d \in Extended(c)}) /\ Fine(cl) /\ cl.http = TRUE
    BY <1>1, <1>10, <1>11 DEF delay_streamcb
  <2>2. Fine(c) /\ c.http
    BY <1>8, <2>1
  <2> HIDE DEF c
  <2>3. \A d \in Extended(c) : Fine(d)
    BY <2>2, ExtendedOK DEF Fine
  <2> QED BY <1>2, <2>1, <2>3, CallbackOK
<1>12. CASE check_streamcb
  <2>1. Callback({[c |-> c, out |-> {}] : c \in Extended(cl)}) /\ Fine(cl) /\ cl.http = TRUE
    BY <1>1, <1>10, <1>12 DEF check_streamcb
  <2>2. \A d \in Extended(cl) : Fine(d)
    BY <2>1, ExtendedOK DEF Fine
  <2>3. \A e \in {[c |-> c, out |-> {}] : c \in Extended(cl)} : Good(e)
    BY <2>2 DEF Good, Named
  <2> QED BY <2>1, <2>3, CallbackOK
<1>13. CASE key_updatecb
  <2> DEFINE c == [cl EXCEPT !.timers = cl.timers \ {"key"}]
  <2>1. Callback({[c |-> c, out |-> {}]} \cup Failed(c)) /\ Fine(cl)
    BY <1>1, <1>13 DEF key_updatecb
  <2>2. Fine(c)
    BY <1>8, <2>1
  <2> HIDE DEF c
  <2>3. Good([c |-> c, out |-> {}])
    BY <2>2 DEF Good, Named
  <2> QED BY <2>1, <2>2, <2>3, FailedOK, CallbackOK
<1>14. CASE change_local_addrcb
  <2> DEFINE c == [cl EXCEPT !.timers = cl.timers \ {"addr"}]
  <2>1. Callback({[c |-> c, out |-> {}]}) /\ Fine(cl)
    BY <1>1, <1>14 DEF change_local_addrcb
  <2>2. Fine(c)
    BY <1>8, <2>1
  <2> HIDE DEF c
  <2>3. Good([c |-> c, out |-> {}])
    BY <2>2 DEF Good, Named
  <2> QED BY <2>1, <2>3, CallbackOK
<1>15. CASE WakeClient
  <2>1. cl' = [cl EXCEPT !.wev = TRUE] /\ cthread' = cthread /\ net' = net
    BY <1>15 DEF WakeClient
  <2>2. cl' \in Client
    BY <1>1, <2>1 DEF ClientOK, Client
  <2>3. /\ cl'.http = cl.http /\ cl'.st = cl.st /\ cl'.stream = cl.stream /\ cl'.dcid = cl.dcid
        /\ cl'.tx = cl.tx /\ cl'.wev = TRUE /\ cl'.timers = cl.timers
    BY <1>1, <2>1 DEF ClientOK, Client
  <2>4. ClientOK(cl')
    BY <1>1, <2>2, <2>3 DEF ClientOK
  <2> QED BY <2>1, <2>3, <2>4 DEF ClientInv, NetInv
<1>16. CASE Close \/ ClientTerminate \/ Join
  BY <1>16 DEF Close, ClientTerminate, Join, NetInv, ClientInv
<1> QED BY <1>3, <1>4, <1>5, <1>6, <1>7, <1>9, <1>11, <1>12, <1>13, <1>14, <1>15, <1>16
        DEF ClientNext, ClientIO

-------------------------------------------------------------------------------
(* The server's handlers *)

\* What a callback may leave behind of handler r: the caller removes it, or it
\* is in order and the same connection.
Kept(e, r) ==
    /\ Named(e.out)
    /\ e.rv # "gone" => HandlerOK(e.r) /\ e.r.life = r.life /\ e.r.dcid = r.dcid

LEMMA RepliedNamed ==
  ASSUME NEW h \in Ids, NEW k, k \notin {"initial", "retry"}
  PROVE  Named(Replied(h, k)) /\ Named({})
BY DEF Named, Replied, PacketOK, ToClient, Cids

\* A connection that begins to close, or that drains.
LEMMA ClosingOK ==
  ASSUME NEW r, r \in Handler, r.tx.ok, r.life = "live" => r.dcid \in FreshCids,
         NEW k \in {"closing", "draining"},
         NEW x, x = [r EXCEPT !.conn = k, !.wev = FALSE, !.timer = "closewait"]
  PROVE  HandlerOK(x) /\ x.life = r.life /\ x.dcid = r.dcid
<1>1. x \in Handler
  BY DEF Handler
<1>2. /\ x.life = r.life /\ x.dcid = r.dcid /\ x.tx = r.tx /\ x.conn = k
  BY DEF Handler
<1> QED BY <1>1, <1>2 DEF HandlerOK, Open

LEMMA HandleErrorKept ==
  ASSUME NEW h \in Ids, NEW r, r \in Handler, r.tx.ok, r.life = "live" => r.dcid \in FreshCids,
         NEW e \in handle_error(r, h)
  PROVE  Kept(e, r)
<1>1. HandlerOK(CloseWritten(r)) /\ CloseWritten(r).life = r.life /\ CloseWritten(r).dcid = r.dcid
  BY ClosingOK DEF CloseWritten
<1>2. Named(Replied(h, "close")) /\ Named({})
  BY RepliedNamed
<1> QED BY <1>1, <1>2 DEF handle_error, Kept

\* Handler::on_write.
LEMMA HandlerWriteKept ==
  ASSUME NEW h \in Ids, NEW r, HandlerOK(r), NEW e \in HandlerWrite(r, h)
  PROVE  Kept(e, r)
<1>1. CASE ~Open(r)
  BY <1>1 DEF HandlerWrite, Kept, Named
<1>2. CASE Open(r)
  <2>1. PICK w \in on_write(r.tx, "server") :
          e \in LET s == [r EXCEPT !.tx = w.tx, !.wev = w.wev]
                IN  CASE w.rv = "error" -> handle_error(s, h)
                      [] w.rv = "waiting" -> {[r |-> s, rv |-> "ok", out |-> {}]}
                      [] OTHER -> {[r |-> update_timer(s), rv |-> "ok", out |-> Speech(s, h)]}
    BY <1>2 DEF HandlerWrite
  <2> DEFINE s == [r EXCEPT !.tx = w.tx, !.wev = w.wev]
  <2>2. /\ Bookkept(w.tx) /\ w.wev \in BOOLEAN /\ (w.tx.blocked => w.wev)
        /\ w.rv \in {"sent", "error", "waiting"}
    BY <1>2, OnWriteResult DEF HandlerOK
  <2>3. s \in Handler
    BY <2>2 DEF HandlerOK, Handler, Bookkept
  <2>4. /\ s.tx = w.tx /\ s.wev = w.wev /\ s.life = r.life /\ s.dcid = r.dcid
        /\ s.conn = r.conn /\ s.timer = r.timer /\ s.done = r.done
    BY DEF HandlerOK, Handler
  <2> HIDE DEF s
  <2>5. HandlerOK(s)
    BY <1>2, <2>2, <2>3, <2>4 DEF HandlerOK, Open, Bookkept
  <2>6. CASE w.rv = "error"
    <3>1. e \in handle_error(s, h)
      BY <2>1, <2>6 DEF s
    <3>2. Kept(e, s)
      BY <2>5, <3>1, HandleErrorKept DEF HandlerOK
    <3> QED BY <2>4, <3>2 DEF Kept
  <2>7. CASE w.rv = "waiting"
    <3>1. e = [r |-> s, rv |-> "ok", out |-> {}]
      BY <2>1, <2>7 DEF s
    <3> QED BY <2>4, <2>5, <3>1 DEF Kept, Named
  <2>8. CASE w.rv = "sent"
    <3>1. e = [r |-> update_timer(s), rv |-> "ok", out |-> Speech(s, h)]
      BY <2>1, <2>8 DEF s
    <3>2. HandlerOK(update_timer(s)) /\ update_timer(s).life = s.life /\ update_timer(s).dcid = s.dcid
      BY <2>5 DEF update_timer, HandlerOK, Handler, Open
    <3>3. Named(Speech(s, h))
      BY RepliedNamed DEF Speech
    <3> QED BY <2>4, <3>1, <3>2, <3>3 DEF Kept
  <2> QED BY <2>2, <2>6, <2>7, <2>8
<1> QED BY <1>1, <1>2

LEMMA NewHandlerType ==
  /\ NewHandler \in Handler /\ NewHandler.life = "new"
  /\ [NewHandler EXCEPT !.life = "freed"] \in Handler
  /\ [NewHandler EXCEPT !.life = "freed"].life = "freed"
<1>1. NoneBlocked \in Txs /\ 0 \in 0 .. MaxPto
  BY QuicAssumption DEF NoneBlocked, Txs
<1>2. NewHandler \in Handler
  BY <1>1 DEF NewHandler, Handler
<1> QED BY <1>2 DEF Handler, NewHandler

-------------------------------------------------------------------------------
(* handlers_ *)

LEMMA CidsDiffer ==
  ASSUME NEW g \in Ids, NEW h \in Ids
  PROVE  /\ <<"first", h>> \in Cids /\ <<"second", h>> \in Cids
         /\ <<"first", h>> \notin FreshCids /\ <<"second", h>> \notin FreshCids
         /\ g # h => <<"first", g>> # <<"first", h>> /\ <<"second", g>> # <<"second", h>>
         /\ <<"first", g>> # <<"second", h>>
         /\ FreshCids \subseteq Cids /\ h # 0
BY QuicAssumption DEF Cids, FreshCids, Ids

\* A handler that is removed takes every name of its own along.
LEMMA RemoveStep ==
  ASSUME HandlersInv, NEW h \in Ids, Live(h), remove(h)
  PROVE  HandlersInv'
<1>1. hd' = [hd EXCEPT ![h] = [NewHandler EXCEPT !.life = "freed"]] /\ hd \in [Ids -> Handler]
  BY DEF remove, HandlersInv
<1>2. /\ hd' \in [Ids -> Handler] /\ hd'[h].life = "freed"
      /\ \A g \in Ids \ {h} : hd'[g] = hd[g]
  BY <1>1, NewHandlerType
<1>3. ASSUME NEW c \in Cids
      PROVE  handlers'[c] = IF handlers[c] = h THEN 0 ELSE handlers[c]
  <2>1. handlers[c] = h => c \in NamesOf(h)
    BY CidsDiffer DEF HandlersInv
  <2>2. handlers'[c] = IF handlers[c] = h /\ c \in NamesOf(h) THEN 0 ELSE handlers[c]
    BY DEF remove, Dissociated, NamesOf
  <2> QED BY <2>1, <2>2
<1>4. handlers' \in [Cids -> 0 .. MaxHandlers]
  <2>1. handlers' = [c \in Cids |-> IF handlers[c] = h /\ c \in NamesOf(h) THEN 0 ELSE handlers[c]]
    BY DEF remove, Dissociated, NamesOf
  <2> QED BY <2>1, QuicAssumption DEF HandlersInv
<1>5. ASSUME NEW c \in Cids, handlers'[c] # 0
      PROVE  Live(handlers[c])' /\ c \in NamesOf(handlers[c])'
  <2>1. handlers'[c] = handlers[c] /\ handlers[c] # h /\ handlers[c] \in Ids
    BY <1>3, <1>5, QuicAssumption DEF HandlersInv, Ids
  <2> QED BY <1>2, <1>5, <2>1 DEF HandlersInv, Live, NamesOf
<1>6. ASSUME NEW g \in Ids, Live(g)'
      PROVE  HandlerOK(hd'[g]) /\ handlers'[hd'[g].dcid] = g
  <2>1. g # h /\ hd'[g] = hd[g] /\ Live(g)
    BY <1>2, <1>6 DEF Live
  <2>2. hd[g].dcid \in Cids /\ HandlerOK(hd[g]) /\ handlers[hd[g].dcid] = g
    BY <2>1, CidsDiffer DEF HandlersInv, HandlerOK, Live
  <2> QED BY <1>3, <2>1, <2>2
<1> QED BY <1>2, <1>4, <1>5, <1>6 DEF HandlersInv

\* A handler that stays in order keeps its names; it may get a second one.
LEMMA KeepStep ==
  ASSUME HandlersInv, NEW h \in Ids, Live(h),
         NEW r, HandlerOK(r), r.life = "live", r.dcid = hd[h].dcid, hd' = [hd EXCEPT ![h] = r],
         NEW new \in {{}, {<<"second", h>>}},
         handlers' = [c \in Cids |-> IF c \in new /\ handlers[c] = 0 THEN h ELSE handlers[c]]
  PROVE  HandlersInv'
<1>1. /\ hd' \in [Ids -> Handler] /\ hd'[h] = r
      /\ \A g \in Ids \ {h} : hd'[g] = hd[g]
  BY DEF HandlersInv, HandlerOK
<1>2. \A g \in Ids : (Live(g)' <=> Live(g)) /\ hd'[g].dcid = hd[g].dcid /\ NamesOf(g)' = NamesOf(g)
  BY <1>1 DEF Live, NamesOf
<1>3. handlers' \in [Cids -> 0 .. MaxHandlers]
  BY DEF HandlersInv, Ids
<1>4. ASSUME NEW c \in Cids, handlers'[c] # 0
      PROVE  Live(handlers[c])' /\ c \in NamesOf(handlers[c])'
  <2>1. CASE handlers'[c] = handlers[c]
    <3>1. handlers[c] \in Ids
      BY <1>4, <2>1, QuicAssumption DEF HandlersInv, Ids
    <3> QED BY <1>2, <1>4, <2>1, <3>1 DEF HandlersInv
  <2>2. CASE handlers'[c] = h /\ c = <<"second", h>>
    BY <1>2, <2>2 DEF NamesOf
  <2> QED BY <2>1, <2>2
<1>5. ASSUME NEW g \in Ids, Live(g)'
      PROVE  HandlerOK(hd'[g]) /\ handlers'[hd'[g].dcid] = g
  <2>1. /\ Live(g) /\ hd'[g].dcid = hd[g].dcid /\ hd[g].dcid \in Cids
        /\ handlers[hd[g].dcid] = g /\ g # 0
    BY <1>2, <1>5, CidsDiffer DEF HandlersInv, HandlerOK, Live
  <2>2. HandlerOK(hd'[g])
    BY <1>1, <2>1 DEF HandlersInv
  <2> QED BY <2>1, <2>2
<1> QED BY <1>1, <1>3, <1>4, <1>5 DEF HandlersInv

LEMMA SettleStep ==
  ASSUME HandlersInv, NetInv, NEW h \in Ids, Live(h), NEW e, Kept(e, hd[h]), Settle(h, e)
  PROVE  HandlersInv' /\ NetInv'
<1>1. NetInv'
  BY DEF Settle, Kept, NetInv, Named
<1>2. CASE e.rv = "gone"
  BY <1>1, <1>2, RemoveStep DEF Settle
<1>3. CASE e.rv # "gone"
  <2>1. /\ HandlerOK(e.r) /\ e.r.life = "live" /\ e.r.dcid = hd[h].dcid
        /\ hd' = [hd EXCEPT ![h] = e.r]
    BY <1>3 DEF Settle, Kept, Live
  <2> DEFINE second == IF e.r.done /\ ~hd[h].done THEN {<<"second", h>>} ELSE {}
  <2>2. handlers' = [c \in Cids |-> IF c \in second /\ handlers[c] = 0 THEN h ELSE handlers[c]]
    <3>1. handlers \in [Cids -> 0 .. MaxHandlers] /\ <<"second", h>> \in Cids
      BY CidsDiffer DEF HandlersInv
    <3> QED BY <1>3, <3>1 DEF Settle, associate_cid
  <2>3. second \in {{}, {<<"second", h>>}}
    OBVIOUS
  <2> HIDE DEF second
  <2> QED BY <1>1, <2>1, <2>2, <2>3, KeepStep
<1> QED BY <1>2, <1>3

-------------------------------------------------------------------------------
(* Steps of the server *)

LEMMA LiveFacts ==
  ASSUME HandlersInv, NEW h \in Ids, Live(h)
  PROVE  /\ HandlerOK(hd[h]) /\ hd[h] \in Handler /\ hd[h].tx.ok
         /\ hd[h].life = "live" /\ hd[h].dcid \in FreshCids
BY DEF HandlersInv, HandlerOK, Live

LEMMA AcceptStep ==
  ASSUME HandlersInv, NetInv, NEW p \in net, NEW h \in Ids, Accept(p, h)
  PROVE  HandlersInv' /\ NetInv'
<1> DEFINE r == update_timer([NewHandler EXCEPT !.life = "live", !.dcid = p.cid])
           dropped == {[r |-> r, rv |-> "gone", out |-> out] : out \in {{}, {ToClient("retry", <<"retry", 0>>)}}}
<1>1. p.cid \in Cids /\ p.cid \in FreshCids /\ handlers[p.cid] = 0 /\ ~Live(h)
  BY DEF Accept, Unknown, NetInv, PacketOK, Live
<1>2. PICK e \in HandlerWrite(r, h) \cup handle_error(r, h) \cup dropped :
              /\ net' = net \cup e.out
              /\ IF e.rv = "ok"
                 THEN /\ hd' = [hd EXCEPT ![h] = e.r]
                      /\ handlers' = [c \in Cids |->
                             IF c \in {p.cid, <<"first", h>>} /\ handlers[c] = 0 THEN h ELSE handlers[c]]
                 ELSE hd' = [hd EXCEPT ![h].life = "freed"] /\ UNCHANGED handlers
  BY Zenon DEF Accept
<1>3. r \in Handler
  BY <1>1, NewHandlerType DEF Handler, update_timer
<1>4. /\ r.life = "live" /\ r.dcid = p.cid /\ r.tx = NoneBlocked /\ r.timer = "expiry"
      /\ r.conn = "open"
  BY DEF update_timer, NewHandler
<1> HIDE DEF r
<1>5. HandlerOK(r)
  BY <1>1, <1>3, <1>4 DEF HandlerOK, Bookkept, NoneBlocked, Txs
<1>6. Kept(e, r)
  <2>1. CASE e \in dropped
    <3>1. Named({}) /\ Named({ToClient("retry", <<"retry", 0>>)})
      BY DEF Named, PacketOK, ToClient, FreshCids, Cids
    <3> QED BY <2>1, <3>1 DEF Kept
  <2> HIDE DEF dropped
  <2>2. CASE e \in handle_error(r, h)
    BY <1>5, <2>2, HandleErrorKept DEF HandlerOK
  <2>3. CASE e \in HandlerWrite(r, h)
    BY <1>5, <2>3, HandlerWriteKept
  <2> QED BY <1>2, <2>1, <2>2, <2>3
<1>7. NetInv'
  BY <1>2, <1>6 DEF Kept, NetInv, Named
<1>8. \A c \in Cids : handlers[c] # h
  BY <1>1, CidsDiffer DEF HandlersInv
<1>9. CASE e.rv = "ok"
  <2>1. /\ hd' = [hd EXCEPT ![h] = e.r]
        /\ handlers' = [c \in Cids |->
             IF c \in {p.cid, <<"first", h>>} /\ handlers[c] = 0 THEN h ELSE handlers[c]]
    BY <1>2, <1>9
  <2>2. HandlerOK(e.r) /\ e.r.life = "live" /\ e.r.dcid = p.cid
    BY <1>4, <1>6, <1>9 DEF Kept
  <2>3. /\ hd' \in [Ids -> Handler] /\ hd'[h] = e.r
        /\ \A g \in Ids \ {h} : hd'[g] = hd[g]
    BY <2>1, <2>2 DEF HandlersInv, HandlerOK
  <2>4. handlers' \in [Cids -> 0 .. MaxHandlers]
    BY <2>1 DEF HandlersInv, Ids
  <2>5. ASSUME NEW c \in Cids, handlers'[c] # 0
        PROVE  Live(handlers[c])' /\ c \in NamesOf(handlers[c])'
    <3>1. CASE handlers[c] # 0
      <4>1. handlers'[c] = handlers[c] /\ handlers[c] \in Ids \ {h}
        BY <1>8, <2>1, <3>1, QuicAssumption DEF HandlersInv, Ids
      <4> QED BY <2>3, <3>1, <4>1 DEF HandlersInv, Live, NamesOf
    <3>2. CASE handlers[c] = 0
      <4>1. handlers'[c] = h /\ c \in {p.cid, <<"first", h>>}
        BY <2>1, <2>5, <3>2
      <4> QED BY <2>2, <2>3, <4>1 DEF Live, NamesOf
    <3> QED BY <3>1, <3>2
  <2>6. ASSUME NEW g \in Ids, Live(g)'
        PROVE  HandlerOK(hd'[g]) /\ handlers'[hd'[g].dcid] = g
    <3>1. CASE g = h
      BY <1>1, <2>1, <2>2, <2>3, <3>1
    <3>2. CASE g # h
      <4>1. hd'[g] = hd[g] /\ Live(g)
        BY <2>3, <2>6, <3>2 DEF Live
      <4>2. HandlerOK(hd[g]) /\ hd[g].dcid \in Cids /\ handlers[hd[g].dcid] = g /\ g # 0
        BY <4>1, LiveFacts, CidsDiffer DEF HandlersInv
      <4> QED BY <2>1, <4>1, <4>2
    <3> QED BY <3>1, <3>2
  <2> QED BY <1>7, <2>3, <2>4, <2>5, <2>6 DEF HandlersInv
<1>10. CASE e.rv # "ok"
  <2>1. hd' = [hd EXCEPT ![h].life = "freed"] /\ handlers' = handlers /\ hd \in [Ids -> Handler]
    BY <1>2, <1>10 DEF HandlersInv
  <2>2. /\ hd' \in [Ids -> Handler] /\ hd'[h].life = "freed"
        /\ \A g \in Ids \ {h} : hd'[g] = hd[g]
    BY <2>1 DEF Handler
  <2>3. \A g \in Ids : Live(g)' <=> Live(g) /\ g # h
    BY <1>1, <2>2 DEF Live
  <2>4. ASSUME NEW c \in Cids, handlers[c] # 0
        PROVE  Live(handlers[c])' /\ c \in NamesOf(handlers[c])'
    <3>1. handlers[c] \in Ids \ {h}
      BY <1>8, <2>4, QuicAssumption DEF HandlersInv, Ids
    <3> QED BY <2>1, <2>2, <2>4, <3>1 DEF HandlersInv, Live, NamesOf
  <2>5. ASSUME NEW g \in Ids, Live(g)'
        PROVE  HandlerOK(hd'[g]) /\ handlers[hd'[g].dcid] = g
    BY <2>2, <2>3, <2>5 DEF HandlersInv
  <2> QED BY <1>7, <2>1, <2>2, <2>4, <2>5 DEF HandlersInv
<1> QED BY <1>9, <1>10

LEMMA ReadStep ==
  ASSUME HandlersInv, NetInv, NEW p \in net, NEW h \in Ids, ReadPkt(p, h)
  PROVE  HandlersInv' /\ NetInv'
<1> DEFINE r == hd[h]
<1>1. Live(h) /\ Open(r)
  BY DEF ReadPkt
<1>2. /\ HandlerOK(r) /\ r \in Handler /\ r.tx.ok
      /\ r.life = "live" /\ r.dcid \in FreshCids
  BY <1>1, LiveFacts
<1>3. CASE p.kind = "close"
  <2> DEFINE x == start_draining_period(r)
             e == [r |-> x, rv |-> "wait", out |-> {}]
  <2>1. x = [r EXCEPT !.conn = "draining", !.wev = FALSE, !.timer = "closewait"]
    BY DEF start_draining_period
  <2>2. Settle(h, e)
    BY <1>3 DEF ReadPkt
  <2> HIDE DEF x, r
  <2>4. HandlerOK(x) /\ x.life = r.life /\ x.dcid = r.dcid
    <3>1. "draining" \in {"closing", "draining"}
      OBVIOUS
    <3> QED BY <1>2, <2>1, <3>1, ClosingOK
  <2>3. Kept(e, r)
    BY <2>4 DEF Kept, Named
  <2> QED BY <1>1, <2>2, <2>3, SettleStep DEF r
<1>4. CASE p.kind # "close"
  <2> DEFINE u == Understood(r, p)
             x == signal_write(update_timer(u))
  <2>1. PICK e \in {[r |-> x, rv |-> "ok", out |-> {}]} \cup handle_error(r, h)
                   \cup {[r |-> r, rv |-> "gone", out |-> {}]} : Settle(h, e)
    BY <1>4 DEF ReadPkt
  <2>2. /\ u \in Handler /\ u.tx = r.tx /\ u.conn = r.conn /\ u.life = r.life
        /\ u.dcid = r.dcid
    <3>1. p.n \in Nat /\ 0 \in 0 .. MaxPto
      BY QuicAssumption DEF NetInv
    <3>2. u = r \/ u = [r EXCEPT !.done = TRUE, !.pto = 0, !.seen = r.seen \cup {p.n}]
      BY DEF Understood
    <3> HIDE DEF u, r
    <3>3. CASE u = [r EXCEPT !.done = TRUE, !.pto = 0, !.seen = r.seen \cup {p.n}]
      <4>1. r.seen \cup {p.n} \in SUBSET Nat
        BY <1>2, <3>1 DEF Handler
      <4>2. u \in Handler
        BY <1>2, <3>1, <3>3, <4>1 DEF Handler
      <4>3. u.tx = r.tx /\ u.conn = r.conn /\ u.life = r.life /\ u.dcid = r.dcid
        BY <1>2, <3>3 DEF Handler
      <4> QED BY <4>2, <4>3
    <3> QED BY <1>2, <3>2, <3>3
  <2> HIDE DEF u
  <2>3. /\ x \in Handler /\ x.tx = r.tx /\ x.conn = r.conn /\ x.life = r.life
        /\ x.dcid = r.dcid /\ x.wev = TRUE /\ x.timer = "expiry"
    BY <2>2 DEF signal_write, update_timer, Handler
  <2> HIDE DEF x, r
  <2>4. HandlerOK(x)
    BY <1>1, <1>2, <2>3 DEF HandlerOK, Open
  <2>5. CASE e = [r |-> x, rv |-> "ok", out |-> {}]
    <3>1. Kept(e, r)
      BY <2>3, <2>4, <2>5 DEF Kept, Named
    <3> QED BY <1>1, <2>1, <3>1, SettleStep DEF r
  <2>6. CASE e \in handle_error(r, h)
    <3>1. Kept(e, r)
      BY <1>2, <2>6, HandleErrorKept
    <3> QED BY <1>1, <2>1, <3>1, SettleStep DEF r
  <2>7. CASE e = [r |-> r, rv |-> "gone", out |-> {}]
    <3>1. Kept(e, r)
      BY <2>7 DEF Kept, Named
    <3> QED BY <1>1, <2>1, <3>1, SettleStep DEF r
  <2> QED BY <2>1, <2>5, <2>6, <2>7
<1> QED BY <1>3, <1>4

LEMMA ClosingReadStep ==
  ASSUME HandlersInv, NetInv, NEW p \in net, NEW h \in Ids, ReadClosing(p, h)
  PROVE  HandlersInv' /\ NetInv'
<1>1. PICK rv \in {"wait", "gone"} :
          Settle(h, [r |-> hd[h], rv |-> rv, out |-> IF rv = "wait" THEN Replied(h, "close") ELSE {}])
  BY DEF ReadClosing
<1> DEFINE e == [r |-> hd[h], rv |-> rv, out |-> IF rv = "wait" THEN Replied(h, "close") ELSE {}]
<1>2. Live(h) /\ HandlerOK(hd[h])
  BY LiveFacts DEF ReadClosing
<1>3. Kept(e, hd[h])
  BY <1>2, RepliedNamed DEF Kept
<1> QED BY <1>1, <1>2, <1>3, SettleStep

LEMMA TimeoutStep ==
  ASSUME HandlersInv, NetInv, NEW h \in Ids, timeoutcb(h)
  PROVE  HandlersInv' /\ NetInv'
<1> DEFINE r == hd[h]
           idle == [r |-> r, rv |-> "gone", out |-> {}]
           again == [r EXCEPT !.pto = @ + 1, !.timer = "off"]
<1>1. PICK e \in {idle} \cup (IF r.pto < MaxPto
                              THEN HandlerWrite(again, h) \cup handle_error(again, h) ELSE {}) :
              Settle(h, Stopped(e))
  BY DEF timeoutcb
<1>2. /\ Live(h) /\ HandlerOK(r) /\ r \in Handler /\ r.tx.ok
      /\ r.life = "live" /\ r.dcid \in FreshCids
  BY LiveFacts DEF timeoutcb
<1>3. Kept(e, r)
  <2>1. CASE e = idle
    BY <2>1 DEF Kept, Named
  <2>2. CASE r.pto < MaxPto /\ e \in HandlerWrite(again, h) \cup handle_error(again, h)
    <3>1. again \in Handler
      <4>1. r.pto \in 0 .. MaxPto /\ MaxPto \in Nat
        BY <1>2, QuicAssumption DEF Handler
      <4>2. r.pto + 1 \in 0 .. MaxPto
        BY <2>2, <4>1
      <4>3. again = [r EXCEPT !.pto = r.pto + 1, !.timer = "off"]
        OBVIOUS
      <4> HIDE DEF r, again
      <4> QED BY <1>2, <4>2, <4>3 DEF Handler
    <3>2. /\ again.tx = r.tx /\ again.conn = r.conn /\ again.life = r.life
          /\ again.dcid = r.dcid /\ again.wev = r.wev /\ again.timer = "off"
      BY <1>2 DEF Handler
    <3> HIDE DEF r, again, idle
    <3>3. HandlerOK(again)
      BY <1>2, <3>1, <3>2 DEF HandlerOK, Open
    <3>4. Kept(e, again)
      BY <1>2, <2>2, <3>1, <3>2, <3>3, HandlerWriteKept, HandleErrorKept
    <3> QED BY <3>2, <3>4 DEF Kept
  <2> HIDE DEF r, again, idle
  <2> QED BY <1>1, <2>1, <2>2
<1>4. Kept(Stopped(e), r)
  <2>1. CASE e.rv = "wait"
    <3> DEFINE x == [e.r EXCEPT !.timer = "off", !.late = TRUE]
    <3>1. Stopped(e) = [r |-> x, rv |-> "wait", out |-> e.out]
      BY <2>1 DEF Stopped
    <3>2. HandlerOK(e.r) /\ e.r.life = r.life /\ e.r.dcid = r.dcid
      BY <1>3, <2>1 DEF Kept
    <3>3. HandlerOK(x) /\ x.life = r.life /\ x.dcid = r.dcid
      BY <3>2 DEF HandlerOK, Handler, Open
    <3> HIDE DEF x, r
    <3>4. Stopped(e).out = e.out /\ Stopped(e).r = x
      BY <3>1
    <3> QED BY <1>3, <3>3, <3>4 DEF Kept
  <2>2. CASE e.rv # "wait"
    BY <1>3, <2>2 DEF Stopped
  <2> QED BY <2>1, <2>2
<1> QED BY <1>1, <1>2, <1>4, SettleStep

\* The packets that Server answers without a handler.
LEMMA AnsweredStep ==
  ASSUME HandlersInv, NetInv, NEW p \in net, NEW k, k \notin {"initial", "retry"},
         UNCHANGED <<hd, handlers>>,
         \/ net' = net \cup {ToClient(k, p.cid)}
         \/ net' = net \cup {ToClient("retry", <<"retry", 0>>)}
  PROVE  HandlersInv' /\ NetInv'
<1>1. PacketOK(ToClient(k, p.cid)) /\ PacketOK(ToClient("retry", <<"retry", 0>>))
  BY DEF NetInv, PacketOK, ToClient, FreshCids, Cids
<1>2. ToClient(k, p.cid).n = 0 /\ ToClient("retry", <<"retry", 0>>).n = 0
  BY DEF ToClient
<1>3. NetInv'
  BY <1>1, <1>2 DEF NetInv
<1> QED BY <1>3 DEF HandlersInv, Live, NamesOf

\* A connection identifier that is retired is never the one of the first packet.
LEMMA RetireStep ==
  ASSUME HandlersInv, NEW h \in Ids, remove_connection_id(h)
  PROVE  HandlersInv'
<1>1. /\ handlers' = [handlers EXCEPT ![<<"first", h>>] = 0] /\ hd' = hd
      /\ <<"first", h>> \in Cids
  BY CidsDiffer DEF remove_connection_id
<1>2. handlers' \in [Cids -> 0 .. MaxHandlers]
  BY <1>1, QuicAssumption DEF HandlersInv
<1>3. ASSUME NEW c \in Cids, handlers'[c] # 0
      PROVE  Live(handlers[c])' /\ c \in NamesOf(handlers[c])'
  <2>1. handlers'[c] = handlers[c]
    BY <1>1, <1>3 DEF HandlersInv
  <2> QED BY <1>1, <1>3, <2>1 DEF HandlersInv, Live, NamesOf
<1>4. ASSUME NEW g \in Ids, Live(g)'
      PROVE  HandlerOK(hd'[g]) /\ handlers'[hd'[g].dcid] = g
  <2>1. Live(g)
    BY <1>1, <1>4 DEF Live
  <2>2. hd[g].dcid \in FreshCids /\ HandlerOK(hd[g]) /\ handlers[hd[g].dcid] = g
    BY <2>1, LiveFacts DEF HandlersInv
  <2>3. hd[g].dcid # <<"first", h>> /\ hd[g].dcid \in Cids
    BY <2>2, CidsDiffer
  <2> QED BY <1>1, <2>2, <2>3 DEF HandlersInv
<1> QED BY <1>1, <1>2, <1>3, <1>4 DEF HandlersInv

\* The worker wakes a handler that may have been deleted since it was found.
LEMMA WakeStep ==
  ASSUME HandlersInv, NetInv, BucketInv, writecb_start
  PROVE  HandlersInv' /\ NetInv'
<1>1. NetInv'
  BY DEF writecb_start, NetInv
<1>2. worker \in Ids /\ handlers' = handlers
  BY QuicAssumption DEF writecb_start, BucketInv, Ids
<1>3. CASE ~Live(worker)
  <2>1. hd' = hd
    BY <1>3 DEF writecb_start
  <2> QED BY <1>1, <1>2, <2>1 DEF HandlersInv, Live, NamesOf
<1>4. CASE Live(worker)
  <2> DEFINE r == hd[worker]
             x == [r EXCEPT !.wev = TRUE]
  <2>1. hd' = [hd EXCEPT ![worker] = x]
    BY <1>4 DEF writecb_start
  <2>2. HandlerOK(r) /\ r \in Handler /\ r.life = "live"
    BY <1>2, <1>4, LiveFacts
  <2>3. x \in Handler
    BY <2>2 DEF Handler
  <2>4. /\ x.tx = r.tx /\ x.conn = r.conn /\ x.life = r.life /\ x.dcid = r.dcid
        /\ x.wev = TRUE /\ x.timer = r.timer
    BY <2>2 DEF Handler
  <2> HIDE DEF x
  <2>5. HandlerOK(x)
    BY <2>2, <2>3, <2>4 DEF HandlerOK, Open
  <2> DEFINE none == {}
  <2>6. handlers' = [c \in Cids |-> IF c \in none /\ handlers[c] = 0 THEN worker ELSE handlers[c]]
    BY <1>2 DEF HandlersInv
  <2>7. HandlersInv'
    BY <1>2, <1>4, <2>1, <2>2, <2>4, <2>5, <2>6, KeepStep
  <2> QED BY <1>1, <2>7
<1> QED BY <1>3, <1>4

LEMMA DisconnectStep ==
  ASSUME HandlersInv, NetInv, disconnect
  PROVE  HandlersInv' /\ NetInv'
<1> DEFINE freed == [NewHandler EXCEPT !.life = "freed"]
<1>1. hd' = [h \in Ids |-> IF Live(h) THEN freed ELSE hd[h]] /\ handlers' = [c \in Cids |-> 0]
  BY DEF disconnect
<1>2. freed \in Handler /\ freed.life = "freed"
  BY NewHandlerType
<1> HIDE DEF freed
<1>3. hd' \in [Ids -> Handler] /\ \A h \in Ids : ~Live(h)'
  BY <1>1, <1>2 DEF HandlersInv, Live
<1>4. HandlersInv'
  BY <1>1, <1>3, QuicAssumption DEF HandlersInv
<1>5. ASSUME NEW p \in net' PROVE PacketOK(p) /\ p.n \in Nat
  <2>1. p \in net \/ \E h \in Ids : p \in Replied(h, "close")
    BY <1>5 DEF disconnect
  <2>2. \A h \in Ids : Named(Replied(h, "close"))
    BY RepliedNamed
  <2> QED BY <2>1, <2>2 DEF NetInv, Named
<1> QED BY <1>4, <1>5 DEF NetInv

\* A step of the server keeps its handlers and its identifiers in order.
LEMMA ServerStep ==
  ASSUME HandlersInv, NetInv, BucketInv, ServerNext
  PROVE  HandlersInv' /\ NetInv'
<1>1. ASSUME NEW p \in net, OnRead(p) PROVE HandlersInv' /\ NetInv'
  <2>1. CASE send_version_negotiation(p)
    BY <2>1, AnsweredStep DEF send_version_negotiation, server
  <2>2. CASE send_stateless_reset(p)
    BY <2>2, AnsweredStep DEF send_stateless_reset
  <2>3. CASE send_retry(p)
    <3>1. "close" \notin {"initial", "retry"} /\ UNCHANGED <<hd, handlers>>
      BY <2>3 DEF send_retry, server
    <3>2. net' = net \cup {ToClient("retry", <<"retry", 0>>)}
      BY <2>3 DEF send_retry
    <3> QED BY <3>1, <3>2, AnsweredStep
  <2>4. CASE send_stateless_connection_close(p)
    BY <2>4, AnsweredStep DEF send_stateless_connection_close, server
  <2>5. CASE \E h \in Ids : Accept(p, h) \/ ReadPkt(p, h) \/ ReadClosing(p, h)
    BY <2>5, AcceptStep, ReadStep, ClosingReadStep
  <2> QED BY <1>1, <2>1, <2>2, <2>3, <2>4, <2>5 DEF OnRead
<1>2. ASSUME on_stateless_reset_regen \/ Terminate \/ \E h \in Ids : FindHandler(h)
      PROVE  HandlersInv' /\ NetInv'
  <2>1. hd' = hd /\ handlers' = handlers /\ net' = net
    BY <1>2 DEF on_stateless_reset_regen, Terminate, FindHandler
  <2> QED BY <2>1 DEF HandlersInv, NetInv, Live, NamesOf
<1>3. ASSUME NEW h \in Ids, close_waitcb(h) PROVE HandlersInv' /\ NetInv'
  <2>1. Live(h) /\ remove(h) /\ net' = net
    BY <1>3 DEF close_waitcb
  <2> QED BY <2>1, RemoveStep DEF NetInv
<1>4. ASSUME NEW h \in Ids, writecb(h) PROVE HandlersInv' /\ NetInv'
  <2>1. PICK e \in HandlerWrite(hd[h], h) : Settle(h, e)
    BY <1>4 DEF writecb
  <2>2. Live(h) /\ HandlerOK(hd[h])
    BY <1>4, LiveFacts DEF writecb
  <2> QED BY <2>1, <2>2, HandlerWriteKept, SettleStep
<1>5. ASSUME NEW h \in Ids, remove_connection_id(h) PROVE HandlersInv' /\ NetInv'
  BY <1>5, RetireStep DEF remove_connection_id, NetInv
<1> QED BY <1>1, <1>2, <1>3, <1>4, <1>5, TimeoutStep, DisconnectStep, WakeStep
        DEF ServerNext, ServerIO, Timers

\* The bucket of stateless resets is refilled exactly while something is missing.
LEMMA BucketStep ==
  ASSUME BucketInv, HandlersInv, ServerNext
  PROVE  BucketInv'
<1>1. Burst \in Nat \ {0} /\ MaxHandlers \in Nat \ {0}
  BY QuicAssumption
<1>2. CASE UNCHANGED Others
  BY <1>2 DEF Others, BucketInv, ResetBucketRefilled
<1>3. ASSUME NEW p, OnRead(p), sthread = "run" PROVE BucketInv'
  <2>1. CASE send_stateless_reset(p)
    BY <1>1, <1>3, <2>1 DEF send_stateless_reset, BucketInv, ResetBucketRefilled
  <2>2. CASE UNCHANGED server
    BY <1>2, <2>2 DEF server, Others
  <2> QED BY <1>2, <1>3, <2>1, <2>2 DEF OnRead, Accept, ReadPkt, ReadClosing,
             send_version_negotiation, send_retry, send_stateless_connection_close
<1>4. CASE sthread = "run" /\ on_stateless_reset_regen
  <2>1. /\ bucket' = bucket + 1 /\ regen' = (bucket + 1 # Burst) /\ bucket < Burst
        /\ sthread' = sthread /\ worker' = worker
    BY <1>4 DEF on_stateless_reset_regen, BucketInv, ResetBucketRefilled
  <2>2. bucket' \in 0 .. Burst /\ (bucket + 1 # Burst <=> bucket' < Burst)
    BY <1>1, <2>1 DEF BucketInv
  <2> QED BY <2>1, <2>2 DEF BucketInv, ResetBucketRefilled
<1>5. CASE disconnect
  BY <1>5 DEF disconnect, BucketInv, ResetBucketRefilled
<1>6. CASE Terminate \/ writecb_start
  BY <1>1, <1>6 DEF Terminate, writecb_start, BucketInv, ResetBucketRefilled
<1>7. ASSUME NEW h \in Ids, FindHandler(h) PROVE BucketInv'
  BY <1>7 DEF FindHandler, BucketInv, ResetBucketRefilled, Ids
<1> QED BY <1>2, <1>3, <1>4, <1>5, <1>6, <1>7
        DEF ServerNext, ServerIO, Timers, timeoutcb, close_waitcb, writecb, remove_connection_id

-------------------------------------------------------------------------------
(* The invariant *)

LEMMA InvInit == Init => Inv
<1> SUFFICES ASSUME Init PROVE Inv
  OBVIOUS
<1>1. config \in Configs /\ NetInv
  BY DEF Init, NetInv
<1>2. ClientInv
  BY NoClientOK DEF Init, ClientInit, ClientInv
<1>3. HandlersInv
  BY NewHandlerType, QuicAssumption DEF Init, ServerInit, HandlersInv, Live
<1>4. BucketInv
  <2>1. bucket \in 0 .. Burst /\ worker \in 0 .. MaxHandlers /\ ~(bucket < Burst)
    BY QuicAssumption DEF Init, ServerInit
  <2>2. regen = FALSE
    BY DEF Init, ServerInit
  <2> QED BY <2>1, <2>2, Zenon DEF BucketInv, ResetBucketRefilled
<1> QED BY <1>1, <1>2, <1>3, <1>4 DEF Inv

LEMMA InvStep == Inv /\ [Next]_vars => Inv'
<1> SUFFICES ASSUME Inv, [Next]_vars PROVE Inv'
  OBVIOUS
<1>1. config' \in Configs
  BY DEF Inv, Next, vars
<1>2. CASE ClientNext /\ UNCHANGED server
  <2>1. ClientInv' /\ NetInv'
    BY <1>2, ClientStep DEF Inv
  <2>2. HandlersInv' /\ BucketInv'
    BY <1>2 DEF Inv, server, HandlersInv, BucketInv, ResetBucketRefilled, Live, NamesOf
  <2> QED BY <1>1, <2>1, <2>2 DEF Inv
<1>3. CASE ServerNext /\ UNCHANGED client
  <2>1. HandlersInv' /\ NetInv' /\ BucketInv'
    BY <1>3, ServerStep, BucketStep DEF Inv
  <2>2. ClientInv'
    BY <1>3 DEF Inv, client, ClientInv
  <2> QED BY <1>1, <2>1, <2>2 DEF Inv
<1>4. CASE UNCHANGED vars
  BY <1>4 DEF vars, client, server, Inv, NetInv, ClientInv, HandlersInv, BucketInv,
              ResetBucketRefilled, Live, NamesOf
<1> QED BY <1>2, <1>3, <1>4 DEF Next

LEMMA InvHolds == Spec => []Inv
BY InvInit, InvStep, PTL DEF Spec

-------------------------------------------------------------------------------

(* The state of client and server stays in its types: in particular no counter of
   refused packets, no timeout counter and no bucket leaves its range. *)
THEOREM QuicTypeCorrect == Spec => []TypeOK
<1>1. Inv => TypeOK
  <2> SUFFICES ASSUME Inv PROVE TypeOK
    OBVIOUS
  <2>1. /\ cl.st \in {"none", "handshake", "up", "confirmed", "closed"}
        /\ cl.timers \subseteq {"expiry", "check", "delay", "key", "addr"}
        /\ cl.tx \in Txs /\ cl.n \in 0 .. MaxData
    BY ClientFacts DEF Inv, ClientInv
  <2>2. \A h \in Ids : hd[h].tx \in Txs /\ hd[h].pto \in 0 .. MaxPto
    BY DEF Inv, HandlersInv, Handler
  <2> QED BY <2>1, <2>2 DEF Inv, ClientInv, HandlersInv, BucketInv, TypeOK
<1> QED BY <1>1, InvHolds, PTL

(* Server::handlers_ never holds a pointer to a handler that was deleted, and a
   handler that is kept can be found under the identifier of its first packet:
   read_pkt, remove, on_read and the callbacks of ngtcp2 that add and retire
   identifiers agree on the names of a connection. *)
THEOREM HandlersStayLive == Spec => []HandlersAreLive
<1>1. Inv => HandlersAreLive
  BY DEF Inv, HandlersInv, HandlersAreLive
<1> QED BY <1>1, InvHolds, PTL

(* close_waitcb never runs for a connection that is neither closing nor draining,
   where it would end in assert(0). *)
THEOREM CloseTimerSound == Spec => []CloseTimerMeansClosing
<1>1. Inv => CloseTimerMeansClosing
  BY DEF Inv, HandlersInv, HandlerOK, CloseTimerMeansClosing
<1> QED BY <1>1, InvHolds, PTL

(* The asserts of on_send_blocked hold on both sides, and packets that a full
   socket refused are never left without a write watcher. *)
THEOREM RefusedAreWatched == Spec => []RefusedPacketsWatched
<1>1. Inv => RefusedPacketsWatched
  <2> SUFFICES ASSUME Inv PROVE RefusedPacketsWatched
    OBVIOUS
  <2>1. cl.tx.ok /\ (cl.tx.blocked => cl.wev /\ cl.tx.sent < cl.tx.num)
    BY DEF Inv, ClientInv, ClientOK, Bookkept
  <2>2. ASSUME NEW h \in Ids, Live(h)
        PROVE  /\ hd[h].tx.ok
               /\ hd[h].tx.blocked /\ Open(hd[h]) => hd[h].wev /\ hd[h].tx.sent < hd[h].tx.num
    BY <2>2 DEF Inv, HandlersInv, HandlerOK, Bookkept
  <2> QED BY <2>1, <2>2 DEF RefusedPacketsWatched
<1> QED BY <1>1, InvHolds, PTL

(* The timer that refills the bucket of stateless resets runs exactly while the
   bucket is not full, and the assert of on_stateless_reset_regen holds. *)
THEOREM BucketIsRefilled == Spec => []ResetBucketRefilled
<1>1. Inv => ResetBucketRefilled
  BY DEF Inv, BucketInv
<1> QED BY <1>1, InvHolds, PTL

(* The client submits a request to nghttp3 only while there is an nghttp3
   connection, also after the server rejected early data. *)
THEOREM StreamsOnHttp == Spec => []StreamsHaveHttp
<1>1. Inv => StreamsHaveHttp
  BY DEF Inv, ClientInv, ClientOK, StreamsHaveHttp
<1> QED BY <1>1, InvHolds, PTL
===============================================================================
