------------------------------ MODULE QuicServer ------------------------------
(***************************************************************************)
(* Server and Handler of the QUIC listener: one I/O thread that accepts     *)
(* connections, keeps them in handlers_ under each of their identifiers,    *)
(* closes and removes them, and a worker thread that wakes a connection     *)
(* when an answer is ready.  Every callback of the event loop is one step.  *)
(***************************************************************************)
EXTENDS QuicNet

VARIABLES
    hd,        \* the handlers: [life, conn, done, timer, wev, tx, pto, seen, dcid, late]
    handlers,  \* handlers_: connection identifier -> handler, 0 for none
    bucket,    \* stateless_reset_bucket_
    regen,     \* stateless_reset_regen_timer_ is active
    sthread,   \* the I/O thread of listen
    sstop,     \* terminate() was called
    worker     \* the handler that the worker found in writecb_start, 0 for none

server == <<hd, handlers, bucket, regen, sthread, sstop, worker>>

(* conn: ngtcp2's view of the connection; done: the handshake is complete;
   timer: which callback timer_ has; late: closing began in timeoutcb. *)
NewHandler == [life |-> "new", conn |-> "open", done |-> FALSE, timer |-> "off", wev |-> FALSE,
               tx |-> NoneBlocked, pto |-> 0, seen |-> {}, dcid |-> NoCid, late |-> FALSE]

Live(h) == hd[h].life = "live"
Open(r) == r.conn = "open"

-------------------------------------------------------------------------------
(* Handler *)

update_timer(r) == [r EXCEPT !.timer = "expiry"]
signal_write(r) == [r EXCEPT !.wev = TRUE]

start_draining_period(r) ==
    [r EXCEPT !.conn = "draining", !.wev = FALSE, !.timer = "closewait"]

Replied(h, k) == {ToClient(k, <<"first", h>>)}

(* handle_error: the set of its results.  wait: the connection stays for the
   closing period; gone: the caller removes it.  A close packet that cannot be
   written or sent leaves no closing period to wait for.  (That ngtcp2 writes
   an empty one, which send_conn_close asserts away, is left out.) *)
CloseWritten(r) == [r EXCEPT !.conn = "closing", !.wev = FALSE, !.timer = "closewait"]

handle_error(r, h) ==
    { [r |-> CloseWritten(r), rv |-> "wait", out |-> Replied(h, "close")],
      [r |-> CloseWritten(r), rv |-> "gone", out |-> {}],
      [r |-> [r EXCEPT !.wev = FALSE, !.timer = "closewait"], rv |-> "gone", out |-> {}] }

(* What a handler has to say when it may write. *)
Speech(r, h) == Replied(h, IF r.done THEN "confirm" ELSE "hello")

(* Handler::on_write, with the new identifiers that ngtcp2 hands out once the
   handshake is complete. *)
HandlerWrite(r, h) ==
    IF ~Open(r) THEN {[r |-> r, rv |-> "ok", out |-> {}]}
    ELSE UNION { LET s == [r EXCEPT !.tx = w.tx, !.wev = w.wev]
                 IN  CASE w.rv = "error" -> handle_error(s, h)
                       [] w.rv = "waiting" -> {[r |-> s, rv |-> "ok", out |-> {}]}
                       [] OTHER -> {[r |-> update_timer(s), rv |-> "ok", out |-> Speech(s, h)]}
               : w \in on_write(r.tx, "server") }

-------------------------------------------------------------------------------
(* Server *)

associate_cid(c, h) == [handlers EXCEPT ![c] = IF @ = 0 THEN h ELSE @]

(* Mutant: only the identifier of the first packet is taken out. *)
DissociatedFirst(h) == [c \in Cids |-> IF c = hd[h].dcid THEN 0 ELSE handlers[c]]

(* Every identifier that ngtcp2 knows for the connection is taken out. *)
Dissociated(h) ==
    [c \in Cids |-> IF handlers[c] = h /\ c \in {hd[h].dcid, <<"first", h>>, <<"second", h>>}
                    THEN 0 ELSE handlers[c]]

remove(h) ==
    /\ hd' = [hd EXCEPT ![h] = [NewHandler EXCEPT !.life = "freed"]]
    /\ handlers' = Dissociated(h)

(* Mutant: a close packet that could not be written is taken for one that was. *)
KeepsFailed(h, e) ==
    /\ hd' = [hd EXCEPT ![h] = e.r]
    /\ handlers' = IF e.r.done /\ ~hd[h].done THEN associate_cid(<<"second", h>>, h) ELSE handlers
    /\ net' = net \cup e.out

(* The result of a callback: the handler stays or the caller removes it. *)
Settle(h, e) ==
    /\ IF e.rv = "gone" THEN remove(h)
       ELSE /\ hd' = [hd EXCEPT ![h] = e.r]
            /\ handlers' = IF e.r.done /\ ~hd[h].done THEN associate_cid(<<"second", h>>, h) ELSE handlers
    /\ net' = net \cup e.out

Others == <<bucket, regen, sthread, sstop, worker>>

(* A packet for a connection the server does not know. *)
send_version_negotiation(p) ==
    /\ p.kind = "initial" /\ ~config.known
    /\ net' = net \cup {ToClient("versions", p.cid)}
    /\ UNCHANGED server

(* Mutant: the timer that refills the bucket is not started. *)
ResetWithoutTimer(p) ==
    /\ p.kind # "initial" /\ handlers[p.cid] = 0 /\ bucket > 0
    /\ bucket' = bucket - 1
    /\ net' = net \cup {ToClient("reset", p.cid)}
    /\ UNCHANGED <<regen, hd, handlers, sthread, sstop, worker>>

send_stateless_reset(p) ==
    /\ p.kind # "initial" /\ handlers[p.cid] = 0 /\ bucket > 0
    /\ bucket' = bucket - 1 /\ regen' = TRUE
    /\ net' = net \cup {ToClient("reset", p.cid)}
    /\ UNCHANGED <<hd, handlers, sthread, sstop, worker>>

Unknown(p) == p.kind = "initial" /\ config.known /\ handlers[p.cid] = 0

(* An Initial packet without a valid token, where the address must be validated. *)
NeedsRetry(p, verified) ==
    config.validate /\ (p.token = "none" \/ (p.token = "regular" /\ ~verified))

send_retry(p) ==
    /\ Unknown(p) /\ NeedsRetry(p, FALSE)
    /\ net' = net \cup {ToClient("retry", <<"retry", 0>>)}
    /\ UNCHANGED server

send_stateless_connection_close(p) ==
    /\ Unknown(p) /\ p.token = "retry"
    /\ net' = net \cup {ToClient("close", p.cid)}
    /\ UNCHANGED server

(* The rest of read_pkt for an unknown connection: a handler reads and answers
   the packet; it is kept only if both went well. *)
Accept(p, h) ==
    /\ Unknown(p) /\ ~NeedsRetry(p, TRUE)
    /\ h <= config.accepts /\ hd[h].life = "new" /\ \A g \in Ids : hd[g].life = "new" => h <= g
    /\ LET r == update_timer([NewHandler EXCEPT !.life = "live", !.dcid = p.cid])
           dropped == {[r |-> r, rv |-> "gone", out |-> out] : out \in {{}, {ToClient("retry", <<"retry", 0>>)}}}
       IN  \E e \in HandlerWrite(r, h) \cup handle_error(r, h) \cup dropped :
              /\ net' = net \cup e.out
              /\ IF e.rv = "ok"
                 THEN /\ hd' = [hd EXCEPT ![h] = e.r]
                      /\ handlers' = [c \in Cids |->
                             IF c \in {p.cid, <<"first", h>>} /\ handlers[c] = 0 THEN h ELSE handlers[c]]
                 ELSE hd' = [hd EXCEPT ![h].life = "freed"] /\ UNCHANGED handlers
    /\ UNCHANGED Others

(* on_read of a known, open connection.  The first 1-RTT packet completes the
   handshake; a packet that was read before changes nothing in ngtcp2. *)
Understood(r, p) ==
    IF p.kind = "data" /\ p.n \notin r.seen
    THEN [r EXCEPT !.done = TRUE, !.pto = 0, !.seen = @ \cup {p.n}] ELSE r

ReadPkt(p, h) ==
    /\ handlers[p.cid] = h /\ Live(h) /\ Open(hd[h])
    /\ IF p.kind = "close"
       THEN Settle(h, [r |-> start_draining_period(hd[h]), rv |-> "wait", out |-> {}])
       ELSE \E e \in {[r |-> signal_write(update_timer(Understood(hd[h], p))), rv |-> "ok", out |-> {}]}
                     \cup handle_error(hd[h], h) \cup {[r |-> hd[h], rv |-> "gone", out |-> {}]} :
               Settle(h, e)
    /\ UNCHANGED Others

(* A packet that comes in the closing period is answered with the close packet
   again; if it cannot be sent the period is over. *)
ReadClosing(p, h) ==
    /\ handlers[p.cid] = h /\ Live(h) /\ hd[h].conn = "closing"
    /\ \E rv \in {"wait", "gone"} :
          Settle(h, [r |-> hd[h], rv |-> rv, out |-> IF rv = "wait" THEN Replied(h, "close") ELSE {}])
    /\ UNCHANGED Others

writecb(h) ==
    /\ Live(h) /\ hd[h].wev
    /\ \E e \in HandlerWrite(hd[h], h) : Settle(h, e)
    /\ UNCHANGED Others

(* timeoutcb: when the connection begins to close here, the timer that ends the
   closing period is stopped again. *)
Stopped(e) ==
    IF e.rv = "wait"
    THEN [r |-> [e.r EXCEPT !.timer = "off", !.late = TRUE], rv |-> "wait", out |-> e.out] ELSE e

timeoutcb(h) ==
    /\ Live(h) /\ hd[h].timer = "expiry"
    /\ LET idle == [r |-> hd[h], rv |-> "gone", out |-> {}]
           again == [hd[h] EXCEPT !.pto = @ + 1, !.timer = "off"]
       IN  \E e \in {idle} \cup (IF hd[h].pto < MaxPto
                                 THEN HandlerWrite(again, h) \cup handle_error(again, h) ELSE {}) :
              Settle(h, Stopped(e))
    /\ UNCHANGED Others

(* Mutant: the callback forgets the handler. *)
CloseWaitForgets(h) ==
    /\ Live(h) /\ hd[h].timer = "closewait"
    /\ hd' = [hd EXCEPT ![h].timer = "off"]
    /\ UNCHANGED <<handlers, net, Others>>

close_waitcb(h) ==
    /\ Live(h) /\ hd[h].timer = "closewait"
    /\ remove(h)
    /\ UNCHANGED <<net, Others>>

remove_connection_id(h) ==
    /\ Live(h) /\ Open(hd[h]) /\ hd[h].done /\ handlers[<<"first", h>>] = h
    /\ handlers' = [handlers EXCEPT ![<<"first", h>>] = 0]
    /\ UNCHANGED <<net, hd, Others>>

(* Mutant: the timer is not stopped when the bucket is full. *)
RegenForever ==
    /\ regen /\ bucket' = bucket + 1
    /\ UNCHANGED <<regen, net, hd, handlers, sthread, sstop, worker>>

on_stateless_reset_regen ==
    /\ regen
    /\ bucket' = bucket + 1
    /\ regen' = (bucket + 1 # Burst)
    /\ UNCHANGED <<net, hd, handlers, sthread, sstop, worker>>

-------------------------------------------------------------------------------
(* Server::writecb_start in the worker thread: it looks the handler up and wakes
   it, without a mutex against the I/O thread that may delete it in between. *)
FindHandler(h) ==
    /\ worker = 0 /\ \E c \in Cids : handlers[c] = h
    /\ worker' = h
    /\ UNCHANGED <<net, hd, handlers, bucket, regen, sthread, sstop>>

writecb_start ==
    /\ worker # 0
    /\ hd' = IF Live(worker) THEN [hd EXCEPT ![worker].wev = TRUE] ELSE hd
    /\ worker' = 0
    /\ UNCHANGED <<net, handlers, bucket, regen, sthread, sstop>>

(* terminate wakes the loop, which then closes every connection and ends. *)
Terminate ==
    /\ ~sstop /\ sstop' = TRUE
    /\ UNCHANGED <<net, hd, handlers, bucket, regen, sthread, worker>>

disconnect ==
    /\ sstop /\ sthread = "run"
    /\ hd' = [h \in Ids |-> IF Live(h) THEN [NewHandler EXCEPT !.life = "freed"] ELSE hd[h]]
    /\ handlers' = [c \in Cids |-> 0]
    /\ net' = net \cup UNION {Replied(h, "close") : h \in {g \in Ids : Live(g) /\ hd[g].conn # "draining"}}
    /\ regen' = FALSE /\ sthread' = "ended"
    /\ UNCHANGED <<bucket, sstop, worker>>

-------------------------------------------------------------------------------
ServerInit ==
    /\ hd = [h \in Ids |-> NewHandler]
    /\ handlers = [c \in Cids |-> 0]
    /\ bucket = Burst /\ regen = FALSE
    /\ sthread = "run" /\ sstop = FALSE /\ worker = 0

OnRead(p) ==
    \/ send_version_negotiation(p) \/ send_stateless_reset(p) \/ send_retry(p)
    \/ send_stateless_connection_close(p)
    \/ \E h \in Ids : Accept(p, h) \/ ReadPkt(p, h) \/ ReadClosing(p, h)

Timers == on_stateless_reset_regen \/ \E h \in Ids : timeoutcb(h) \/ close_waitcb(h)

ServerIO ==
    /\ sthread = "run"
    /\ \/ \E p \in {q \in net : q.to = "server"} : OnRead(p)
       \/ Timers
       \/ \E h \in Ids : writecb(h) \/ remove_connection_id(h)
       \/ disconnect

ServerNext == ServerIO \/ Terminate \/ writecb_start \/ \E h \in Ids : FindHandler(h)
===============================================================================
