------------------------------ MODULE QuicClient ------------------------------
(***************************************************************************)
(* Client of the QUIC connector: the thread of connect(), which builds a    *)
(* connection and runs the event loop, its callbacks, the updater thread    *)
(* that wakes the loop's write watcher, and the user who closes or destroys *)
(* the connector.                                                           *)
(***************************************************************************)
EXTENDS QuicNet

VARIABLES
    cl,        \* the Client object
    cthread,   \* reqrep_thread_: off, run, exited (the process ends), ended
    woken,     \* ev_run has returned and run() will find terminate_ set
    cstop,     \* terminate_
    user,      \* the user's call: none, close, terminate, returned
    want       \* hasOutstandingRequest

client == <<cl, cthread, woken, cstop, user, want>>

(* st: ngtcp2's view of the connection; early: 0-RTT was attempted; timers: the
   active ones; sock: endpoints_ is not empty; n: 1-RTT packets sent. *)
NoClient == [st |-> "none", http |-> FALSE, early |-> FALSE, timers |-> {}, wev |-> FALSE,
             tx |-> NoneBlocked, offered |-> FALSE, stream |-> "none", sock |-> FALSE,
             dcid |-> NoCid, token |-> "none", n |-> 0]

Running == cthread = "run" /\ ~woken
Connected == cl.st \in {"handshake", "up", "confirmed"}

-------------------------------------------------------------------------------
(* disconnect: the close packet, then every watcher is stopped.  Only the flag
   of the refused packets is reset, not their number. *)
disconnected(c) ==
    [c EXCEPT !.st = "closed", !.tx.blocked = FALSE, !.timers = {}, !.wev = FALSE, !.sock = FALSE]

Farewell(c) ==
    IF c.st \in {"handshake", "up", "confirmed"} THEN {ToServer("close", c.dcid, "none", 0)} ELSE {}

(* setup_httpconn *)
WithHttp(c) == [c EXCEPT !.http = TRUE]

(* on_extend_max_streams: a stream for the outstanding request, unless streams
   are to be delayed; ngtcp2 may refuse one. *)
MayOpen(c) ==
    ~("delay" \in config.options /\ c.st # "confirmed") /\ "delay" \notin c.timers

Extended(c) ==
    IF MayOpen(c) /\ want /\ c.stream = "none"
    THEN {c, [c EXCEPT !.stream = IF c.http THEN "open" ELSE "broken", !.wev = TRUE]}
    ELSE {c}

(* What the client has to say when it may write. *)
Sent(c) ==
    CASE c.st = "handshake" -> [c |-> c, out |-> {ToServer("initial", c.dcid, c.token, 0)}]
      [] c.st # "handshake" /\ c.n < MaxData ->
            [c |-> [c EXCEPT !.n = @ + 1], out |-> {ToServer("data", c.dcid, "none", c.n + 1)}]
      [] OTHER -> [c |-> c, out |-> {}]

(* Mutant: the timer is not set again after a write. *)
WriteWithoutTimer(c) ==
    { CASE w.rv = "error" -> [c |-> disconnected(c), out |-> Farewell(c)]
        [] w.rv = "waiting" -> [c |-> [c EXCEPT !.tx = w.tx, !.wev = TRUE], out |-> {}]
        [] OTHER -> [Sent(c) EXCEPT !.c = [@ EXCEPT !.tx = w.tx, !.wev = w.wev]]
      : w \in on_write(c.tx, "client") }

(* Client::on_write.  ngtcp2 refuses to write on a closed connection; every
   failure ends in disconnect. *)
ClientWrite(c) ==
    IF c.st = "closed" THEN {[c |-> disconnected(c), out |-> {}]}
    ELSE { CASE w.rv = "error" -> [c |-> disconnected(c), out |-> Farewell(c)]
             [] w.rv = "waiting" -> [c |-> [c EXCEPT !.tx = w.tx, !.wev = TRUE], out |-> {}]
             [] OTHER -> LET s == Sent(c)
                         IN  [c |-> [s.c EXCEPT !.tx = w.tx, !.wev = w.wev,
                                                !.timers = @ \cup {"expiry"}],
                              out |-> s.out]
           : w \in on_write(c.tx, "client") }

(* One callback: the client afterwards, what it sends; then run() looks at
   terminate_ and waits again unless it is set. *)
Callback(cs) ==
    /\ \E e \in cs : cl' = e.c /\ net' = net \cup e.out
    /\ woken' = cstop
    /\ UNCHANGED <<cthread, cstop, user, want>>

Failed(c) == {[c |-> disconnected(c), out |-> Farewell(c)]}

-------------------------------------------------------------------------------
(* The thread of connect(): run() makes a socket, Client::init the connection,
   with a token and 0-RTT data if an earlier session left them in its files; a
   failure ends the process. *)
Connect ==
    /\ cthread = "off" /\ ~cstop
    /\ LET c == [NoClient EXCEPT !.st = "handshake", !.sock = TRUE, !.early = config.resume,
                                 !.http = config.resume, !.dcid = <<"client", 0>>,
                                 !.token = IF config.resume THEN "regular" ELSE "none"]
       IN  \E x \in (IF config.resume THEN Extended(c) ELSE {c}) : \E e \in ClientWrite(x) :
              /\ cl' = e.c /\ net' = net \cup e.out
              /\ cthread' = IF e.c.st = "closed" THEN "exited" ELSE "run"
    /\ UNCHANGED <<woken, cstop, user, want>>

RunFails ==
    /\ cthread = "off" /\ ~cstop
    /\ cthread' = "exited"
    /\ UNCHANGED <<cl, woken, cstop, user, want, net>>

-------------------------------------------------------------------------------
(* readcb: Client::on_read feeds the packet to ngtcp2, whose callbacks run, and
   then Client::on_write. *)

(* The server's handshake: recv_rx_key and handshake_completed set HTTP up, early
   data that was rejected is dropped with its streams. *)
early_data_rejected(c) == [c EXCEPT !.http = FALSE, !.stream = "none"]

(* Mutant: HTTP is not set up again after early data was rejected. *)
HandshakeForgetsHttp(c, rejected) ==
    LET d == IF c.early /\ rejected THEN early_data_rejected(WithHttp(c)) ELSE WithHttp(c)
    IN  [d EXCEPT !.st = "up"]

handshake_completed(c, rejected) ==
    LET d == IF c.early /\ rejected THEN early_data_rejected(c) ELSE c
    IN  [WithHttp(d) EXCEPT !.st = "up"]

handshake_confirmed(c) ==
    [c EXCEPT !.st = "confirmed",
              !.timers = @ \cup {"check"} \cup config.options]

Fed(c, p) ==
    CASE p.kind = "retry" /\ c.st = "handshake" /\ c.token # "retry" ->
            {[c EXCEPT !.dcid = p.cid, !.token = "retry"]}
      [] p.kind = "hello" /\ c.st = "handshake" ->
            UNION {Extended([handshake_completed(c, r) EXCEPT !.dcid = p.cid]) : r \in BOOLEAN}
      [] p.kind = "confirm" /\ c.st = "up" -> {handshake_confirmed(c)}
      [] OTHER -> {c}

(* What ends the connection: a close or a reset, a refusal of the version before
   the handshake, any error of a callback. *)
Ends(c, p) ==
    \/ p.kind \in {"close", "reset"}
    \/ p.kind = "versions" /\ c.st = "handshake"

Noted(c, p) == [c EXCEPT !.offered = @ \/ p.kind = "versions"]

readcb(p) ==
    /\ Running /\ cl.sock
    /\ Callback(Failed(Noted(cl, p))
                \cup (IF Ends(cl, p) THEN {}
                      ELSE UNION {ClientWrite([d EXCEPT !.timers = @ \cup {"expiry"}]) : d \in Fed(cl, p)}))

ClientWritecb ==
    /\ Running /\ cl.wev
    /\ Callback(ClientWrite(cl))

ClientTimeoutcb ==
    /\ Running /\ "expiry" \in cl.timers
    /\ Callback(Failed(cl) \cup ClientWrite([cl EXCEPT !.timers = @ \ {"expiry"}]))

delay_streamcb ==
    /\ Running /\ "delay" \in cl.timers
    /\ Callback(UNION {ClientWrite(c) : c \in Extended([cl EXCEPT !.timers = @ \ {"delay"}])})

check_streamcb ==
    /\ Running /\ "check" \in cl.timers
    /\ Callback({[c |-> c, out |-> {}] : c \in Extended(cl)})

key_updatecb ==
    /\ Running /\ "key" \in cl.timers
    /\ LET c == [cl EXCEPT !.timers = @ \ {"key"}]
       IN  Callback({[c |-> c, out |-> {}]} \cup Failed(c))

change_local_addrcb ==
    /\ Running /\ "addr" \in cl.timers
    /\ Callback({[c |-> [cl EXCEPT !.timers = @ \ {"addr"}], out |-> {}]})

-------------------------------------------------------------------------------
(* run() returns when terminate_ was set or ev_run has no watcher left, though
   the one of async_terminate always is; then the Client is destroyed.  A new one
   would be made for a version the server has offered. *)
Watchers == cl.timers \cup {"async"} \cup (IF cl.wev THEN {"wev"} ELSE {}) \cup (IF cl.sock THEN {"rev"} ELSE {})

Loop ==
    /\ cthread = "run" /\ (woken \/ Watchers = {})
    /\ net' = net \cup Farewell(cl)
    /\ cl' = disconnected(cl)
    /\ cthread' = IF ~cstop /\ config.preferred /\ cl.offered THEN "off" ELSE "ended"
    /\ woken' = FALSE
    /\ UNCHANGED <<cstop, user, want>>

(* The user: close() only sets the flag and joins, the destructor also wakes the
   loop. *)
Close ==
    /\ user = "none" /\ cthread # "off"
    /\ user' = "close" /\ cstop' = TRUE
    /\ UNCHANGED <<net, cl, cthread, woken, want>>

(* Mutant: the loop is not woken. *)
NoAsyncSend == woken

AsyncSend == TRUE

ClientTerminate ==
    /\ user = "none" /\ cthread # "off"
    /\ user' = "terminate" /\ cstop' = TRUE /\ woken' = AsyncSend
    /\ UNCHANGED <<net, cl, cthread, want>>

Join ==
    /\ user \in {"close", "terminate"} /\ cthread = "ended"
    /\ user' = "returned"
    /\ UNCHANGED <<net, cl, cthread, woken, cstop, want>>

(* The updater has chunks to send and starts the write watcher, from its own
   thread and also after the connection was lost. *)
WakeClient ==
    /\ cthread = "run" /\ ~(want /\ cl.wev)
    /\ want' = TRUE
    /\ cl' = [cl EXCEPT !.wev = TRUE]
    /\ UNCHANGED <<net, cthread, woken, cstop, user>>

-------------------------------------------------------------------------------
ClientInit ==
    /\ cl = NoClient /\ cthread = "off" /\ woken = FALSE
    /\ cstop = FALSE /\ user = "none" /\ want = FALSE

ClientIO ==
    \/ Connect \/ RunFails \/ Loop
    \/ \E p \in {q \in net : q.to = "client"} : readcb(p)
    \/ ClientWritecb \/ ClientTimeoutcb \/ delay_streamcb \/ check_streamcb
    \/ key_updatecb \/ change_local_addrcb

ClientNext == ClientIO \/ Close \/ ClientTerminate \/ Join \/ WakeClient
===============================================================================
