---------------------------- MODULE QuicConnection ----------------------------
(***************************************************************************)
(* A client and a server of the QUIC transport over an unreliable network.  *)
(***************************************************************************)
EXTENDS QuicClient, QuicServer

vars == <<net, config, client, server>>

Init ==
    /\ net = {} /\ config \in Configs
    /\ ClientInit /\ ServerInit

Next ==
    /\ UNCHANGED config
    /\ \/ ClientNext /\ UNCHANGED server
       \/ ServerNext /\ UNCHANGED client

(* The event loops run and their timers fire; nothing is assumed of the network
   and of the users.  A write watcher fires because a socket gets writable. *)
Fairness ==
    /\ \A h \in Ids : WF_vars(sthread = "run" /\ (timeoutcb(h) \/ close_waitcb(h)) /\ UNCHANGED <<config, client>>)
    /\ WF_vars(sthread = "run" /\ disconnect /\ UNCHANGED <<config, client>>)
    /\ WF_vars((Loop \/ ClientTimeoutcb) /\ UNCHANGED <<config, server>>)
    /\ WF_vars(Join /\ UNCHANGED <<config, server>>)

Spec == Init /\ [][Next]_vars
FairSpec == Spec /\ Fairness

-------------------------------------------------------------------------------
(* Types of both sides. *)
TypeOK ==
    /\ config \in Configs
    /\ cl.st \in {"none", "handshake", "up", "confirmed", "closed"}
    /\ cl.timers \subseteq {"expiry", "check", "delay", "key", "addr"}
    /\ cl.tx \in Txs /\ cl.n \in 0 .. MaxData
    /\ cthread \in {"off", "run", "exited", "ended"}
    /\ \A h \in Ids : hd[h].tx \in Txs /\ hd[h].pto \in 0 .. MaxPto
    /\ bucket \in 0 .. Burst
    /\ handlers \in [Cids -> 0 .. MaxHandlers] /\ worker \in 0 .. MaxHandlers

(* handlers_ holds raw pointers under several identifiers each: none of them
   outlives its handler, and a handler that is kept can be found. *)
HandlersAreLive ==
    /\ \A c \in Cids : handlers[c] # 0 => Live(handlers[c])
    /\ \A h \in Ids : Live(h) => handlers[hd[h].dcid] = h

(* close_waitcb ends with assert(0): its timer is only set for a connection that
   is closing or draining. *)
CloseTimerMeansClosing ==
    \A h \in Ids : Live(h) => (hd[h].timer = "closewait" => ~Open(hd[h]))

(* The asserts of on_send_blocked hold, and packets that the socket refused have
   a watcher that will send them. *)
RefusedPacketsWatched ==
    /\ cl.tx.ok /\ (cl.tx.blocked => cl.wev /\ cl.tx.sent < cl.tx.num)
    /\ \A h \in Ids : Live(h) =>
          /\ hd[h].tx.ok
          /\ hd[h].tx.blocked /\ Open(hd[h]) => hd[h].wev /\ hd[h].tx.sent < hd[h].tx.num

(* The timer that refills the bucket of stateless resets runs exactly while
   something is missing: the server neither stops to answer unknown packets nor
   overflows the bucket, which on_stateless_reset_regen asserts. *)
ResetBucketRefilled == sthread = "run" => (regen <=> bucket < Burst)

(* A request is submitted to nghttp3 only while there is an nghttp3 connection,
   also after early data was rejected. *)
StreamsHaveHttp ==
    /\ cl.stream # "broken"
    /\ cl.stream = "open" => cl.http

(* Whatever the network loses, a server forgets a connection after its client is
   gone, unless the connection began to close in timeoutcb, which stops the timer
   of the closing period. *)
ServerForgetsClient ==
    \A h \in Ids :
        (Live(h) /\ cthread \in {"ended", "exited"}) ~> (~Live(h) \/ hd[h].late)

(* The destructor returns: the loop is woken and the thread can be joined. *)
TerminateReturns == (user = "terminate") ~> (user = "returned" \/ cthread = "exited")

(* close() returns while the connection is alive, whose timers wake the loop.  (It
   never returns once the connection is lost: the flag it sets is only looked at
   when a watcher of the connection fires.) *)
CloseReturnsWhileConnected ==
    (user = "close" /\ Connected) ~> (user = "returned" \/ ~Connected \/ cthread = "exited")

===============================================================================
