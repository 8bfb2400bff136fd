------------------------------- MODULE QuicNet -------------------------------
(***************************************************************************)
(* What the QUIC client and the QUIC server share: the datagrams between    *)
(* them and the bookkeeping of packets a full socket did not take.          *)
(*                                                                          *)
(* A datagram stays in net once it was sent and may be read any number of   *)
(* times or never: the network loses, doubles and reorders.  ngtcp2 and     *)
(* nghttp3 are external; each call of theirs that the code checks is a      *)
(* choice between the results the code tells apart.                         *)
(***************************************************************************)
EXTENDS Integers, FiniteSets

CONSTANTS MaxHandlers,  \* bound: connections the server ever accepts
          MaxData,      \* bound: 1-RTT packets the client ever sends
          MaxPto,       \* bound: timeouts before ngtcp2 reports an idle connection
          Burst,        \* NGTCP2_STATELESS_RESET_BURST
          Configs       \* configurations of the two programs; accepts is the bound on
                        \* the connections of one of them

ASSUME QuicAssumption ==
    /\ {MaxHandlers, MaxData, MaxPto, Burst} \subseteq Nat \ {0}
    /\ \A g \in Configs : /\ {g.known, g.preferred, g.validate, g.resume} \subseteq BOOLEAN
                           /\ g.options \subseteq {"delay", "key", "addr"}
                           /\ g.accepts \in 1 .. MaxHandlers
                           /\ g.full \subseteq {"client", "server"}

VARIABLES net,     \* datagrams sent
          config   \* the configuration in use; it never changes

Ids == 1 .. MaxHandlers

(* Connection identifiers: the one a client makes up, the one of a Retry packet
   and the two that the server gives out for a connection. *)
Cids == {<<"client", 0>>, <<"retry", 0>>} \cup ({"first", "second"} \X Ids)
NoCid == <<"none", 0>>

ToServer(k, c, t, n) == [to |-> "server", kind |-> k, cid |-> c, token |-> t, n |-> n]
ToClient(k, c) == [to |-> "client", kind |-> k, cid |-> c, token |-> "none", n |-> 0]

-------------------------------------------------------------------------------
(* Packets that sendmsg refused; ok turns false where an assert would fail. *)

NoneBlocked == [blocked |-> FALSE, num |-> 0, sent |-> 0, ok |-> TRUE]
Txs == [blocked : BOOLEAN, num : 0 .. 2, sent : 0 .. 2, ok : BOOLEAN]

on_send_blocked(t) ==
    [t EXCEPT !.ok = @ /\ (t.num > 0 \/ ~t.blocked) /\ t.num < 2,
              !.blocked = TRUE, !.num = IF @ < 2 THEN @ + 1 ELSE @]

(* The socket takes k more of the packets that wait. *)
send_blocked_packet(t, k) ==
    IF t.sent + k < t.num THEN [t EXCEPT !.sent = @ + k]
    ELSE [NoneBlocked EXCEPT !.ok = t.ok]

Result(t, w, rv) == [tx |-> t, wev |-> w, rv |-> rv]

(* write_streams fills a buffer until the window or the buffer is full; a change
   of path leaves two packets to send, of which both may be refused, if the
   socket of this side gets full. *)
write_streams(t, side) ==
    { Result(t, FALSE, "sent"), Result(t, FALSE, "error") }
    \cup { Result(u, TRUE, "sent") :
           u \in {v \in {on_send_blocked(t), on_send_blocked(on_send_blocked(t))} : side \in config.full} }

(* Mutant: writes on although refused packets wait. *)
WriteAnyway(t, side) == write_streams(t, side)

(* on_write: first what waits; more only when nothing waits any longer. *)
on_write(t, side) ==
    LET waiting == IF t.blocked THEN {send_blocked_packet(t, k) : k \in 0 .. t.num - t.sent} ELSE {t}
    IN  {Result(u, TRUE, "waiting") : u \in {u \in waiting : u.blocked}}
        \cup UNION {write_streams(u, side) : u \in {u \in waiting : ~u.blocked}}
===============================================================================
