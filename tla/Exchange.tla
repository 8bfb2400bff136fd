------------------------------- MODULE Exchange -------------------------------
(***************************************************************************)
(* What the transport promises to its users: a request that a client puts   *)
(* on a logical stream is executed by the server once, and only then does   *)
(* the client see an answer on that stream.                                 *)
(***************************************************************************)
CONSTANT Ids      \* logical stream identifiers of one connection

VARIABLE status   \* how far the request of each stream has come

Init == status = [i \in Ids |-> "unused"]

(* The client takes an unused identifier for a new request. *)
Ask(i) == /\ status[i] = "unused"
          /\ status' = [status EXCEPT ![i] = "asked"]

(* The server executes the request. *)
Execute(i) == /\ status[i] = "asked"
              /\ status' = [status EXCEPT ![i] = "done"]

(* The whole answer has reached the client. *)
Answer(i) == /\ status[i] = "done"
             /\ status' = [status EXCEPT ![i] = "answered"]

Next == \E i \in Ids : Ask(i) \/ Execute(i) \/ Answer(i)

Spec == Init /\ [][Next]_status
===============================================================================
