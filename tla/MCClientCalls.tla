---- MODULE MCClientCalls ----
EXTENDS ClientCalls, TLC
CONSTANTS a, b
Scenario(x, y, n) == [may |-> (a :> x) @@ (b :> y), max |-> n]
(* One user making two calls, and two users making one each.              *)
Chosen == { Scenario({"listen", "upsert", "process"}, {}, 2),
            Scenario(Fetches, {}, 1),
            Scenario({"apply"}, {"upsert"}, 1) }
====
