------------------------------- MODULE MCService -------------------------------
(* Configurations for the run of Service.                                  *)
EXTENDS Service, TLC

B(t, below) == [type |-> t, backend |-> below, mounts |-> <<>>, spec |-> "c1"]
Simple == B("simple", "")
FE(t, used) == [type |-> t, uses |-> used, spec |-> "l1"]
NoFrontend == [f \in {} |-> 0]
Cfg(bs, fs) == [backends |-> bs, frontends |-> fs, before |-> NoTree, flavor |-> "clone",
                test |-> FALSE, again |-> FALSE]

Order == <<"a", "b", "c", "d", "clone", "serve">>

(* Three backends, each of them simple, of no known type, over any other or *)
(* over one that is not configured, or a composite of two of them.         *)
Zoo == <<5>>
ZooDash == <<5, 1>>
Park == <<6>>
Mount(c, p, r) == [child |-> c, path |-> p, prefix |-> r]
Pair(x, y, z) == [type |-> "composite", backend |-> x, spec |-> "c1",
                  mounts |-> <<Mount(y, Zoo, <<>>), Mount(z, Park, <<>>)>>]
Abc == {"a", "b", "c"}
Kinds == {Simple, B("unknown", "a"), B("threadsafe", "e")} \cup {B("threadsafe", x) : x \in Abc}
Graphs == {g \in [Abc -> Kinds \cup {Pair(x, "b", "c") : x \in Abc}] : g["b"] \in Kinds /\ g["c"] \in Kinds}
GraphConfigs == {Cfg(g, NoFrontend) : g \in Graphs}

(* Networks: an Http3ClientBackend over a simple backend, a server and a   *)
(* mediator on them, one of the backends possibly missing.                 *)
Client == [type |-> "http3_client", backend |-> "a", mounts |-> <<>>, spec |-> "c1"]
NetBackends == {[x \in {"a", "b"} |-> IF x = "a" THEN Simple ELSE y] : y \in {Simple, Client}}
NetFrontends == {[f \in {"clone", "serve"} |-> IF f = "clone" THEN FE("mediator", {"a", u}) ELSE FE("server", {"a"})]
                   : u \in {"b", "c"}}
NetConfigs == {[Cfg(bs, fs) EXCEPT !.test = t, !.again = r]
                 : bs \in NetBackends, fs \in NetFrontends, t \in BOOLEAN, r \in BOOLEAN}

(* A composite over three simple backends, with a second mount whose name  *)
(* sorts between the first and what lies under it, or whose name the first *)
(* is a part of, or which is redirected.                                   *)
Zoo_A == Zoo \o <<Slash, 5>>
Zoo_Zoo_A == Zoo \o <<Slash, 5, Slash, 5>>
ZooA_A == <<5, 5, Slash, 5>>
Dash_A == ZooDash \o <<Slash, 5>>
UserRules == {Zoo, Zoo_A, Zoo_Zoo_A, ZooA_A, Dash_A, Park \o <<Slash, 5>>}
Composite(ms) == [type |-> "composite", backend |-> "a", mounts |-> ms, spec |-> "c1"]
CompositeConfigs ==
  {[Cfg([x \in {"a", "b", "c", "serve"} |-> IF x = "serve" THEN Composite(ms) ELSE Simple], NoFrontend)
      EXCEPT !.before = tree]
     : ms \in {<<Mount("b", Zoo, <<>>), Mount("c", p, r)>> : p \in {ZooDash, Park, Zoo_A}, r \in {<<>>, <<6, Slash>>}},
       tree \in {NoTree, [l \in {Zoo_A} |-> 9]}}

(* The mediators, between simple and between threadsafe backends.          *)
Straight == [x \in {"a", "b"} |-> Simple]
Stacked == [x \in {"a", "b", "c", "d"} |-> CASE x = "a" -> B("threadsafe", "c")
                                             [] x = "b" -> B("threadsafe", "d")
                                             [] OTHER -> Simple]
MediatorConfigs ==
  {[Cfg(bs, [f \in {"clone"} |-> FE("mediator", {"a", "b"})]) EXCEPT !.flavor = l]
     : bs \in {Straight, Stacked}, l \in {"clone", "versioned", "yaml"}}

AllConfigs == GraphConfigs \cup NetConfigs \cup CompositeConfigs \cup MediatorConfigs
================================================================================
