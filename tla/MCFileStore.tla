---- MODULE MCFileStore ----
EXTENDS FileStore
(* A node, a sibling whose name goes on from its name, a child and a       *)
(* sibling with another name.                                              *)
Lion    == << <<1>> >>
Lioness == << <<1, 2>> >>
Simba   == << <<1>>, <<3>> >>
Tiger   == << <<4>> >>
Animals == {Lion, Lioness, Simba, Tiger}

P(n, t, v) == [name |-> n, type |-> t, value |-> v]
FileOrder == <<[name |-> "mane", type |-> "double"], [name |-> "roar", type |-> "txt"],
               [name |-> "", type |-> "txt"], [name |-> "txt", type |-> "txt"]>>
Mane == P("mane", "double", "fine")
Roar == P("roar", "txt", "exact")
Bare == P("", "txt", "exact")
Lists == {<<>>, <<Roar>>, <<Mane, Roar>>, <<Bare>>}

Node(v, ps) == [version |-> v, props |-> ps]
Write(l, n) == [label |-> l, node |-> n, expect |-> Absent]
Calls == {[kind |-> "upsert", changes |-> <<Write(Lion, Node(0, ps))>>] : ps \in Lists}
    \cup {[kind |-> "upsert", changes |-> <<Write(Simba, Node(0, <<Roar>>)), Write(Tiger, Node(0, <<Roar>>))>>],
          [kind |-> "upsert", changes |-> <<Write(Lioness, Node(0, <<Mane>>))>>]}
    \cup {[kind |-> "delete", changes |-> <<Write(l, Absent)>>] : l \in Animals \ {Tiger}}
    \cup {[kind |-> "apply", changes |-> <<[label |-> Lion, node |-> Node(1, <<Roar>>), expect |-> e],
                                           [label |-> Simba, node |-> n, expect |-> Absent]>>]
            : e \in {Absent, 0}, n \in {Absent, Node(0, <<Mane>>)}}
====
